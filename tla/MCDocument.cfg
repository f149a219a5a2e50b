SPECIFICATION Spec
CONSTANTS
    Names = {A, B}
    Versions = {v1, v2}
    Absent = absent
    None = none
    MaxUndo = 2
SYMMETRY Symmetry
INVARIANTS
    TypeOK
    EditedIsHonest
    AutosaveIsHonest
    NothingAcknowledgedIsLost
PROPERTIES
    StoreSpec
