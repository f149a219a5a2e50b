SPECIFICATION Spec
CONSTANTS
    Chars = {a, b}
    LayoutManagers = {m1, m2}
    Nothing = nothing
    Unknown = unknown
    MaxLength = 2
    MaxBrackets = 1
    MaxPasses = 2
    MaxEdits = 3
SYMMETRY Symmetry
INVARIANTS
    TypeOK
    EditedRangeCovers
    ToldRangesFit
    LayoutFollowsText
