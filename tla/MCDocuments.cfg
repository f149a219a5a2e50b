SPECIFICATION Spec
CONSTANTS
    Docs = {d1, d2, d3}
    None = none
    MaxIndex = 3
SYMMETRY Symmetry
INVARIANTS
    TypeOK
    RecordsMatch
PROPERTIES
    UnsavedWorkKept
    AutosavedWorkStays
