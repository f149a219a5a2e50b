SPECIFICATION FairSpec
CONSTANTS
    Types = {mouse, key}
    Null = null
    None = none
    MaxTime = 1
    MaxQueue = 2
    MaxCalls = 2
INVARIANTS
    TypeOK
    ScannedHonestly
PROPERTIES
    NothingLost
    FirstMatch
    MatchEndsWait
