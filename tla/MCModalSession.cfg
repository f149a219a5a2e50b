SPECIFICATION Spec
CONSTANTS
    None = none
    Windows = {panel, window}
    Panels = {panel}
    WorksWhenModal = {window}
    ReleasedWhenClosed = {window}
    MaxSessions = 2
    MaxFrames = 3
    MaxQueue = 1
INVARIANTS
    TypeOK
    SessionsMatchLoops
    LevelsRestored
PROPERTY
    FirstStopOrLateStore
