SPECIFICATION FairSpec
CONSTANTS
    None = none
    Windows = {panel}
    Panels = {panel}
    WorksWhenModal = {}
    ReleasedWhenClosed = {panel}
    MaxSessions = 2
    MaxFrames = 3
    MaxQueue = 1
PROPERTIES
    StopCyclesLoop
