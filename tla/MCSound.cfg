
SPECIFICATION FairSpec
CONSTANTS
    Threads = {t1, t2}
    Main = main
    None = none
    Chunks = 2
INVARIANTS
    TypeOK
    LocksMatchStreamer
    LockDiscipline
PROPERTIES
    PlaybackSpec
    PauseSilences
    StopFinishes
    MainReturns
