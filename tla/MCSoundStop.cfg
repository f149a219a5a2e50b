
SPECIFICATION FairSpec
CONSTANTS
    Threads = {t1, t2}
    Main = main
    None = none
    Chunks = 1
PROPERTY
    StopClosesDevice
