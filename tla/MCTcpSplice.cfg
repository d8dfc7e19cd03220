SPECIFICATION FairSpec
CONSTANTS
    Setting = 3
    SndBuf = 2
    Wnd = 2
    SockBuf = 1
    ServerBytes = 3
    ClientBytes = 2
    MemoryFails = FALSE
    OutputFails = TRUE
CHECK_DEADLOCK FALSE
INVARIANTS
    InOrder
    InFlightIntact
    EndsClean
PROPERTIES
    Delivers
