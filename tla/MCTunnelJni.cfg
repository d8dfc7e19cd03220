SPECIFICATION JniFairSpec
CONSTANTS
    c1 = c1
    c2 = c2
    Stoppers = {c1, c2}
    NoThread = NoThread
INVARIANTS
    OneWorker
    IsRunningWhileMain
PROPERTIES
    StopLeavesTunnelDown
    DeliveredQuitEndsWorker
\* A quit lost in the race QuitEndsMain shows leaves every thread blocked.
CHECK_DEADLOCK FALSE
