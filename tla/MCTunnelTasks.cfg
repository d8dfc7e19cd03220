SPECIFICATION FairSpec
CONSTANTS
    s1 = s1
    s2 = s2
    Sessions = {s1, s2}
    MaxSessionCount = 2
    Credit = 1
    TaskNewMayFail = TRUE
    TunMayFail = TRUE
INVARIANTS
    CountMatches
    NoAbort
    TerminatedNeverWaits
    StopReachesEverySession
    TimerTicksForSessions
PROPERTIES
    StopEndsAll
CHECK_DEADLOCK FALSE
