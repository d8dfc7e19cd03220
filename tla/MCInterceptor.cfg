SPECIFICATION InterceptorFairSpec
CONSTANTS
    p = p
    Proxies = {p}
    WithoutMethod = {p}
    MaxIntents = 2
    MaxDisturbances = 1
    ShortPackets = TRUE
CHECK_DEADLOCK FALSE
INVARIANTS
    PairsAreClosed
    CalmlyCarried
PROPERTIES
    PumpsEnd
