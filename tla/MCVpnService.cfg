SPECIFICATION Spec
CONSTANTS
    p = p
    q = q
    Proxies = {p, q}
    WithoutMethod = {p}
    MaxIntents = 3
    MaxDisturbances = 1
CHECK_DEADLOCK FALSE
INVARIANTS
    CalmlyTunneled
    WorkerHasInterface
    NothingLeft
    StopStops
