SPECIFICATION Spec
CONSTANTS
    p = p
    q = q
    Proxies = {p, q}
    WithoutMethod = {p}
    MaxIntents = 3
    MaxDisturbances = 0
CHECK_DEADLOCK FALSE
INVARIANTS
    ActiveMeansTunneled
