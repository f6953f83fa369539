SPECIFICATION Spec
CONSTANTS
    c1 = c1
    c2 = c2
    m = m
    loop = loop
    Callers <- MCCallers
    Manual <- MCManual
    Loop = loop
    Ttl = 3
    MinRefresh = 1
    HttpTimeout = 1
    InitTimeout = 1
    MaxTime = 3
    Missing = Missing
    Free = Free
SYMMETRY Calls
INVARIANTS
    GateHeldByFetcher
    HealthyLoopKeepsToken
PROPERTIES
    SetBackOnlyByOverlap
CHECK_DEADLOCK FALSE
