SPECIFICATION Spec
CONSTANTS
    MaxSkew = 1
    NoIssuer = "no issuer"
    Absent = Absent
    t1 = t1
    t2 = t2
    Tasks = {t1, t2}
    Requests <- MCRequests
    InitialKeys <- MCInitialKeys
    Published <- MCPublished
    Skew = 1
    DaneOn = TRUE
    MaxTime = 3
    MaxCalls = 2
SYMMETRY Symmetric
INVARIANTS CachesInvisible CacheHonest NoDowngrade
CHECK_DEADLOCK FALSE
