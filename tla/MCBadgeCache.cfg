SPECIFICATION FairSpec
CONSTANTS
    Fqdn = {f1}
    Version = {v1, v2}
    Value = {x1, x2}
    NoEntry = NoEntry
    Task = {t1, t2, t3}
    NoTask = NoTask
INVARIANTS
    EntriesIndexed
PROPERTIES
    DropIsComplete
    ImplementsAtomic
    CallsReturn
CHECK_DEADLOCK FALSE
