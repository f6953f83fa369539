SPECIFICATION FairSpec
CONSTANTS
    t1 = t1  t2 = t2
    kid1 = kid1  kid2 = kid2  m1 = m1
    Task = {t1, t2}
    Background = Background
    NoTask = NoTask
    NoKey = NoKey
    Never = Never
    Key <- MCKey
    InitialKeys <- MCInitialKeys
    Cooldown = 2
    LockWait = 0
    MaxTime = 2
    MaxChanges = 1
INVARIANTS GateHeldByRefresher
PROPERTIES KeysKept OnDemandSpaced OwnRefreshDecides CallsReturn RotationLearned
