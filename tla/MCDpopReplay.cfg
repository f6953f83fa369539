SPECIFICATION Spec
CONSTANTS
    t1 = t1  t2 = t2  t3 = t3
    j1 = j1  j2 = j2  j3 = j3
    Task = {t1, t2, t3}
    Jti = {j1, j2, j3}
    Proof <- MCProof
    Skew = 2
    Grace = 1
    BucketWidth = 2
    MaxEntries = 2
    MaxTime = 9
SYMMETRY Tasks
INVARIANTS NoReplay EntriesEarned
PROPERTIES JtiHeld FullWhenBusy
