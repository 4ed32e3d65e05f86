CONSTANTS
    Procs = {p1, p2}
    Nobody = Nobody
    k1 = k1
    k2 = k2
    Keys = {k1}
    StoredKey <- MCTextKey
    Prints = {1, 2}
    PoolSize = 2
    RetryLimit = 1
    HasGc = TRUE
    MaxCalls = 3
    MaxGen = 1
SPECIFICATION Spec
SYMMETRY MCSymmetry
INVARIANTS OneEffectPerRetention CommittedRowHasResponse
PROPERTIES ImplementsAtMostOnce
CHECK_DEADLOCK FALSE
