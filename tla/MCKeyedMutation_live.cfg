CONSTANTS
    Procs = {p1, p2, p3}
    Nobody = Nobody
    k1 = k1
    k2 = k2
    Keys = {k1}
    StoredKey <- MCTextKey
    Prints = {1}
    PoolSize = 2
    RetryLimit = 1
    HasGc = FALSE
    MaxCalls = 3
    MaxGen = 0
SPECIFICATION FairSpec
PROPERTIES EveryCallEnds
CHECK_DEADLOCK FALSE
