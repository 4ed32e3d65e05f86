CONSTANTS
    h = h
    p = p
    Tasks = {h, p}
    Plain = {p}
    Guarded = {h}
    Straying <- MCStraying
    Dropped = {h, p}
    Exhausted = {p}
    Asks <- MCDefaults
    Conns = {c1, c2}
    NoConn = NoConn
    Dialects = {"mariadb", "postgres", "sqlite"}
    Ignored <- MCIgnored
    MaxRetry = 1
    MaxCalls = 2
SPECIFICATION FairSpec
INVARIANTS PooledHasNoTransaction OneAttemptCommits OkMeansCommitted MutationIsWhole
PROPERTIES EveryTransactionEnds
