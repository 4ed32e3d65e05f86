CONSTANTS
    Procs = {p1}
    N = 3
    Versions = {1, 2}
    UpScript <- MCUp
    DownScript <- MCDown
    Batches = 2
    Destructive = {3}
    Directions = {"up", "down", "to"}
    Transactional = {TRUE, FALSE}
    EditWays = {"up"}
    MaxEdits = 1
    MaxFailures = 2
SPECIFICATION Retried
INVARIANTS LedgerFollowsDirection LedgerMatchesWork ProgressIsExact
PROPERTIES WorkAtFrontier AppliedAgain
CHECK_DEADLOCK FALSE
