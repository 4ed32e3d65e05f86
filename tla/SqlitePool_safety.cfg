CONSTANTS
    Tasks = {t1, t2}
    Programs = {"mutation", "rebuild", "app"}
    Cancellable = {"mutation", "app"}
    AutoRollback = {"WRITE"}
    Configured = {TRUE, FALSE}
    Max = 1
    Given = FALSE
    MaxCalls = 3
SPECIFICATION Spec
INVARIANTS ConnectionsBounded JobsMeetNoForeignTx CommitDecides PooledAsOpened
PROPERTIES EveryCallReturns
CHECK_DEADLOCK FALSE
