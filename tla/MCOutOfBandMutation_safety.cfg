CONSTANTS
    Procs = {p1, p2}
    Keys = {k1, k2}
    NoKey = NoKey
    Prints = {1, 2}
    Ttl = 2
    OpsWithinTtl = TRUE
    Suspending = {TRUE, FALSE}
    MaxCalls = 3
    MaxTime = 4
    MaxCrashes = 1
SPECIFICATION Spec
SYMMETRY MCSymmetry
INVARIANTS OneRunPerKey NoStrandedClaim AnswersMatchPayload RepeatsAreUnknownCommits SweptInTime
CHECK_DEADLOCK FALSE
