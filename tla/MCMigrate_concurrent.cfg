CONSTANTS
    Procs = {p1, p2}
    N = 2
    Versions = {1, 2}
    UpScript <- MCUpPlain
    DownScript <- MCDownPlain
    Batches = 2
    Destructive = {}
    Directions = {"up"}
    Transactional = {TRUE, FALSE}
    EditWays = {"up"}
    MaxEdits = 1
    MaxFailures = 2
SPECIFICATION Spec
SYMMETRY MCSymmetry
INVARIANTS AppliersAgree
CHECK_DEADLOCK FALSE
