SPECIFICATION Spec
CONSTANTS
    Order <- MCOrder
    Schemas <- MCSchemas
    Dialects = {"sqlite", "mysql", "postgres"}
    Formats = {"legacy", "format 2"}
    Untracked = FALSE
    MaxSteps = 12
    Absent = "-"
INVARIANTS ReachesTarget DataKept LossIsMarked StatementsFit
CHECK_DEADLOCK FALSE
