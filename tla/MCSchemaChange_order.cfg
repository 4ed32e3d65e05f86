SPECIFICATION Spec
CONSTANTS
    Order <- MCOrder
    Schemas <- MCSchemas
    Dialects = {"sqlite", "mysql", "postgres"}
    Formats = {"format 2"}
    Untracked = FALSE
    MaxSteps = 12
    Absent = "-"
INVARIANT DropsAccepted
CHECK_DEADLOCK FALSE
