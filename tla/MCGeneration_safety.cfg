CONSTANTS
    api = api
    sql = sql
    model = model
    client = client
    Gens = {g}
    Builds = {b}
    Imports = {i}
    Outputs <- MCOutputs
    Client = client
    Versions = {1, 2}
    EditsDuringBuild = FALSE
    MaxRuns = 2
    MaxRunning = 2
    MaxEdits = 2
    MaxTakes = 1
SPECIFICATION Spec
INVARIANTS ReportIsExact CacheIsTruthful
PROPERTIES UserFilesKept
CHECK_DEADLOCK FALSE
