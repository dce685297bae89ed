SPECIFICATION RecordsSpec
CONSTANTS
    Tables = {"app"}
    Requests = {q1}
    LatestVersion = 2
    Retention = 1
    MaxRowIds = 1
    MaxRecords = 1
    MaxCrashes = 1
INVARIANT RegisteredPersists
CHECK_DEADLOCK FALSE
