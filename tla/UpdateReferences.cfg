SPECIFICATION RecordsSpec
CONSTANTS
    Tables = {"app"}
    Requests = {q1}
    LatestVersion = 2
    Retention = 1
    MaxRowIds = 1
    MaxRecords = 2
    MaxCrashes = 0
INVARIANT ReferencesStayValid
CHECK_DEADLOCK FALSE
