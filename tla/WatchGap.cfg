SPECIFICATION StreamsSpec
CONSTANTS
    StreamApps = {a1}
    NotifyApps = {}
    Clients = {c1}
    BusCap = 3
    WatchCap = 3
    PerAppCap = 3
    MaxDeliveries = 1
    MaxEvents = 2
    MaxReconnects = 1
INVARIANT ReplayThenLive
CHECK_DEADLOCK FALSE
