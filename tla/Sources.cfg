SPECIFICATION SourcesSpec
CONSTANTS
    Kinds = {k1, k2}
    Names = {n1}
    Owners = {a1, a2}
    Absent = Absent
    FirstOwner = a1
    ChannelCap = 1
    ReconnectAfter = 2
    MaxFailures = 2
    MaxDisturbances = 1
    Repos = {r1}
    OrchCallers = {c1, c2}
    FetchSlots = 1
    MaxPollers = 2
    MaxPushes = 1
    MaxFaults = 1
INVARIANTS StoreTracksCluster TriggerWired
PROPERTIES ClusterRecovers PushesFetched
CHECK_DEADLOCK FALSE
