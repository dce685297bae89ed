SPECIFICATION ControlSpec
CONSTANTS
    Parts = {"registry", "tokens", "hooks", "hosts", "streams", "records", "rendering", "scalers", "health", "diff", "pruning", "config"}
    ClusterNames = {n1}
    RegCallers = {c1, c2, c3}
    NoMonitor = NoMonitor
    MaxMonitors = 4
    TokenCallers = {c1, c2}
    Lifetime = 2
    RefreshBefore = 1
    MaxAttempts = 2
    MaxTime = 3
    MaxExchanges = 3
    HookRunners = {c1, c2}
    NoAnnotation = NoAnnotation
    PhaseTokens <- Phases2
    PolicyTokens <- Policies2
    MaxIncarnations = 2
    MaxPods = 1
    Hosts = {"h"}
    Ports = {22, 2222}
    DefaultPort = 22
    KeyTypes = {"rsa", "ed"}
    Keys = {"k1", "k2"}
    SeedLines <- Files
    MaxContacts = 3
    StreamApps = {a1}
    NotifyApps = {a1}
    Clients = {s1}
    BusCap = 1
    WatchCap = 1
    PerAppCap = 1
    MaxDeliveries = 2
    MaxEvents = 2
    MaxReconnects = 1
    Tables = {"app", "cluster", "repo"}
    Requests = {q1, q2}
    LatestVersion = 1
    Retention = 1
    MaxRowIds = 2
    MaxRecords = 1
    MaxCrashes = 1
    CacheKeys <- RenderKeys
    PluginNames = {"p", "q"}
    PluginDocs <- Documents
    Renderers = {w1, w2}
    MaxEntries = 2
    MaxBytes = 3
    Sizes = {1, 2, 4}
    MaxConnects = 2
    MaxRenders = 3
    MaxReloads = 1
    Controllers = {"Hpa", "Vpa"}
    ScalerNames = {n1}
    Targets = {t1}
    NoTarget = NoTarget
    NoScaler = NoScaler
    NoEntry = NoEntry
    Unset = Unset
    Due = Due
    ScalerCap = 2
    MaxScalerEdits = 3
    MaxRelists = 1
    Resources = {o1, o2}
    MaxReplicas = 1
    MaxGeneration = 2
    Unreported = Unreported
    ListMaps <- ListMapPaths
    SetLists <- Finalizers
    Numbers = {"80"}
    Desireds <- Commits
    OurManager = "synchrotron"
    Others = {"kubectl"}
    Edits <- LiveEdits
    RuleSets <- IgnoreRuleSets
    Claims <- ReplicasClaim
    NoField = NoField
    MaxEdits = 2
    PruneManifests <- Manifests
    NoNs = NoNs
    NoValue = NoValue
    IdleSync = IdleSync
    MaxSyncs = 3
    ConfigTexts <- Texts
    Unreadable = Unreadable
    Malformed = Malformed
    Absent = Absent
    Refused = Refused
    NoConfig = NoConfig
    MaxConfigEdits = 2
    MaxHangups = 2
INVARIANTS
    HookOutcomeFresh RefreshTokenCurrent WatchGapless NotifiedInOrder EditsKept
    CacheAccounts ScalersCurrent GateHonest DriftExact PruneExact ConfigFollowsFile
PROPERTIES RegistryNeverSwaps HostKeysPinned
SYMMETRY Interchangeable
CHECK_DEADLOCK FALSE
