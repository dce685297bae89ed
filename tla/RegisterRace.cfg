SPECIFICATION RepositoriesSpec
CONSTANTS
    Repos = {r1}
    OrchCallers = {c1, c2}
    FetchSlots = 1
    MaxPollers = 2
    MaxPushes = 1
    MaxFaults = 0
INVARIANT RegisteredWired
CHECK_DEADLOCK FALSE
