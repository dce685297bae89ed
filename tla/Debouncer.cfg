SPECIFICATION FairSpec
CONSTANTS
  Apps = {a1, a2}
  Triggers = {webhook, poll}
  Window = 2
  MaxConcurrent = 1
  PerAppQueueCap = 1
  None = None
  MaxEvents = 3
  MaxFlushes = 1
  MaxTime = 4
INVARIANTS NoStrandedBurst QuietWithinEra OneFirePerBurst
PROPERTY EventReachesPool
CHECK_DEADLOCK FALSE
