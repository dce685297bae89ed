SPECIFICATION FairSpec
CONSTANTS
  Apps = {a1}
  Triggers = {webhook}
  Window = 2
  MaxConcurrent = 1
  PerAppQueueCap = 1
  None = None
  MaxEvents = 2
  MaxFlushes = 1
  MaxTime = 4
PROPERTY FiresAfterQuiet
CHECK_DEADLOCK FALSE
