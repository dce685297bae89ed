SPECIFICATION FairSpec
CONSTANTS
  Apps = {a1, a2}
  MaxConcurrent = 1
  PerAppQueueCap = 1
  MaxJobs = 2
  MaxRejected = 0
  MaxPanics = 0
PROPERTY ShutdownReturns
CHECK_DEADLOCK FALSE
