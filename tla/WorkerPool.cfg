SPECIFICATION FairSpec
CONSTANTS
  Apps = {a1, a2, a3}
  MaxConcurrent = 2
  PerAppQueueCap = 2
  MaxJobs = 3
  MaxRejected = 1
  MaxPanics = 1
INVARIANTS ReadyExact OneJobPerApp PerAppFifo NoLostWakeup Accounting
CHECK_DEADLOCK FALSE
PROPERTIES DrainInFlightOnly NoOvertaking AcceptedJobStarts ImplementsScheduler
