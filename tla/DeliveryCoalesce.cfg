SPECIFICATION FairSpec
CONSTANTS
  Apps = {a1}
  None = None
  BusCapacity = 2
  MaxConcurrent = 1
  AutoHeal = FALSE
  MaxCommits = 1
  MaxCreates = 1
  MaxFaults = 0
PROPERTY Converges
CHECK_DEADLOCK FALSE
