SPECIFICATION FairSpec
CONSTANTS
  Apps = {a1}
  None = None
  BusCapacity = 2
  MaxConcurrent = 1
  AutoHeal = TRUE
  MaxCommits = 1
  MaxCreates = 1
  MaxFaults = 1
INVARIANTS RenderedOrComing RequestsKept
CHECK_DEADLOCK FALSE
PROPERTIES Converges StatusSettles
