SPECIFICATION FairSpec
CONSTANTS
  ns = ns
  cm = cm
  deploy = deploy
  v1 = v1
  v2 = v2
  Refs <- MCRefs
  Priority <- MCPriority
  Rank <- MCRank
  Bodies = {v1, v2}
  Waves <- MCWaves
  None = None
  Renders <- MCRenders
  MaxWrites = 2
  MaxPasses = 2
INVARIANT EveryApplyHasBody
CHECK_DEADLOCK FALSE
