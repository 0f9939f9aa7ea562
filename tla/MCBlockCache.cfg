SPECIFICATION FairCacheSpec
CONSTANTS
  Thread = {t0, t1, t2}
  InitialThread = t0
  Addr <- MCAddr
  Entry = "a"
  Predicted <- MCPredicted
  Jumps <- MCJumps
  MaxDepth = 1
  MaxBlocks = 3
  MaxAfter = 1
INVARIANTS
  ExecutorsBounded
  CacheHoldsNewest
  
  DestroyedMeansRace
PROPERTIES
  BlocksExecute
CHECK_DEADLOCK FALSE
