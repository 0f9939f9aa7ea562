SPECIFICATION FairSpec
CONSTANTS
    Thread = {t1, t2, t3, t4}
    NULL = NULL
    MaxDepth = 2
INVARIANTS
  MutualExclusion
  OwnerIsInside
  WaitersAreServed
PROPERTIES
  ImplementsLock
  EnterReturns
