SPECIFICATION SpecHalfix
CONSTANTS
    Thread = {t1, t2}
    NULL = NULL
    MaxDepth = 2
INVARIANTS
  MutualExclusion
