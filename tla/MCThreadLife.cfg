SPECIFICATION FairSpec
CONSTANTS
    Thread = {t0, t1}
    InitialThread = t0
    NULL = NULL
    ChecksSuspend = TRUE
    MaxSuspend = 2
INVARIANTS
  ParamOutlivesHandshake
  SuspendedIsStopped
  SelfHandleLostByLeaveOrClose
PROPERTIES
  CallsReturn
CHECK_DEADLOCK FALSE
