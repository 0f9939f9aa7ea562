CONSTANTS
    Thread = {t1, t2}
    Main = Main
    Surface = {s1}
    MaxMouse = 2
    Nobody = Nobody
    SurfEventRegistered = TRUE
    MaxRequests = 2
SPECIFICATION FairSpec
INVARIANTS
  Accounted
  SubscribersGetAll
PROPERTIES
  CrashIsLateNotify
  RequestsReturn
  PumpDelivers
CHECK_DEADLOCK FALSE
