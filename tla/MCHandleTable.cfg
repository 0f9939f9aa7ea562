SPECIFICATION FairSpec
CONSTANTS
    Thread = {t1, t2}
    d1 = d1
    d2 = d2
    k1 = k1
    event = event
    menu = menu
    Obj = {d1, d2, k1}
    Dummy = {d1, d2}
    DummyType <- MCDummyType
    TypeOf <- MCTypeOf
    UserSpace = 5
    HandleSpace = 8
    MaxIssued = 3
    RelockPasses = TRUE
    NoThread = NoThread
    NoObj = NoObj
    NoType = NoType
INVARIANTS
  ObjectLifetime
  StaleHandlesDangle
  DummyReleasedOnce
  PointerValidWhileOpen
  CrashMeansMisuse
CHECK_DEADLOCK FALSE
