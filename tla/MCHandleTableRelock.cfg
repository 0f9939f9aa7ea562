SPECIFICATION FairSpec
CONSTANTS
    Thread = {t1, t2}
    d1 = d1
    d2 = d2
    k1 = k1
    event = event
    menu = menu
    Obj = {d1, d2}
    Dummy = {d1, d2}
    DummyType <- MCDummyType
    TypeOf <- MCTypeOf
    UserSpace = 4
    HandleSpace = 8
    MaxIssued = 3
    RelockPasses = FALSE
    NoThread = NoThread
    NoObj = NoObj
    NoType = NoType
PROPERTY LockIsReleased
CHECK_DEADLOCK FALSE
