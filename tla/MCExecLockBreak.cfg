SPECIFICATION Spec
CONSTANTS
    Thread = {t0, t1, t2}
    InitialThread = t0
INVARIANT OneBlockAtATime
CHECK_DEADLOCK FALSE
