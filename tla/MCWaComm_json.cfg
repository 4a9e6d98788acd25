\* One connection that closes while a message for it is under way.
CONSTANTS
    MaxConns = 1
    InitQDeep = 1
    DiagQDeep = 1
    CommQDeep = 1
    Data = {a}
    MayFail = FALSE
    None = None
SPECIFICATION Spec
INVARIANT JsonFreedOnce
CHECK_DEADLOCK FALSE
