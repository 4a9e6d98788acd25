\* No failure and no exit: one short-lived instance is enough.
CONSTANTS
    Diags = {d1, d2}
    Ids = {i1, i2}
    Reqs = {r1}
    DiagQDeep = 1
    InitQDeep = 1
    CollectorQDeep = 1
    MayFail = FALSE
    MayExit = FALSE
    None = None
SPECIFICATION Spec
PROPERTY DestroyedAfterJoin
CHECK_DEADLOCK FALSE
