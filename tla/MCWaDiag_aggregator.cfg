\* The agent exits while a procedure runs.
CONSTANTS
    Diags = {d1, d2}
    Ids = {i1, i2}
    Reqs = {r1}
    DiagQDeep = 1
    InitQDeep = 1
    CollectorQDeep = 1
    MayFail = FALSE
    MayExit = TRUE
    None = None
SPECIFICATION Spec
PROPERTY AggregatorAliveWhenUsed
CHECK_DEADLOCK FALSE
