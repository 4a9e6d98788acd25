\* Fair scheduling, no allocation fails, queues too deep for the collector's to fill.
CONSTANTS
    Diags = {d1, d2}
    Ids = {i1, i2}
    Reqs = {r1}
    DiagQDeep = 1
    InitQDeep = 1
    CollectorQDeep = 3
    MayFail = FALSE
    MayExit = TRUE
    None = None
SPECIFICATION FairSpec
PROPERTIES
    InstancesCollected
    CallsSettled
    ExitCompletes
CHECK_DEADLOCK FALSE
