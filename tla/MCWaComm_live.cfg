\* One connection, made and ended at any time; its client may stop reading for good.
CONSTANTS
    MaxConns = 1
    InitQDeep = 1
    DiagQDeep = 1
    CommQDeep = 1
    Data = {a}
    MayFail = TRUE
    None = None
SPECIFICATION FairSpec
PROPERTIES
    CommTaskReturns
    QuitHeeded
    ExitCompletes
CHECK_DEADLOCK FALSE
