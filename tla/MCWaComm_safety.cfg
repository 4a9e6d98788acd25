\* Two connections, so that messages for one are still under way in the other.
\* The agent stops once it has exited.
CONSTANTS
    MaxConns = 2
    InitQDeep = 1
    DiagQDeep = 1
    CommQDeep = 1
    Data = {a, b}
    MayFail = TRUE
    None = None
SPECIFICATION Spec
INVARIANTS
    TypeOK
    NoUseAfterClose
    NothingLeftBehind
    WholeMessages
PROPERTY LossyButInOrder
SYMMETRY Symmetric
CHECK_DEADLOCK FALSE
