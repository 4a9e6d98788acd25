\* Everything may happen: allocations fail, the agent exits at any time.
CONSTANTS
    Diags = {d1, d2, d3}
    Ids = {i1, i2}
    Reqs = {r1, r2}
    DiagQDeep = 1
    InitQDeep = 1
    CollectorQDeep = 1
    MayFail = TRUE
    MayExit = TRUE
    None = None
SPECIFICATION Spec
INVARIANTS
    TypeOK
    AtMostOneInstance
    IdHeldWhileRunning
    NoDanglingInstance
    AnsweredOnce
SYMMETRY Symmetric
\* The agent stops once it has exited.
CHECK_DEADLOCK FALSE
