\* Two diags, three runs: enough for a run in the bank of the run before last.
CONSTANTS
    Diags = {d1, d2}
    Results = {pass, fail}
    Pass = pass
    Default = default
    MaxRuns = 3
    None = None
SPECIFICATION Spec
INVARIANTS
    TypeOK
    BankInv
    SnapshotUnlessReused
PROPERTY Promise
SYMMETRY Symmetric
CHECK_DEADLOCK FALSE
