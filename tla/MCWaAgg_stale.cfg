\* Two runs: the second takes over what the first left in the bank.
CONSTANTS
    Diags = {d1, d2}
    Results = {pass, fail}
    Pass = pass
    Default = default
    MaxRuns = 2
    None = None
SPECIFICATION Spec
INVARIANT NoStaleResult
CHECK_DEADLOCK FALSE
