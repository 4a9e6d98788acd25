\* One client, safety, progress and refinement; the caller may exit.
CONSTANTS
    Elements = 3
    Av = 2
    Tuner = 3
    JobSets <- MCJobSets
    MayDrop = TRUE
    MayMute = TRUE
    MayDestroy = TRUE
SPECIFICATION HwstSpec
INVARIANTS HwstTypeOK DependencyFirst NothingForgotten SummaryComplete OfferedUnlessLate
    OrderlyEndNeverBlocks
PROPERTIES RunEnds ImplementsRun
CHECK_DEADLOCK FALSE
