\* A run of all diags ends although the capabilities were never looked at.
CONSTANTS
    Elements = 3
    Av = 2
    Tuner = 3
    JobSets <- MCJobSets
    MayDrop = FALSE
    MayMute = FALSE
    MayDestroy = FALSE
SPECIFICATION HwstSpec
INVARIANTS CapabilitiesOffered
CHECK_DEADLOCK FALSE
