\* Parts that are called by the others: safety only.  Eight ids; a list with room for
\* five of them (the agent: 128 of 65536) or for all (the self-test build: 256 of 256).
CONSTANTS
    Diags <- MCDiags
    Depths = {3}
    DefaultDepth = 1
    MaxDepth = 2
    Filters <- MCFilters
    FilterMayFail = TRUE
    Processes = {daemon, tool}
    MayFailCalls = TRUE
    Frequencies = {1}
    Thresholds = {101}
    Sizes = {50}
    NumTuners = 2
    NumSiEntries = 2
    LockLoopCount = 2
    Powers <- MCPowers
    DecoderFiles <- MCDecoderFiles
    TransportFiles <- MCTransportFiles
    TunerMayFail = TRUE
    Teams <- MCTeams
    HdmiTries = 3
    MaxLost = 1
    IarmMayFail = TRUE
    MaxId = 7
    ListSizes = {5, 8}
SPECIFICATION PartsSpec
INVARIANTS PartsTypeOK HistoryIsRecent LostOnlyInTheGap DisabledIsQuiet FrequencyApplied
    ReturnsEverything SuccessIsEarned ConnectedWhileUsed JudgedAsHeard
PROPERTIES VerdictOfRecent AnsweredTruly GivesNextFree
CHECK_DEADLOCK FALSE
