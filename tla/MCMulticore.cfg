SPECIFICATION FairSpec
CONSTANTS
    Faults = TRUE
    Governors <- MCGovernors
    Frequencies <- MCFrequencies
    Measurements <- MCMeasurements
    DURATION = 20
    TOLERANCE = 1
    MAX_PASSES = 3
    ULONG_MAX = 63
    BUFFER_INC = 2
    MaxText = 6
INVARIANTS
    GovernorsRestored
    LoopsKeepTheirMeaning
    LoopWasMeasured
    LastCpuCounted
    RunTogether
PROPERTIES
    EndsUnlessStranded
CHECK_DEADLOCK FALSE
