SPECIFICATION FairSpec
CONSTANTS
    CallsFail = TRUE
    Configs <- MCConfigs
INVARIANTS
    ForcedArguments
    NobodySurvives
    
    HogPrintsOnce
PROPERTIES
    StoppedEnd
CHECK_DEADLOCK FALSE
