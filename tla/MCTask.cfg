SPECIFICATION FairSpec
CONSTANTS
    RingSizes <- MCRingSizes
    Kinds     <- Both
    MaxJobs   = 3
    SelfStop  = TRUE
    Faults    = TRUE
INVARIANTS
    AtMostOneLateJob
    LogAccountsForEveryJob
    PositionIsRelease
PROPERTIES
    StopEndsThread
CHECK_DEADLOCK FALSE
