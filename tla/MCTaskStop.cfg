SPECIFICATION FairSpec
CONSTANTS
    RingSizes <- MCRingSizes
    Kinds     <- Aperiodic
    MaxJobs   = 3
    SelfStop  = FALSE
    Faults    = FALSE
PROPERTIES
    StopReturns
CHECK_DEADLOCK FALSE
