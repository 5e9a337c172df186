SPECIFICATION Spec
CONSTANTS
    RingSizes <- MCRingSizes
    Kinds     <- Aperiodic
    MaxJobs   = 3
    SelfStop  = FALSE
    Faults    = FALSE
INVARIANTS
    NotKilledInProgram
CHECK_DEADLOCK FALSE
