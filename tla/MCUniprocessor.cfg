CONSTANTS
    Programs <- MCPrograms
    Early <- MCEarly
    Faults = TRUE
SPECIFICATION Spec
INVARIANTS NoJobLate ResponseTimesAsAnalysed InversionOnlyWithoutInheritance DestroyedNeverRuns SuccessMeansAllRan
PROPERTY StopEndsProgram
CHECK_DEADLOCK FALSE
