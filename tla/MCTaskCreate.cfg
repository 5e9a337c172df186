SPECIFICATION TimeSpec
CONSTANTS
    Contents <- Any
    OnStack <- Any
    Programs <- AllPrograms
INVARIANTS
    ReleasedExactlyOnce
    ResultMatchesReturn
    OverheadIsMeasured
    CollectedExactlyOnce
CHECK_DEADLOCK FALSE
