SPECIFICATION ReportSpec
CONSTANTS
    MaxUnits = 6
    Responses <- MCResponses
    Oldest <- MCOldest
    Periods <- MCPeriods
    Offset = 2
    Deadline = 15
    THOUSAND = 10
INVARIANTS
    DeliveredInOrder
    ExitCodeTellsTheTruth
    ReportAddsUp
CHECK_DEADLOCK FALSE
