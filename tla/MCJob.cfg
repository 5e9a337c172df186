SPECIFICATION Spec
CONSTANTS
    SlotCounts <- MCSlotCounts
    MaxJobs    <- MCMaxJobs
INVARIANTS
    TypeOK
    CountersAgree
    SlotsHoldTheirJobs
    SaveIsFaithful
PROPERTIES
    ImplementsJobLog
