SPECIFICATION FairSpec
CONSTANTS
    Allowed = 5
    Safety = 9
    MinScale = 2
    Unit = 10
    MaxReacquisitions = 3
    SequenceIds <- MCSequenceIds
    FrameDefects <- MCFrameDefects
    Spans <- MCSpans
    TelemetryMayFail = TRUE
INVARIANTS
    TypeOK
    ConsumedIncreasing
    FramesAccounted
    LedgerChains
    OutcomeExplained
    JournalTellsAttempts
PROPERTIES
    ImplementsCycle
    EveryRunEnds
    EveryStepSpends
