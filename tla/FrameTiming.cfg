SPECIFICATION Spec
CONSTANTS
    PlanFingerprint = "plan"
    PhysicalSlots = 5
    InvalidNum = 2
    InvalidDen = 5
    MaxConsecutiveInvalid = 1
    JitterNum = 1
    JitterDen = 5
    MinReceivers = 2
    MaxReceivers = 3
    Captures <- MCBurstAndDuplicate
    PreviousIds <- MCPreviousIds
INVARIANT
    MalformedTimingIsHard
CHECK_DEADLOCK FALSE
