SPECIFICATION Spec
CONSTANTS
    LocalBits = 2
    PlanViews = 2
    Taps = 3
    Ordering = "gray"
    MaxErased = 3
INVARIANTS
    InverseErrorDecays
    ObservedQueriesMeasured
    DetectedOnlyAfterRepair
CHECK_DEADLOCK FALSE
