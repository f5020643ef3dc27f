SPECIFICATION Spec
CONSTANTS
    LocalBits = 2
    PlanViews = 2
    Taps = 3
    Ordering = "gray"
    MaxErased = 1
INVARIANT
    NoMeasuredZero
CHECK_DEADLOCK FALSE
