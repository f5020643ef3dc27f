SPECIFICATION Spec
CONSTANTS
    Allowed = 150
    Safety = 3
    MinScale = 2
    Unit = 4
    v1 = v1
    v2 = v2
    v3 = v3
    b1 = b1
    b2 = b2
    Views <- MCViews
    Buckets <- MCBuckets
    Steps <- MCSteps
    MaxReacquisitions = 2
SYMMETRY Swaps
INVARIANTS
    AcceptedWithinBudget
    ExhaustedForCause
    FinalMatchesRequest
CHECK_DEADLOCK FALSE
