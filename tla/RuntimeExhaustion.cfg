SPECIFICATION Spec
CONSTANTS
    Allowed = 5
    Safety = 9
    MinScale = 2
    Unit = 10
    MaxReacquisitions = 1
    SequenceIds <- MCSequenceIds
    FrameDefects <- MCFewDefects
    Spans <- MCFewSpans
    TelemetryMayFail = FALSE
INVARIANT
    FaultIsEmitted
