SPECIFICATION Spec
CONSTANTS
    t1 = t1
    t2 = t2
    Emitters <- MCEmitters
    MaxEvents = 3
    MaxFailures = 2
SYMMETRY Swap
INVARIANTS
    DamageIsLocal
    RecordedOnce
    LinesFollowCalls
CHECK_DEADLOCK FALSE
