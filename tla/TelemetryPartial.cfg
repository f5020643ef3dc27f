SPECIFICATION Spec
CONSTANTS
    t1 = t1
    t2 = t2
    Emitters <- MCEmitters
    MaxEvents = 2
    MaxFailures = 1
INVARIANT
    OneEventPerLine
CHECK_DEADLOCK FALSE
