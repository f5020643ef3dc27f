SPECIFICATION Spec
CONSTANTS
    t1 = t1
    t2 = t2
    s1 = s1
    s2 = s2
    Threads <- MCThreads
    Streams <- MCStreams
    Guards <- MCGuards
    Calibrations <- MCCalibrations
    MaxFrames = 3
    MaxReacquisitions = 1
    MaxReplacements = 1
SYMMETRY Swaps
INVARIANTS
    ConsumedInOrder
    SoundFramesPass
    CalibrationCoversFrame
    CalibrationsInOrder
CHECK_DEADLOCK FALSE
PROPERTIES
    ImplementsSerial
