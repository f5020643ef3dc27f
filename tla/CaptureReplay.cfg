SPECIFICATION Spec
CONSTANTS
    d1 = d1
    d2 = d2
    Directories <- MCDirectories
    Replay <- MCReplay
    MaxWrites = 3
INVARIANTS
    NoStaleData
    WriteOnceIsAtomic
CHECK_DEADLOCK FALSE
