SPECIFICATION Spec
CONSTANTS
    Images <- MCElf
    MemoryLen = 14
    MaxAttempts = 1
    LOADBUFSIZE = 4
    INIT_ALIGN = 2
INVARIANT SuccessMeansLoaded
CHECK_DEADLOCK FALSE
