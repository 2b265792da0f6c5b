SPECIFICATION Spec
CONSTANTS
    Images <- MCImages
    MemoryLen = 14
    MaxAttempts = 2
    LOADBUFSIZE = 4
    INIT_ALIGN = 2
INVARIANT EntryMeansLoaded
PROPERTIES OnlyImageWritten LoadReturns
CHECK_DEADLOCK FALSE
