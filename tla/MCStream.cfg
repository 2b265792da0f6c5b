SPECIFICATION Spec
CONSTANTS
    MAX_SIZE_STREAM_BUFFER = 3
    Byte <- MCByte
    ChunkSizes = {2, 4}
    ReadSizes = {1, 2, 4}
    Writes <- MCWrites
INVARIANTS TypeOK IndicesAgree
PROPERTY ImplementsQueue
