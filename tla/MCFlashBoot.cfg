SPECIFICATION Spec
CONSTANTS
    pageSizeBytes = 4
    pagesPerBlock = 2
    totalBlocks = 9
    startBlock = 1
    BadBlocks = {0, 2, 5}
    Lines = {0, 1}
    Columns = {0}
    BlockData <- MCBlockData
    emifCorrects = 2
    norQueryBytes = 5
    BIS_MAGIC_NUMBER = 100
    BIS_CMD_SECTION_LOAD = 101
    BIS_CMD_FUNCTION_LOAD = 102
    BIS_CMD_FUNCTION_EXEC = 103
    BIS_CMD_MEMORY_ACCESS = 104
    BIS_CMD_SECTION_TERMINATE = 105
    MAX_BIS_FUNCTION_SUPPORT = 2
    Configs <- MCConfigs
    Image <- MCImage
    Anything = 99
    Erased = 255
    HeaderSize = 2
    BlobParams <- MCBlob
    ReadSizes = {1, 5}
    SeekTargets = {0, 3, 9}
    MaxPosition = 42
    MemoryLen = 10
    MaxAttempts = 2
    Script <- MCScript
INVARIANTS TypeOK DamageIsReported BisImageLoaded ExecRunsLoadedCode BlobImageLoaded SpiNoticesDamage
PROPERTY ImplementsFile
CHECK_DEADLOCK FALSE
