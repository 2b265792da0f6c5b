SPECIFICATION Spec
CONSTANTS
    Images <- MCImages
    BLOCK_DATA = 8
    I2C_BUS_ADDR = 1
    DEVICE_BYTES = 60
    FILE_ALIGN = 12
    PARAM_BYTES = 4
    MAP_ADDR = 4
    CONFIG_ADDR_1 = 24
    CONFIG_ADDR_2 = 28
    CONFIG_LEN = 4
    INIT_BYTES = 8
    I_MAX_BLOCK_SIZE = 12
    TI_BTBL_BLOCK_SIZE = 4
    HeaderNoise = {128}
    DataNoise = {1, 128}
    MemoryLen = 12
    Untouched = 238
    MaxFaults = 2
INVARIANTS TypeOK BytesInOrder SectionBoundaries OnlyImageWritten LoadedWhenEntered
PROPERTY Settles
CHECK_DEADLOCK FALSE
