SPECIFICATION Spec
CONSTANTS
    MAX_SIZE_STREAM_BUFFER = 4
    Byte <- MCByte
    MAX_TIMER_BLOCKS = 2
    MAX_UDP_SOCKET = 2
    TFTP_DATA_SIZE = 3
    TFTP_TIMEOUT = 1
    TFTP_SERVER_TIMEOUT = 6
    MAX_TFTP_RETRANSMITS = 1
    BLOCK_NUMBERS = 8
    BOOTP_SEED_TIMEOUT = 1
    BOOTP_MAX_RETRIES = 2
    FileLen = 4
    Ports = {p1}
    Configs <- MCBootp
    ReadSizes = {1, 5}
    HEADER_BYTES = 2
    DRAIN_CHUNK = 2
    SeekTargets = {}
    MaxTransfers = 2
INVARIANT TimeoutMeansSilence
CHECK_DEADLOCK FALSE
