SPECIFICATION Spec
CONSTANTS
    MAX_SIZE_STREAM_BUFFER = 4
    Byte <- MCByte
    MAX_TIMER_BLOCKS = 2
    MAX_UDP_SOCKET = 2
    TFTP_DATA_SIZE = 3
    TFTP_TIMEOUT = 1
    TFTP_SERVER_TIMEOUT = 6
    MAX_TFTP_RETRANSMITS = 2
    BLOCK_NUMBERS = 8
    BOOTP_SEED_TIMEOUT = 1
    BOOTP_MAX_RETRIES = 2
    FileLen = 7
    Ports = {"p1", "p2"}
    Configs <- MCStatic
    ReadSizes = {1, 5}
    HEADER_BYTES = 2
    DRAIN_CHUNK = 2
    SeekTargets = {}
    MaxTransfers = 1
INVARIANTS TypeOK BytesInOrder EndIsEndOfFile AckedIsStored RoomForBlock EndedTransferIsIdle TimersConsistent ErrorLeavesNothing TimeoutMeansSilence
PROPERTY ImplementsTransfer
CHECK_DEADLOCK FALSE
