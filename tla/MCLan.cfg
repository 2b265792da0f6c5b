SPECIFICATION LanSpec
CHECK_DEADLOCK FALSE
CONSTANTS
    DEVICE_NUM_RX_CPPIS = 1
    DEVICE_NUM_TX_CPPIS = 1
    LanConfigs <- MCConfigs
    LastRequest = 2
    MaxTroubles = 1
    MaxSessions = 2
INVARIANTS TypeOK DescriptorsConserved TransmitPacketFreed PendingAwaitsItsHop DatagramsReachNextHop
PROPERTIES SendReturns EveryRequestAnswered
