\* The model stops when NPackets have arrived.
CHECK_DEADLOCK FALSE
SPECIFICATION FairSpec
CONSTANTS
    realtimeUpload = realtimeUpload
    reissueUpload = reissueUpload
    vehicleLogin = vehicleLogin
    NoPacket = NoPacket
    N = 1
    Capacity = 2
    NPackets = 2
    Mode = "release"
    Rounds = 0
    Cmds <- MCFewCmds
PROPERTY OfflineDataIsReissued
