\* The model stops when NPackets have arrived.
CHECK_DEADLOCK FALSE
SPECIFICATION BusySpec
CONSTANTS
    realtimeUpload = realtimeUpload
    reissueUpload = reissueUpload
    vehicleLogin = vehicleLogin
    NoPacket = NoPacket
    N = 1
    Capacity = 1
    NPackets = 5
    Mode = "release"
    Rounds = 0
    Cmds <- MCFewCmds
PROPERTY WaitingUploaderReconnects
