\* The model stops when NPackets have arrived.
CHECK_DEADLOCK FALSE
SPECIFICATION Spec
CONSTANTS
    realtimeUpload = realtimeUpload
    reissueUpload = reissueUpload
    vehicleLogin = vehicleLogin
    NoPacket = NoPacket
    N = 2
    Capacity = 2
    NPackets = 2
    Mode = "platformCompliance"
    Rounds = 1
    Cmds <- MCFewCmds
INVARIANTS
    Conservation
    SeenIsTaken
PROPERTIES
    RefinesUplink
    DataFollowsLogin
    RefinesRelay
