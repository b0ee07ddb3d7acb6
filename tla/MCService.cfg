\* The model stops when NPackets have arrived; and the program itself may come to a stop,
\* see the README.
CHECK_DEADLOCK FALSE
SPECIFICATION FairService
CONSTANTS
    realtimeUpload = realtimeUpload
    reissueUpload = reissueUpload
    vehicleLogin = vehicleLogin
    NoPacket = NoPacket
    N = 1
    Capacity = 2
    NPackets = 3
    Mode = "release"
    Rounds = 0
    Cmds <- MCCmds
INVARIANTS
    TypeOK
    ConservedUntilExit
    SeenIsTaken
PROPERTIES
    DataFollowsLogin
    RefinesRelay
    RealtimeIsServed
    ReissueIsServed
    StopCompletes
