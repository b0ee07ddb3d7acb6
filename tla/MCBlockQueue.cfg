\* Every thread may sleep for ever in put or in take: the queue need not be served.
CHECK_DEADLOCK FALSE
SPECIFICATION FairSpec
CONSTANTS
    tcp = tcp
    uploader0 = uploader0
    uploader1 = uploader1
    d1 = d1
    d2 = d2
    Idle = Idle
    Capacity = 2
    Threads <- MCThreads
    Data <- MCData
INVARIANTS
    TypeOK
    CapacityRespected
    NoLostWakeup
PROPERTIES
    RefinesBoundedQueue
    ServesItsCallers
