\* The model stops at MaxSends, and an uploader may end.
CHECK_DEADLOCK FALSE
SPECIFICATION FairSpec
CONSTANTS
    LoginTimes = 1
    Rounds = 1
    MaxSends = 4
    MaxUnasked = 1
    Endings = {"timeOut", "noReason"}
INVARIANTS
    TypeOK
    IntervalFollowsUnanswered
    SwitchKnowsStatus
    OkIsFresh
PROPERTIES
    RefinesUplink
    OnlyResetHoldsUpWaits
