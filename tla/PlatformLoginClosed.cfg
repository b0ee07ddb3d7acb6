\* The model stops at MaxSends, and an uploader may end.
CHECK_DEADLOCK FALSE
SPECIFICATION Spec
CONSTANTS
    LoginTimes = 1
    Rounds = 0
    MaxSends = 3
    MaxUnasked = 0
    Endings = {}
INVARIANTS
    OnlyFailureThrows
