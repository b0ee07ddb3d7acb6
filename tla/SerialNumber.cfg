CONSTANTS
    Uploaders = {u0, u1}
    First = u0
    MaxSerialNumber = 2
    Modulus = 5
    LastDay = 3
SPECIFICATION Spec
INVARIANTS
    TypeOK
    NumberInRange
    AloneCountsUp
