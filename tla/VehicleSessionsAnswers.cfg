CHECK_DEADLOCK FALSE
SPECIFICATION Spec
CONSTANTS
    Sessions = {s1, s2}
    Vins = {vin1, vin2, vin3}
    Allowed = {vin1, vin2}
    NoSession = NoSession
    NoVin = NoVin
    MaxPackets = 2
INVARIANTS
    ForwardedAnswersArrive
