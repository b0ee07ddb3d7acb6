CHECK_DEADLOCK FALSE
SPECIFICATION FairSpec
CONSTANTS
    Sessions = {s1, s2}
    Vins = {vin1, vin2, vin3}
    Allowed = {vin1, vin2}
    NoSession = NoSession
    NoVin = NoVin
    MaxPackets = 3
INVARIANTS
    TypeOK
    EntryHasItsSession
    AnswersGoToTheirVehicle
PROPERTIES
    DeadEntryIsCleared
    TimedOutSessionEnds
