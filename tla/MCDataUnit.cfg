\* A refused packet, one that overran the buffer and one that was written stop.
CHECK_DEADLOCK FALSE
SPECIFICATION Spec
CONSTANT
    Starts <- MCStarts
    Units <- MCUnits
INVARIANTS
    TypeOK
    AcceptsTheFormat
    WrittenIsSound
