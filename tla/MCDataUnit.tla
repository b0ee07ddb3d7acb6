----------------------------- MODULE MCDataUnit -----------------------------
(***************************************************************************)
(* Data units for TLC: a time and up to two pieces of information, whole   *)
(* and damaged.                                                            *)
(***************************************************************************)
EXTENDS DataUnitFormat, SequencesExt, Bitwise

\* A byte that is neither a type code nor a count the parser treats apart.
Filler(n) == [i \in 1 .. n |-> 17]

Faulty(a, b, c, d) ==
    LET List(n) == <<n>> \o Filler(4 * (IF n \in Abnormal THEN 0 ELSE n))
    IN  <<7>> \o Filler(5) \o List(a) \o List(b) \o List(c) \o List(d)

System8(m) == Filler(9) \o <<m>> \o Filler(2 * m)
System9(m) == <<17, m \div 256, m % 256>> \o Filler(m)

Plain == {<<kind>> \o Filler(Size[kind]) : kind \in DOMAIN Size}

Pieces ==
    {<<>>, <<3>>, <<0>>} \cup Plain \cup
    {Faulty(0, 0, 0, 0), Faulty(1, 0, 2, 0), Faulty(254, 1, 255, 1),
     <<8, 255>>, <<8, 0>>, <<8, 251>>,
     <<8, 1>> \o System8(1), <<8, 2>> \o System8(2) \o System8(1), <<8, 1>> \o System8(0),
     <<9, 254>>, <<9, 0>>, <<9, 251>>,
     <<9, 1>> \o System9(2), <<9, 2>> \o System9(1) \o System9(3), <<9, 1>> \o System9(0),
     <<9, 1, 17, 255, 255>>, <<9, 2, 17, 255, 254>> \o System9(1)}

Time == Filler(TimeSize)
Code == <<99>>      \* of the vehicle, which nobody looks at

Whole == {Time \o p \o q \o Code : p, q \in Pieces}

\* Bytes are missing at the end; or a byte has one of the values that matter to the parser.
Cut == UNION {Prefixes(Time \o p \o Code) : p \in Pieces} \ {<<>>}
Changed ==
    UNION {{[u EXCEPT ![i] = b] : i \in TimeSize + 1 .. Len(u), b \in {0, 1, 2, 5, 9, 254}} :
               u \in {Time \o p \o q \o Code : p \in Pieces, q \in {<<>>, <<5>> \o Filler(9)}}}

\* A little more than 255 bytes.
Long == {Time \o Faulty(40, 0, 20, 1) \o Code}

\* More than m_packetRef has room for.
TooLong == {Time \o Faulty(120, 0, 0, 0) \o Code}

MCUnits == Whole \cup Long \cup TooLong \cup Cut \cup Changed

\* The start code of the format, "##", and one that only the format forbids.
MCStarts == {<<35, 35>>, <<35, 36>>}

\* The check code's definition, against the loop of generateBlockCheckCharacter.
ASSUME BlockCheckAssumption ==
    \A p \in Pieces : BlockCheck(Time \o p) = FoldLeft(LAMBDA x, y : x ^^ y, 0, Time \o p)
=============================================================================
