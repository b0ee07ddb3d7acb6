--------------------------- MODULE DataUnitFormat ---------------------------
(***************************************************************************)
(* All ways to read a data unit as pieces of information, found by         *)
(* recursion, and that parseDataUnit accepts just what can be read.        *)
(* Probe counts of a temperature system are what the parser takes them     *)
(* for: 65534 and 65535, abnormal in the standard's terms, count as that   *)
(* many probes here as there (TcpSession.cpp:283 means to end the loop).   *)
(***************************************************************************)
EXTENDS DataUnit

\* ends[m] has the positions behind m systems.
AreSystems(kind, n, i, j) ==
    LET ends[m \in 0 .. n] ==
            IF m = 0 THEN {i}
            ELSE UNION {{k \in l + 1 .. j : IsSystem(kind, l, k)} : l \in ends[m - 1]}
    IN  j \in ends[n]

IsInformation(i, j) ==
    \/ IsPlain(i, j)
    \/ IsAlarm(i, j)
    \/ /\ i + 1 < j
       /\ AnnouncesSystems(i)
       /\ AreSystems(unit[i], Listed(unit[i + 1]), i + 2, j)

\* The ways to read the bytes from i to before the check code, as the positions where pieces
\* begin and the last ends: there is at most one.
Readings[i \in 1 .. Len(unit)] ==
    IF i = Len(unit) THEN {<<i>>}
    ELSE UNION {{<<i>> \o r : r \in Readings[j]} :
                    j \in {k \in i + 1 .. Len(unit) : IsInformation(i, k)}}

UnitReadings == IF Len(unit) > TimeSize THEN Readings[TimeSize + 1] ELSE {}

\* The positions of the time, and of the pieces but voltages and temperatures.
KeptPiece(cuts, k) ==
    IF unit[cuts[k]] \in {RESV_typeCode, REST_typeCode} THEN {} ELSE cuts[k] .. cuts[k + 1] - 1

Kept(cuts) == 1 .. TimeSize \cup UNION {KeptPiece(cuts, k) : k \in 1 .. Len(cuts) - 1}

\* data has just the bytes at the positions K, in their order.
HasJust(data, K) ==
    /\ Len(data) = Cardinality(K)
    /\ \A p \in K : data[Cardinality({q \in K : q <= p})] = unit[p]

\* parseDataUnit (TcpSession.cpp:208) lets a unit that fits m_packetRef through if and only if
\* it is a time, pieces of information with the lengths their type codes and counts say, and
\* one byte more; and what it hands on is the time and all pieces but voltages and
\* temperatures, in their order, wherever the damage is, in a count, a type code or at the end.
AcceptsTheFormat ==
    /\ where = "refused" => UnitReadings = {}
    /\ where \notin {"socket", "overrun", "parsing", "refused"} =>
           \E cuts \in UnitReadings : HasJust(packet.data, Kept(cuts))
=============================================================================
