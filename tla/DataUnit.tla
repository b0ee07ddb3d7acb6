------------------------------ MODULE DataUnit ------------------------------
(***************************************************************************)
(* The data unit of one vehicle packet, byte by byte: what parseDataUnit   *)
(* makes of a realtime or reissue upload, and what becomes of the packet's *)
(* command and check code until an uploader has written it to the public   *)
(* platform.                                                               *)
(*                                                                         *)
(* A cursor stands for m_packetRef's position and what rtData has got so   *)
(* far; Thrown is the exception that ends the parsing.  Each round of the  *)
(* two nested loops of parseDataUnit is a step.  bytebuf is external: put, *)
(* get and movePosition beyond the limit throw, as the catch of            *)
(* ByteBufferException relies on, and getShort leaves the order of the     *)
(* bytes to the ntohs around it.  Of the header, the bytes the program     *)
(* does not change are left out, but for the start code.                   *)
(*                                                                         *)
(* The header says how long the unit is, and nothing compares that with    *)
(* the room in m_packetRef: a unit that does not fit overruns the buffer,  *)
(* and what the program does then is undefined and not modelled.           *)
(***************************************************************************)
EXTENDS Integers, Sequences, FiniteSets

CONSTANTS
    Starts,     \* the two bytes a packet may start with: the program does not look at them
    Units       \* what may follow the header: data unit and check code, as sequences of bytes

Byte == 0 .. 255
MAXPACK_LENGTH == 512
HeaderSize     == 24    \* sizeof (DataPacketHeader_t)

Room           == MAXPACK_LENGTH - HeaderSize      \* what m_packetRef has behind the header

ASSUME StartsAssumption == Starts \subseteq Byte \X Byte

\* readDataUnit reads as many bytes as the 16 bit dataUnitLength says, and one more.
LongestUnit    == 65536

ASSUME UnitsAssumption == \A u \in Units : u \in Seq(Byte) /\ 0 < Len(u) /\ Len(u) <= LongestUnit

realtimeUpload == 2
reissueUpload  == 3

\* VehicleDataStructInfo: sizes by type code; alarm (7), voltages of the battery systems (8)
\* and temperatures of their probes (9) have counts instead.
Size == [t \in {1, 2, 5, 6} |-> CASE t = 1 -> 20 [] t = 2 -> 13 [] t = 5 -> 9 [] t = 6 -> 14]
A_typeCode    == 7
RESV_typeCode == 8
REST_typeCode == 9
TimeSize      == 6      \* sizeof (TimeForward_t)

Abnormal      == {254, 255}

VARIABLES
    start,      \* the start code of the packet,
    cmd,        \* its command as it came,
    unit,       \* and its bytes behind the header
    where,      \* where the packet is
    cursor,     \* how far parseDataUnit is
    typ,        \* the type code of its last round,
    sysn,       \* and the systems its inner loop still has to skip
    packet,     \* what parseDataUnit returned
    wasLate     \* history: the packet has been in the reissue queue

parseVars == <<cursor, typ, sysn>>
arrived == <<start, cmd, unit>>
vars == <<arrived, where, parseVars, packet, wasLate>>

Thrown == [at |-> 0, out |-> <<>>]
Begin  == [at |-> 1, out |-> <<>>]

NoPacket == [cmd |-> 0, length |-> 0, data |-> <<>>, code |-> 0]

Init ==
    /\ start \in Starts
    /\ cmd \in {realtimeUpload, reissueUpload}
    /\ unit \in Units
    /\ where = "socket"
    /\ cursor = Begin
    /\ typ = 0
    /\ sysn = 0
    /\ packet = NoPacket
    /\ wasLate = FALSE

\* An operator named Operation_Defect is a mistaken variant of Operation, used only to check
\* that the properties would notice it.
-----------------------------------------------------------------------------
(* The parser.                                                             *)

\* m_packetRef->movePosition(n)
MovePosition(c, n) ==
    IF c # Thrown /\ c.at + n <= Len(unit) + 1 THEN [c EXCEPT !.at = @ + n] ELSE Thrown

\* rtData->put(*m_packetRef, n)
Put(c, n) ==
    LET d == MovePosition(c, n)
    IN  IF d = Thrown THEN Thrown
        ELSE [d EXCEPT !.out = @ \o SubSeq(unit, c.at, d.at - 1)]

\* m_packetRef->get(m_packetRef->position()), which does not move.  Whoever asks past the
\* limit throws at the next move.
Get(c) == IF c.at \in DOMAIN unit THEN unit[c.at] ELSE 0

GetShort(c) == 256 * Get(c) + Get(MovePosition(c, 1))

Remaining(c) == Len(unit) + 1 - c.at

Faults(c) ==
    LET n == Get(c)
    IN  Put(c, 1 + 4 * (IF n \in Abnormal THEN 0 ELSE n))

\* Type code, level and flags, and four lists of faults.
Alarm(c) == Faults(Faults(Faults(Faults(Put(c, 6)))))

Cells(c) ==
    LET atCount == MovePosition(c, 9)
        m == Get(atCount)
    IN  IF m \in 1 .. 200 THEN MovePosition(atCount, 1 + 2 * m) ELSE Thrown

\* No probes or more than 65531 are refused.  The abnormal numbers 65534 and 65535 are to end
\* the loop over the systems, and do so by the exception of a move of that many bytes.
Probes(c) ==
    LET atCount == MovePosition(c, 1)
        m == GetShort(atCount)
    IN  IF m \in {0, 65532, 65533} THEN Thrown ELSE MovePosition(atCount, 2 + m)

\* The exception ends the parsing.
GoOn(c) ==
    /\ cursor' = c
    /\ where' = IF c = Thrown THEN "refused" ELSE "parsing"

\* Voltages and temperatures are skipped: nothing of them is put into rtData.
Systems(c) ==
    LET n == Get(MovePosition(c, 1))
        first == MovePosition(c, 2)
    IN  \/ n \in Abnormal /\ GoOn(first) /\ sysn' = 0
        \/ n \in 1 .. 250 /\ GoOn(first) /\ sysn' = n
        \/ n \notin Abnormal \cup 1 .. 250 /\ GoOn(Thrown) /\ sysn' = 0

Bit(b, k) == (b \div 2^k) % 2

\* Whether an odd number of the bytes has bit k.
Odd(bytes, k) == Cardinality({i \in DOMAIN bytes : Bit(bytes[i], k) = 1}) % 2

\* Util::generateBlockCheckCharacter: the exclusive or of all bytes.
BlockCheck(bytes) ==
    Odd(bytes, 0) + 2 * Odd(bytes, 1) + 4 * Odd(bytes, 2) + 8 * Odd(bytes, 3)
    + 16 * Odd(bytes, 4) + 32 * Odd(bytes, 5) + 64 * Odd(bytes, 6) + 128 * Odd(bytes, 7)

\* A packet as it is in the buffer, without its check code: start code as the vehicle sent it,
\* command, length, data unit.
Buffer(p) == <<start[1], start[2], p.cmd, p.length \div 256, p.length % 256>> \o p.data

Rest(s, k) == SubSeq(s, k + 1, Len(s))

Sealed(p, offset) == [p EXCEPT !.code = BlockCheck(Rest(Buffer(p), offset))]

Fits == Len(unit) <= Room

\* async_read puts the unit behind the header, wherever that ends.
Overrun ==
    /\ where = "socket"
    /\ ~Fits
    /\ where' = "overrun"
    /\ UNCHANGED <<arrived, parseVars, packet, wasLate>>

\* The time comes first.
ParseTime ==
    /\ where = "socket"
    /\ Fits
    /\ GoOn(Put(Begin, TimeSize))
    /\ UNCHANGED <<arrived, typ, sysn, packet, wasLate>>

\* One round of the loop, by type code.
ParseInformation ==
    /\ where = "parsing"
    /\ sysn = 0
    /\ Remaining(cursor) > 1
    /\ typ' = Get(cursor)
    /\ \/ typ' \in DOMAIN Size /\ GoOn(Put(cursor, 1 + Size[typ'])) /\ UNCHANGED sysn
       \/ typ' = A_typeCode /\ GoOn(Alarm(cursor)) /\ UNCHANGED sysn
       \/ typ' \in {RESV_typeCode, REST_typeCode} /\ Systems(cursor)
       \/ /\ typ' \notin DOMAIN Size \cup {A_typeCode, RESV_typeCode, REST_typeCode}
          /\ GoOn(Thrown)
          /\ UNCHANGED sysn
    /\ UNCHANGED <<arrived, packet, wasLate>>

ParseSystem_OneTooMany ==
    /\ where = "parsing"
    /\ sysn >= 0
    /\ GoOn(IF typ = RESV_typeCode THEN Cells(cursor) ELSE Probes(cursor))
    /\ sysn' = sysn - 1
    /\ UNCHANGED <<arrived, typ, packet, wasLate>>

\* One round of the loop over the battery systems.
ParseSystem ==
    /\ where = "parsing"
    /\ sysn > 0
    /\ GoOn(IF typ = RESV_typeCode THEN Cells(cursor) ELSE Probes(cursor))
    /\ sysn' = sysn - 1
    /\ UNCHANGED <<arrived, typ, packet, wasLate>>

Accepted_CodeMissing(c) == Remaining(c) <= 1

\* What the end of the loop leaves when it went through all but the check code.
Accepted(c) == Remaining(c) = 1

\* The check code that came with the packet is not compared with anything.  Which queue the
\* packet is put into, module Forwarding says.
EndParsing ==
    /\ where = "parsing"
    /\ sysn = 0
    /\ Remaining(cursor) <= 1
    /\ IF Accepted(cursor)
       THEN /\ packet' = Sealed([cmd |-> cmd, length |-> Len(cursor.out), data |-> cursor.out,
                                 code |-> 0], 2)
            /\ \E late \in BOOLEAN :
                   /\ where' = IF late THEN "reissue queue" ELSE "realtime queue"
                   /\ wasLate' = late
       ELSE /\ where' = "refused"
            /\ UNCHANGED <<packet, wasLate>>
    /\ UNCHANGED <<arrived, parseVars>>

-----------------------------------------------------------------------------
(* The packet's way: TCP thread, queues, uploader.                         *)

\* Another packet arrives while no uploader is connected.
Drain ==
    /\ where = "realtime queue"
    /\ where' = "reissue queue"
    /\ wasLate' = TRUE
    /\ UNCHANGED <<arrived, parseVars, packet>>

TakeRealtime ==
    /\ where = "realtime queue"
    /\ where' = "uploader"
    /\ UNCHANGED <<arrived, parseVars, packet, wasLate>>

AsReissue_CodeKept(p) == IF p.cmd = realtimeUpload THEN [p EXCEPT !.cmd = reissueUpload] ELSE p

\* The check code is computed over the start code too, which adds nothing if its bytes are
\* equal, as those of "##" are.
AsReissue(p) ==
    IF p.cmd = realtimeUpload THEN Sealed([p EXCEPT !.cmd = reissueUpload], 0) ELSE p

TakeReissue ==
    /\ where = "reissue queue"
    /\ where' = "uploader"
    /\ packet' = AsReissue(packet)
    /\ UNCHANGED <<arrived, parseVars, wasLate>>

\* A write that ends in another exception than a SocketException ends its uploader: the packet
\* stays there for good (module Forwarding).
Send ==
    /\ where = "uploader"
    /\ where' = "platform"
    /\ UNCHANGED <<arrived, parseVars, packet, wasLate>>

SendFails ==
    /\ where = "uploader"
    /\ where' = "reissue queue"
    /\ wasLate' = TRUE
    /\ UNCHANGED <<arrived, parseVars, packet>>

ParseDataUnit == Overrun \/ ParseTime \/ ParseInformation \/ ParseSystem \/ EndParsing

Next == ParseDataUnit \/ Drain \/ TakeRealtime \/ TakeReissue \/ Send \/ SendFails

Spec == Init /\ [][Next]_vars

-----------------------------------------------------------------------------
(* The format of a data unit: what the bytes from position i to before     *)
(* position j may be.  It knows nothing of cursors and exceptions.         *)

Listed(n) == IF n \in Abnormal THEN 0 ELSE n

IsPlain(i, j) ==
    \/ unit[i] = 1 /\ j = i + 21
    \/ unit[i] = 2 /\ j = i + 14
    \/ unit[i] = 5 /\ j = i + 10
    \/ unit[i] = 6 /\ j = i + 15

BehindFaults(i) == i + 1 + 4 * Listed(unit[i])

IsAlarm(i, j) ==
    LET a == BehindFaults(i + 6)
        b == BehindFaults(a)
        c == BehindFaults(b)
    IN  /\ unit[i] = A_typeCode
        /\ i + 6 < j /\ a < j /\ b < j /\ c < j
        /\ j = BehindFaults(c)

\* A battery system with its voltages or its temperatures.
IsSystem(kind, i, j) ==
    \/ /\ kind = RESV_typeCode
       /\ i + 9 < j
       /\ unit[i + 9] \in 1 .. 200
       /\ j = i + 10 + 2 * unit[i + 9]
    \/ /\ kind = REST_typeCode
       /\ i + 3 < j
       /\ j = i + 3 + 256 * unit[i + 1] + unit[i + 2]

\* The head of a piece with systems.
AnnouncesSystems(i) ==
    /\ unit[i] \in {RESV_typeCode, REST_typeCode}
    /\ unit[i + 1] \in 1 .. 250 \cup Abnormal

-----------------------------------------------------------------------------
(* Properties.                                                             *)

IsCursor(c) ==
    /\ c \in [at : 0 .. Len(unit) + 1, out : Seq(Byte)]
    /\ c = Thrown \/ Len(c.out) < c.at

\* The position stays within the unit, and of a unit that fits m_packetRef, rtData, as large
\* as m_packetRef, has room for whatever the parser puts into it, and for the check code.
\* Nothing says that a unit fits: readDataUnit (TcpSession.cpp:118) does not ask.
TypeOK ==
    /\ start \in Byte \X Byte
    /\ cmd \in {realtimeUpload, reissueUpload}
    /\ unit \in Seq(Byte) /\ 0 < Len(unit) /\ Len(unit) <= LongestUnit
    /\ where \in {"socket", "overrun", "parsing", "refused",
                  "realtime queue", "reissue queue", "uploader", "platform"}
    /\ where \notin {"socket", "overrun"} => Fits
    /\ IsCursor(cursor)
    /\ typ \in Byte
    /\ sysn \in Byte
    /\ packet \in [cmd : 0 .. 7, length : Nat, data : Seq(Byte), code : Byte]
    /\ Len(packet.data) < Room
    /\ wasLate \in BOOLEAN

\* Whatever detours through queues and failed writes the packet took, what is written to the
\* public platform says its own length and is a realtime upload only if it came as one and was
\* never late.  It has the check code of its own bytes if its start code was two equal bytes,
\* or if nobody made a reissue upload of it: Uploader.cpp:130 computes the code again, over
\* the start code too, and a realtime upload that came with two different start bytes gets a
\* wrong code there.
WrittenIsSound ==
    where = "platform" =>
        /\ packet.length = Len(packet.data)
        /\ start[1] = start[2] \/ packet.cmd = cmd =>
               packet.code = BlockCheck(Rest(Buffer(packet), 2))
        /\ packet.cmd = realtimeUpload <=> cmd = realtimeUpload /\ ~wasLate
=============================================================================
