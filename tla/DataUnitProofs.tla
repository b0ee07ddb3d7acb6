--------------------------- MODULE DataUnitProofs ---------------------------
(***************************************************************************)
(* What holds of every data unit that fits m_packetRef.  Each round of the *)
(* parser is a step, and the check code counts the bytes that have a bit;  *)
(* only the recursion of the format needs induction over bytes.            *)
(***************************************************************************)
EXTENDS DataUnitFormat, SequenceTheorems, FiniteSetTheorems, WellFoundedInduction, TLAPS

-----------------------------------------------------------------------------
(* The parser's operations keep the cursor within the unit.                *)

LEMMA ThrownIsCursor ==
    ASSUME unit \in Seq(Byte)
    PROVE  IsCursor(Thrown) /\ IsCursor(Begin)
<1>1. Len(unit) \in Nat  BY LenProperties
<1>2. <<>> \in Seq(Byte) /\ Len(<<>>) = 0  OBVIOUS
<1>3. QED  BY <1>1, <1>2 DEF IsCursor, Thrown, Begin

LEMMA MoveIsCursor ==
    ASSUME unit \in Seq(Byte), NEW c, IsCursor(c), NEW n \in Nat
    PROVE  /\ IsCursor(MovePosition(c, n))
           /\ MovePosition(c, n) # Thrown =>
                  /\ c # Thrown
                  /\ MovePosition(c, n).at = c.at + n /\ MovePosition(c, n).at <= Len(unit) + 1
                  /\ MovePosition(c, n).out = c.out
<1>1. Len(unit) \in Nat  BY LenProperties
<1>2. IsCursor(Thrown)  BY ThrownIsCursor
<1>3. CASE c # Thrown /\ c.at + n <= Len(unit) + 1
  <2>1. Len(c.out) \in Nat /\ c.at \in Nat /\ c.out \in Seq(Byte)
    BY <1>1, LenProperties DEF IsCursor
  <2>2. MovePosition(c, n) = [at |-> c.at + n, out |-> c.out]
    BY <1>3, <2>1 DEF MovePosition, IsCursor
  <2>3. Len(c.out) < c.at + n /\ c.at + n \in 0 .. Len(unit) + 1
    BY <1>1, <1>3, <2>1 DEF IsCursor
  <2>4. QED  BY <1>3, <2>1, <2>2, <2>3 DEF IsCursor
<1>4. CASE ~(c # Thrown /\ c.at + n <= Len(unit) + 1)
  <2>1. MovePosition(c, n) = Thrown  BY <1>4 DEF MovePosition
  <2>2. QED  BY <1>2, <2>1
<1>5. QED  BY <1>3, <1>4

LEMMA PutIsCursor ==
    ASSUME unit \in Seq(Byte), NEW c, IsCursor(c), NEW n \in Nat
    PROVE  IsCursor(Put(c, n))
<1> DEFINE d == MovePosition(c, n)
           taken == SubSeq(unit, c.at, d.at - 1)
<1>1. Len(unit) \in Nat /\ DOMAIN unit = 1 .. Len(unit) /\ \A i \in 1 .. Len(unit) : unit[i] \in Byte
  BY LenProperties, ElementOfSeq
<1>2. IsCursor(d)  BY MoveIsCursor
<1>3. CASE d = Thrown
  BY <1>3, ThrownIsCursor DEF Put
<1>4. CASE d # Thrown
  <2>1. /\ c # Thrown /\ d.at = c.at + n /\ d.at <= Len(unit) + 1 /\ d.out = c.out
        /\ c.at \in Nat /\ c.out \in Seq(Byte) /\ Len(c.out) \in Nat /\ Len(c.out) < c.at
    BY <1>1, <1>4, MoveIsCursor, LenProperties DEF IsCursor
  <2>2. \A i \in c.at .. d.at - 1 : unit[i] \in Byte  BY <1>1, <2>1
  <2>3. taken \in Seq(Byte) /\ Len(taken) = IF c.at <= d.at - 1 THEN d.at - 1 - c.at + 1 ELSE 0
    BY <2>1, <2>2, SubSeqProperties
  <2>4. Len(taken) = n  BY <2>1, <2>3
  <2>5. c.out \o taken \in Seq(Byte) /\ Len(c.out \o taken) = Len(c.out) + n
    <3> HIDE DEF taken
    <3>1. c.out \o taken \in Seq(Byte) /\ Len(c.out \o taken) = Len(c.out) + Len(taken)
      BY <2>1, <2>3, ConcatProperties
    <3>2. QED  BY <2>4, <3>1
  <2>6. Put(c, n) = [at |-> c.at + n, out |-> c.out \o taken]
    BY <1>2, <1>4, <2>1 DEF Put, IsCursor
  <2>7. QED  BY <1>1, <2>1, <2>5, <2>6 DEF IsCursor
<1>5. QED  BY <1>3, <1>4

LEMMA GetIsByte ==
    ASSUME unit \in Seq(Byte), NEW c
    PROVE  Get(c) \in Byte
BY ElementOfSeq, LenProperties DEF Get, Byte

LEMMA GetShortIsNat ==
    ASSUME unit \in Seq(Byte), NEW c
    PROVE  GetShort(c) \in Nat
<1>1. Get(c) \in Byte /\ Get(MovePosition(c, 1)) \in Byte  BY GetIsByte
<1>2. \A b \in Byte : b \in Nat  BY DEF Byte
<1>3. Get(c) \in Nat /\ Get(MovePosition(c, 1)) \in Nat  BY <1>1, <1>2
<1>4. QED  BY <1>3 DEF GetShort

LEMMA AlarmIsCursor ==
    ASSUME unit \in Seq(Byte), NEW c, IsCursor(c)
    PROVE  IsCursor(Alarm(c))
<1>0. \A b \in Byte : b \in Nat  BY DEF Byte
<1>1. ASSUME NEW d, IsCursor(d)
      PROVE  IsCursor(Faults(d))
  <2>1. Get(d) \in Byte  BY GetIsByte
  <2>2. 1 + 4 * (IF Get(d) \in Abnormal THEN 0 ELSE Get(d)) \in Nat  BY <1>0, <2>1
  <2>3. QED  BY <1>1, <2>2, PutIsCursor DEF Faults
<1>2. IsCursor(Put(c, 6))  BY PutIsCursor
<1>3. QED  BY <1>1, <1>2 DEF Alarm

LEMMA SystemIsCursor ==
    ASSUME unit \in Seq(Byte), NEW c, IsCursor(c)
    PROVE  IsCursor(Cells(c)) /\ IsCursor(Probes(c))
<1>1. IsCursor(MovePosition(c, 9)) /\ IsCursor(MovePosition(c, 1)) /\ IsCursor(Thrown)
  BY MoveIsCursor, ThrownIsCursor
<1>2. IsCursor(Cells(c))
  <2>1. Get(MovePosition(c, 9)) \in Byte  BY GetIsByte
  <2>2. \A b \in Byte : 1 + 2 * b \in Nat  BY DEF Byte
  <2>3. 1 + 2 * Get(MovePosition(c, 9)) \in Nat  BY <2>1, <2>2
  <2>4. QED  BY <1>1, <2>3, MoveIsCursor DEF Cells
<1>3. IsCursor(Probes(c))
  <2>1. GetShort(MovePosition(c, 1)) \in Nat  BY MoveIsCursor, GetShortIsNat
  <2>2. 2 + GetShort(MovePosition(c, 1)) \in Nat  BY <2>1
  <2>3. QED  BY <1>1, <2>2, MoveIsCursor DEF Probes
<1>4. QED  BY <1>2, <1>3

-----------------------------------------------------------------------------
(* The check code.                                                         *)

LEMMA OddIsBit ==
    ASSUME NEW S, NEW s \in Seq(S), NEW k
    PROVE  Odd(s, k) \in 0 .. 1
<1> DEFINE Having == {i \in DOMAIN s : Bit(s[i], k) = 1}
<1>1. DOMAIN s = 1 .. Len(s) /\ Len(s) \in Nat  BY LenProperties
<1>2. IsFiniteSet(DOMAIN s)  BY <1>1, FS_Interval
<1>3. Cardinality(Having) \in Nat  BY <1>2, FS_Subset, FS_CardinalityType
<1> HIDE DEF Having
<1>4. Cardinality(Having) % 2 \in 0 .. 1  BY <1>3
<1>5. QED  BY <1>4 DEF Odd, Having

LEMMA BlockCheckIsByte ==
    ASSUME NEW S, NEW s \in Seq(S)
    PROVE  BlockCheck(s) \in Byte
<1>1. \A k : Odd(s, k) \in 0 .. 1  BY OddIsBit
<1> DEFINE a == Odd(s, 0)
           b == Odd(s, 1)
           c == Odd(s, 2)
           d == Odd(s, 3)
           e == Odd(s, 4)
           f == Odd(s, 5)
           g == Odd(s, 6)
           h == Odd(s, 7)
<1>2. /\ a \in 0 .. 1 /\ b \in 0 .. 1 /\ c \in 0 .. 1 /\ d \in 0 .. 1
      /\ e \in 0 .. 1 /\ f \in 0 .. 1 /\ g \in 0 .. 1 /\ h \in 0 .. 1
  BY <1>1
<1>3. BlockCheck(s) = a + 2 * b + 4 * c + 8 * d + 16 * e + 32 * f + 64 * g + 128 * h
  BY DEF BlockCheck
<1> HIDE DEF a, b, c, d, e, f, g, h
<1>4. a + 2 * b + 4 * c + 8 * d + 16 * e + 32 * f + 64 * g + 128 * h \in Byte
  BY <1>2 DEF Byte
<1>5. QED  BY <1>3, <1>4

\* Two equal bytes at the front do not count.
LEMMA PairDoesNotCount ==
    ASSUME NEW S, NEW s \in Seq(S), Len(s) >= 2, s[1] = s[2], NEW k
    PROVE  Odd(Rest(s, 2), k) = Odd(s, k)
<1> DEFINE r == Rest(s, 2)
           A == {i \in DOMAIN s : Bit(s[i], k) = 1}
           B == {i \in DOMAIN r : Bit(r[i], k) = 1}
           C == (A \ {1}) \ {2}
           shift == [i \in B |-> i + 2]
<1>1. Len(s) \in Nat /\ DOMAIN s = 1 .. Len(s) /\ \A i \in 1 .. Len(s) : s[i] \in S
  BY LenProperties, ElementOfSeq
<1>2. /\ r \in Seq(S) /\ Len(r) = Len(s) - 2
      /\ \A i \in 1 .. Len(s) - 2 : r[i] = s[i + 2]
  <2>1. \A i \in 3 .. Len(s) : s[i] \in S  BY <1>1
  <2>2. /\ SubSeq(s, 3, Len(s)) \in Seq(S)
        /\ Len(SubSeq(s, 3, Len(s))) = IF 3 <= Len(s) THEN Len(s) - 3 + 1 ELSE 0
        /\ \A i \in 1 .. Len(s) - 3 + 1 : SubSeq(s, 3, Len(s))[i] = s[3 + i - 1]
    BY <1>1, <2>1, SubSeqProperties
  <2>3. r = SubSeq(s, 3, Len(s))  BY DEF Rest
  <2> HIDE DEF r
  <2>4. r \in Seq(S) /\ Len(r) = Len(s) - 2  BY <1>1, <2>2, <2>3
  <2>5. ASSUME NEW i \in 1 .. Len(s) - 2
        PROVE  r[i] = s[i + 2]
    <3>1. i \in 1 .. Len(s) - 3 + 1 /\ 3 + i - 1 = i + 2  BY <1>1
    <3>2. QED  BY <2>2, <2>3, <3>1
  <2>6. QED  BY <2>4, <2>5
<1>3. DOMAIN r = 1 .. Len(s) - 2  BY <1>2, LenProperties
<1> HIDE DEF r
<1>4. IsFiniteSet(A) /\ IsFiniteSet(B) /\ Cardinality(A) \in Nat /\ Cardinality(B) \in Nat
  <2>1. IsFiniteSet(DOMAIN s) /\ IsFiniteSet(DOMAIN r)  BY <1>1, <1>3, FS_Interval
  <2>2. A \in SUBSET DOMAIN s /\ B \in SUBSET DOMAIN r  OBVIOUS
  <2> HIDE DEF A, B
  <2>3. QED  BY <2>1, <2>2, FS_Subset, FS_CardinalityType
<1>5. 1 \in A <=> 2 \in A  BY <1>1
<1>6. Cardinality(C) = IF 1 \in A THEN Cardinality(A) - 2 ELSE Cardinality(A)
  <2>1. /\ IsFiniteSet(A \ {1})
        /\ Cardinality(A \ {1}) = IF 1 \in A THEN Cardinality(A) - 1 ELSE Cardinality(A)
    BY <1>4, FS_RemoveElement
  <2>2. Cardinality(C) = IF 2 \in A \ {1} THEN Cardinality(A \ {1}) - 1 ELSE Cardinality(A \ {1})
    BY <2>1, FS_RemoveElement
  <2>3. 2 \in A \ {1} <=> 1 \in A  BY <1>5
  <2> HIDE DEF A, C
  <2>4. QED  BY <1>4, <2>1, <2>2, <2>3
<1>7. Cardinality(C) = Cardinality(B)
  <2>1. \A i \in B : i \in Nat /\ i + 2 \in C  BY <1>1, <1>2, <1>3
  <2>2. \A j \in C : j - 2 \in B /\ j = (j - 2) + 2  BY <1>1, <1>2, <1>3
  <2> HIDE DEF B, C
  <2>3. shift \in Bijection(B, C)
    <3>1. shift \in [B -> C]  BY <2>1
    <3>2. \A i, j \in B : shift[i] = shift[j] => i = j  BY <2>1
    <3>3. \A j \in C : \E i \in B : shift[i] = j  BY <2>2
    <3>4. QED  BY <3>1, <3>2, <3>3 DEF Bijection, Injection, Surjection, IsInjective
  <2>4. ExistsBijection(B, C)  BY <2>3 DEF ExistsBijection
  <2>5. QED  BY <1>4, <2>4, FS_Bijection
<1> HIDE DEF A, B, C
<1>8. Cardinality(B) % 2 = Cardinality(A) % 2  BY <1>4, <1>6, <1>7
<1>9. QED  BY <1>8 DEF Odd, A, B, r

\* A packet says its own length; and it has the check code of its bytes, unless its start code
\* was counted that must not be.
PacketType == [cmd : 0 .. 7, length : Nat, data : Seq(Byte), code : Byte]

Started == start \in Byte \X Byte

Coded(p) == p.code = BlockCheck(Rest(Buffer(p), 2))

Right(p) ==
    /\ p.length = Len(p.data)
    /\ start[1] = start[2] \/ p.cmd = cmd => Coded(p)

LEMMA BufferIsSequence ==
    ASSUME Started, NEW p \in PacketType
    PROVE  /\ Buffer(p) \in Seq(Nat) /\ Len(Buffer(p)) >= 2
           /\ Buffer(p)[1] = start[1] /\ Buffer(p)[2] = start[2]
<1> DEFINE header == <<start[1], start[2], p.cmd, p.length \div 256, p.length % 256>>
<1>1. p.cmd \in Nat /\ p.length \in Nat /\ p.data \in Seq(Byte)  BY DEF PacketType
<1>2. p.length \div 256 \in Nat /\ p.length % 256 \in Nat  BY <1>1
<1>0. start[1] \in Nat /\ start[2] \in Nat  BY DEF Started, Byte
<1>3. header \in Seq(Nat) /\ Len(header) = 5 /\ header[1] = start[1] /\ header[2] = start[2]
  BY <1>0, <1>1, <1>2
<1>4. p.data \in Seq(Nat) /\ Len(p.data) \in Nat
  <2>1. Byte \subseteq Nat  BY DEF Byte
  <2>2. QED  BY <1>1, <2>1, SeqMonotonic, LenProperties
<1> HIDE DEF header
<1>5. /\ header \o p.data \in Seq(Nat) /\ Len(header \o p.data) = Len(header) + Len(p.data)
      /\ \A i \in 1 .. Len(header) + Len(p.data) :
             (header \o p.data)[i] = IF i <= Len(header) THEN header[i]
                                     ELSE p.data[i - Len(header)]
  BY <1>3, <1>4, ConcatProperties
<1>6. (header \o p.data)[1] = start[1] /\ (header \o p.data)[2] = start[2]
  <2>1. 1 \in 1 .. Len(header) + Len(p.data) /\ 2 \in 1 .. Len(header) + Len(p.data)
    BY <1>3, <1>4
  <2>2. 1 <= Len(header) /\ 2 <= Len(header)  BY <1>3
  <2>3. (header \o p.data)[1] = header[1] /\ (header \o p.data)[2] = header[2]
    BY <1>5, <2>1, <2>2
  <2>4. QED  BY <1>3, <2>3
<1>7. QED  BY <1>3, <1>4, <1>5, <1>6 DEF Buffer, header

LEMMA SealedIsPacket ==
    ASSUME Started, NEW p \in PacketType, NEW offset \in {0, 2}
    PROVE  /\ Sealed(p, offset) \in PacketType
           /\ Sealed(p, offset).cmd = p.cmd /\ Sealed(p, offset).length = p.length
           /\ Sealed(p, offset).data = p.data
           /\ offset = 2 \/ start[1] = start[2] =>
                  Sealed(p, offset).code = BlockCheck(Rest(Buffer(p), 2))
<1> DEFINE b == Buffer(p)
<1>1. b \in Seq(Nat) /\ Len(b) >= 2 /\ b[1] = start[1] /\ b[2] = start[2] /\ Len(b) \in Nat
  BY BufferIsSequence, LenProperties
<1> HIDE DEF b
<1>2. \A k \in 0 .. 2 : Rest(b, k) \in Seq(Nat)
  <2> TAKE k \in 0 .. 2
  <2>1. \A i \in k + 1 .. Len(b) : b[i] \in Nat  BY <1>1, ElementOfSeq
  <2>2. SubSeq(b, k + 1, Len(b)) \in Seq(Nat)  BY <1>1, <2>1, SubSeqProperties
  <2>3. QED  BY <2>2 DEF Rest
<1>3. BlockCheck(Rest(b, offset)) \in Byte  BY <1>2, BlockCheckIsByte
<1>4. ASSUME offset = 2 \/ start[1] = start[2]
      PROVE  BlockCheck(Rest(b, offset)) = BlockCheck(Rest(b, 2))
  <2>1. CASE offset = 0
    <3>1. Rest(b, 0) = b  BY <1>1, SubSeqFull DEF Rest
    <3>2. \A k : Odd(Rest(b, 2), k) = Odd(b, k)  BY <1>1, <1>4, <2>1, PairDoesNotCount
    <3>3. BlockCheck(b) = BlockCheck(Rest(b, 2))  BY <3>2 DEF BlockCheck
    <3>4. QED  BY <2>1, <3>1, <3>3
  <2>2. QED  BY <2>1
<1>5. /\ Sealed(p, offset) \in PacketType
      /\ Sealed(p, offset).cmd = p.cmd /\ Sealed(p, offset).length = p.length
      /\ Sealed(p, offset).data = p.data
      /\ Sealed(p, offset).code = BlockCheck(Rest(b, offset))
  BY <1>3 DEF Sealed, PacketType, b
<1>6. QED  BY <1>4, <1>5 DEF b

LEMMA SealedIsRight ==
    ASSUME Started, NEW p \in PacketType, p.length = Len(p.data), NEW offset \in {0, 2},
           offset = 2 \/ p.cmd # cmd
    PROVE  Right(Sealed(p, offset))
<1>1. /\ Sealed(p, offset).cmd = p.cmd /\ Sealed(p, offset).length = p.length
      /\ Sealed(p, offset).data = p.data
      /\ offset = 2 \/ start[1] = start[2] =>
             Sealed(p, offset).code = BlockCheck(Rest(Buffer(p), 2))
  BY SealedIsPacket
<1>2. Buffer(Sealed(p, offset)) = Buffer(p)  BY <1>1 DEF Buffer
<1>3. QED  BY <1>1, <1>2 DEF Right, Coded

\* The packet that EndParsing seals.
Unsealed == [cmd |-> cmd, length |-> Len(cursor.out), data |-> cursor.out, code |-> 0]

LEMMA UnsealedIsPacket ==
    ASSUME cmd \in {realtimeUpload, reissueUpload}, IsCursor(cursor)
    PROVE  /\ Unsealed \in PacketType /\ Unsealed.length = Len(Unsealed.data)
           /\ Unsealed.cmd = cmd /\ Unsealed.data = cursor.out
<1>1. cmd \in 0 .. 7  BY DEF realtimeUpload, reissueUpload
<1>2. cursor.out \in Seq(Byte) /\ Len(cursor.out) \in Nat  BY LenProperties DEF IsCursor
<1>3. 0 \in Byte  BY DEF Byte
<1>4. QED  BY <1>1, <1>2, <1>3 DEF Unsealed, PacketType

LEMMA AsReissueIsPacket ==
    ASSUME Started, NEW p \in PacketType
    PROVE  /\ AsReissue(p) \in PacketType /\ AsReissue(p).data = p.data
           /\ p.cmd \in {cmd, reissueUpload} /\ Right(p) => Right(AsReissue(p))
           /\ p.cmd \in {realtimeUpload, reissueUpload} => AsReissue(p).cmd = reissueUpload
<1>1. CASE p.cmd = realtimeUpload
  <2> DEFINE q == [p EXCEPT !.cmd = reissueUpload]
  <2>1. /\ q \in PacketType /\ q.cmd = reissueUpload /\ q.length = p.length /\ q.data = p.data
    BY DEF PacketType, reissueUpload
  <2>2. AsReissue(p) = Sealed(q, 0)  BY <1>1 DEF AsReissue
  <2> HIDE DEF q
  <2>3. Right(p) => q.length = Len(q.data)  BY <2>1 DEF Right
  <2>4. p.cmd \in {cmd, reissueUpload} => q.cmd # cmd
    BY <1>1, <2>1 DEF realtimeUpload, reissueUpload
  <2>5. QED  BY <2>1, <2>2, <2>3, <2>4, SealedIsPacket, SealedIsRight
<1>2. CASE p.cmd # realtimeUpload
  BY <1>2 DEF AsReissue
<1>3. QED  BY <1>1, <1>2

-----------------------------------------------------------------------------
LEMMA NextCases ==
    ASSUME [Next]_vars
    PROVE  \/ Overrun \/ ParseTime \/ ParseInformation \/ ParseSystem \/ EndParsing
           \/ Drain \/ TakeRealtime \/ TakeReissue \/ Send \/ SendFails
           \/ UNCHANGED vars
BY DEF Next, ParseDataUnit

\* Steps that leave the parser's state alone need only the types of packet and where.
LEMMA PacketTyped ==
    ASSUME TypeOK, Fits, UNCHANGED <<arrived, cursor, typ, sysn>>,
           packet' \in PacketType, Len(packet'.data) < Room,
           where' \in {"refused", "realtime queue", "reissue queue", "uploader", "platform"},
           wasLate' \in BOOLEAN
    PROVE  TypeOK'
<1>1. IsCursor(cursor)'  BY DEF TypeOK, IsCursor, arrived
<1>2. Fits'  BY DEF Fits, arrived
<1>3. QED  BY <1>1, <1>2 DEF TypeOK, PacketType, arrived

LEMMA TypeInit == Init => TypeOK
<1> SUFFICES ASSUME Init
             PROVE  TypeOK
  OBVIOUS
<1>1. start \in Byte \X Byte /\ unit \in Seq(Byte) /\ 0 < Len(unit) /\ Len(unit) <= LongestUnit
  BY StartsAssumption, UnitsAssumption DEF Init
<1>2. IsCursor(cursor)  BY <1>1, ThrownIsCursor DEF Init
<1>3. packet \in PacketType /\ packet.data = <<>>
  <2>1. 0 \in Byte  BY DEF Byte
  <2>2. QED  BY <2>1 DEF Init, NoPacket, PacketType
<1>4. Len(packet.data) < Room
  BY <1>3 DEF Room, MAXPACK_LENGTH, HeaderSize
<1>5. typ \in Byte /\ sysn \in Byte  BY DEF Init, Byte
<1>6. cmd \in {realtimeUpload, reissueUpload} /\ where = "socket" /\ wasLate = FALSE  BY DEF Init
<1>7. QED  BY <1>1, <1>2, <1>3, <1>4, <1>5, <1>6 DEF TypeOK, PacketType

\* A round of the parser that ends at a cursor.
LEMMA GoesOnTyped ==
    ASSUME TypeOK, Fits, NEW c, IsCursor(c), GoOn(c), sysn' \in Byte, typ' \in Byte,
           UNCHANGED <<arrived, packet, wasLate>>
    PROVE  TypeOK'
<1>1. IsCursor(cursor)'  BY DEF GoOn, IsCursor, arrived
<1>2. where' \in {"refused", "parsing"}  BY DEF GoOn
<1>3. Fits'  BY DEF Fits, arrived
<1>4. QED  BY <1>1, <1>2, <1>3 DEF TypeOK, arrived

LEMMA TypeStep == TypeOK /\ [Next]_vars => TypeOK'
<1> SUFFICES ASSUME TypeOK, [Next]_vars
             PROVE  TypeOK'
  OBVIOUS
<1>0. unit \in Seq(Byte) /\ IsCursor(cursor) /\ IsCursor(Begin) /\ IsCursor(Thrown)
  BY ThrownIsCursor DEF TypeOK
<1>5. packet \in PacketType /\ Len(packet.data) < Room /\ Started
  BY DEF TypeOK, PacketType, Started
<1>10. where \notin {"socket", "overrun"} => Fits  BY DEF TypeOK
<1>11. CASE Overrun
  <2>1. IsCursor(cursor)'  BY <1>0, <1>11 DEF Overrun, IsCursor, arrived, parseVars
  <2>2. QED  BY <1>11, <2>1 DEF Overrun, TypeOK, arrived, parseVars
<1>1. CASE ParseTime
  <2>1. IsCursor(Put(Begin, TimeSize))  BY <1>0, PutIsCursor DEF TimeSize
  <2>2. QED  BY <1>1, <2>1, GoesOnTyped DEF ParseTime, TypeOK
<1>2. CASE ParseInformation
  <2>1. typ' \in Byte  BY <1>0, <1>2, GetIsByte DEF ParseInformation
  <2>2. UNCHANGED <<arrived, packet, wasLate>> /\ Fits
    BY <1>2, <1>10 DEF ParseInformation, arrived
  <2>3. CASE typ' \in DOMAIN Size /\ GoOn(Put(cursor, 1 + Size[typ'])) /\ UNCHANGED sysn
    <3>1. \A t \in DOMAIN Size : Size[t] \in Nat  BY DEF Size
    <3>0. 1 + Size[typ'] \in Nat  BY <2>3, <3>1
    <3>2. IsCursor(Put(cursor, 1 + Size[typ']))  BY <1>0, <3>0, PutIsCursor
    <3>3. QED  BY <2>1, <2>2, <2>3, <3>2, GoesOnTyped DEF TypeOK
  <2>4. CASE GoOn(Alarm(cursor)) /\ UNCHANGED sysn
    <3>1. IsCursor(Alarm(cursor))  BY <1>0, AlarmIsCursor
    <3>2. QED  BY <2>1, <2>2, <2>4, <3>1, GoesOnTyped DEF TypeOK
  <2>5. CASE Systems(cursor)
    <3>1. sysn' \in Byte  BY <2>5 DEF Systems, Byte
    <3>2. IsCursor(MovePosition(cursor, 2))  BY <1>0, MoveIsCursor
    <3>3. GoOn(MovePosition(cursor, 2)) \/ GoOn(Thrown)  BY <2>5 DEF Systems
    <3>4. QED  BY <1>0, <2>1, <2>2, <3>1, <3>2, <3>3, GoesOnTyped
  <2>6. CASE GoOn(Thrown) /\ UNCHANGED sysn
    BY <1>0, <2>1, <2>2, <2>6, GoesOnTyped DEF TypeOK
  <2>7. QED  BY <1>2, <2>3, <2>4, <2>5, <2>6 DEF ParseInformation
<1>3. CASE ParseSystem
  <2>1. sysn' \in Byte  BY <1>3 DEF ParseSystem, TypeOK, Byte
  <2>2. IsCursor(Cells(cursor)) /\ IsCursor(Probes(cursor))  BY <1>0, SystemIsCursor
  <2>3. GoOn(Cells(cursor)) \/ GoOn(Probes(cursor))  BY <1>3 DEF ParseSystem
  <2>4. typ' \in Byte /\ UNCHANGED <<arrived, packet, wasLate>> /\ Fits
    BY <1>3, <1>10 DEF ParseSystem, TypeOK, arrived
  <2>5. QED  BY <2>1, <2>2, <2>3, <2>4, GoesOnTyped
<1>4. CASE EndParsing
  <2>1. CASE Accepted(cursor)
    <3>0. Room \in Nat  BY DEF Room, MAXPACK_LENGTH, HeaderSize
    <3>1. 0 < Len(unit) /\ Len(unit) <= Room  BY <1>4, <1>10 DEF EndParsing, TypeOK, Fits
    <3>2. Len(unit) \in Nat /\ Len(unit) >= 1 /\ Len(unit) <= Room  BY <3>0, <3>1
    <3>3. cursor.at \in Nat /\ cursor.out \in Seq(Byte) /\ Len(cursor.out) \in Nat
      BY <1>0, <3>2, LenProperties DEF IsCursor
    <3>4. cursor.at = Len(unit)  BY <2>1, <3>2, <3>3 DEF Accepted, Remaining
    <3>5. cursor # Thrown  BY <3>2, <3>4 DEF Thrown
    <3>6. Len(cursor.out) < Room  BY <1>0, <3>0, <3>2, <3>3, <3>4, <3>5 DEF IsCursor
    <3>7. Unsealed \in PacketType /\ Unsealed.data = cursor.out
      BY UnsealedIsPacket DEF TypeOK
    <3>8. packet' = Sealed(Unsealed, 2)  BY <1>4, <2>1 DEF EndParsing, Unsealed
    <3>9. packet' \in PacketType /\ packet'.data = cursor.out
      BY <1>5, <3>7, <3>8, SealedIsPacket
    <3>10. where' \in {"reissue queue", "realtime queue"} /\ wasLate' \in BOOLEAN
      BY <1>4, <2>1 DEF EndParsing
    <3>11. QED  BY <1>4, <1>10, <3>6, <3>9, <3>10, PacketTyped DEF EndParsing, parseVars
  <2>2. CASE ~Accepted(cursor)
    BY <1>4, <1>5, <1>10, <2>2, PacketTyped DEF EndParsing, parseVars, TypeOK, PacketType
  <2>3. QED  BY <2>1, <2>2
<1>6. CASE Drain \/ TakeRealtime \/ Send \/ SendFails
  BY <1>5, <1>6, <1>10, PacketTyped
  DEF Drain, TakeRealtime, Send, SendFails, parseVars, TypeOK
<1>7. CASE TakeReissue
  <2>1. packet' \in PacketType /\ packet'.data = packet.data
    BY <1>5, <1>7, AsReissueIsPacket DEF TakeReissue
  <2>2. where' = "uploader" /\ UNCHANGED <<arrived, cursor, typ, sysn, wasLate>> /\ Fits
    BY <1>7, <1>10 DEF TakeReissue, parseVars
  <2>3. QED  BY <1>5, <2>1, <2>2, PacketTyped DEF TypeOK
<1>8. CASE UNCHANGED vars
  BY <1>8 DEF vars, arrived, parseVars, TypeOK, IsCursor, Fits
<1>9. QED  BY <1>1, <1>11, <1>2, <1>3, <1>4, <1>6, <1>7, <1>8, NextCases

\* Type correctness, and that nothing parseDataUnit does with a unit that fits m_packetRef leaves
\* the unit or overruns rtData.  That a unit fits, nothing ensures: readDataUnit
\* (TcpSession.cpp:118) reads it wherever it ends.
THEOREM TypeCorrect == Spec => []TypeOK
BY TypeInit, TypeStep, PTL DEF Spec
-----------------------------------------------------------------------------
(* The packet's way.                                                       *)

\* A packet is right from the parser on, whichever queue it is in.  What its command says differs
\* from queue to queue: in the reissue queue it may still call itself a realtime upload, and
\* only the uploader that takes it from there changes that.
SoundInv ==
    /\ where \in {"realtime queue", "reissue queue", "uploader", "platform"} =>
           Right(packet) /\ packet.cmd \in {cmd, reissueUpload}
    /\ where = "realtime queue" => packet.cmd = cmd /\ ~wasLate
    /\ where = "reissue queue" => wasLate
    /\ where \in {"uploader", "platform"} =>
           (packet.cmd = realtimeUpload <=> cmd = realtimeUpload /\ ~wasLate)

LEMMA SoundInit == Init => SoundInv
BY DEF Init, SoundInv

LEMMA SoundStep == TypeOK /\ SoundInv /\ [Next]_vars => SoundInv'
<1> SUFFICES ASSUME TypeOK, SoundInv, [Next]_vars
             PROVE  SoundInv'
  OBVIOUS
<1>1. /\ packet \in PacketType /\ cmd \in {realtimeUpload, reissueUpload} /\ wasLate \in BOOLEAN
      /\ Started
  BY DEF TypeOK, PacketType, Started
<1>2. realtimeUpload # reissueUpload  BY DEF realtimeUpload, reissueUpload
<1>3. CASE Overrun \/ ParseTime \/ ParseInformation \/ ParseSystem
  <2>1. where' \in {"overrun", "refused", "parsing"}
    BY <1>3 DEF Overrun, ParseTime, ParseInformation, ParseSystem, Systems, GoOn
  <2>2. QED  BY <2>1 DEF SoundInv
<1>4. CASE EndParsing
  <2>1. CASE Accepted(cursor)
    <3>1. Unsealed \in PacketType /\ Unsealed.length = Len(Unsealed.data) /\ Unsealed.cmd = cmd
      BY UnsealedIsPacket DEF TypeOK
    <3>2. packet' = Sealed(Unsealed, 2) /\ UNCHANGED <<start, cmd>>
      BY <1>4, <2>1 DEF EndParsing, Unsealed, arrived
    <3>3. packet'.cmd = cmd' /\ Right(packet)'
      <4>1. packet'.cmd = cmd /\ Right(packet')
        BY <1>1, <3>1, <3>2, SealedIsPacket, SealedIsRight
      <4>2. QED  BY <3>2, <4>1 DEF Right, Coded, Buffer
    <3>4. \/ where' = "realtime queue" /\ ~wasLate'
          \/ where' = "reissue queue" /\ wasLate'
      <4>1. PICK lately \in BOOLEAN :
                /\ where' = IF lately THEN "reissue queue" ELSE "realtime queue"
                /\ wasLate' = lately
        BY <1>4, <2>1 DEF EndParsing
      <4>2. CASE lately  BY <4>1, <4>2
      <4>3. CASE ~lately  BY <4>1, <4>3
      <4>4. QED  BY <4>2, <4>3
    <3>5. QED  BY <3>3, <3>4 DEF SoundInv
  <2>2. CASE ~Accepted(cursor)
    BY <1>4, <2>2 DEF EndParsing, SoundInv
  <2>3. QED  BY <2>1, <2>2
<1>5. CASE Drain
  <2>1. Right(packet) => Right(packet)'  BY <1>5 DEF Drain, arrived, Right, Coded, Buffer
  <2>2. QED  BY <1>1, <1>2, <1>5, <2>1 DEF Drain, arrived, SoundInv
<1>6. CASE TakeRealtime
  <2>1. Right(packet) => Right(packet)'  BY <1>6 DEF TakeRealtime, arrived, Right, Coded, Buffer
  <2>2. QED  BY <1>1, <1>2, <1>6, <2>1 DEF TakeRealtime, arrived, SoundInv
<1>7. CASE TakeReissue
  <2>1. /\ wasLate /\ Right(packet) /\ packet.cmd \in {realtimeUpload, reissueUpload}
        /\ packet.cmd \in {cmd, reissueUpload}
    BY <1>1, <1>2, <1>7 DEF TakeReissue, SoundInv
  <2>2. packet' = AsReissue(packet) /\ where' = "uploader" /\ UNCHANGED <<start, cmd, wasLate>>
    BY <1>7 DEF TakeReissue, arrived
  <2>3. Right(packet)' /\ packet'.cmd = reissueUpload
    <3>1. Right(packet') /\ packet'.cmd = reissueUpload
      BY <1>1, <1>2, <2>1, <2>2, AsReissueIsPacket
    <3>2. QED  BY <2>2, <3>1 DEF Right, Coded, Buffer
  <2>4. QED  BY <1>1, <1>2, <2>1, <2>2, <2>3 DEF SoundInv
<1>8. CASE Send
  <2>1. Right(packet) => Right(packet)'  BY <1>8 DEF Send, arrived, Right, Coded, Buffer
  <2>2. QED  BY <1>8, <2>1 DEF Send, arrived, SoundInv
<1>9. CASE SendFails
  <2>1. Right(packet) => Right(packet)'  BY <1>9 DEF SendFails, arrived, Right, Coded, Buffer
  <2>2. QED  BY <1>9, <2>1 DEF SendFails, arrived, SoundInv
<1>10. CASE UNCHANGED vars
  <2>1. Right(packet) => Right(packet)'  BY <1>10 DEF vars, arrived, Right, Coded, Buffer
  <2>2. QED  BY <1>10, <2>1 DEF vars, arrived, SoundInv
<1>11. QED  BY <1>3, <1>4, <1>5, <1>6, <1>7, <1>8, <1>9, <1>10, NextCases

\* Uploader.cpp:127-130 turns a late packet into a reissue upload and computes its check code
\* again, over a range that starts with the start code: whatever reaches the public platform has
\* its own length, and calls itself realtime only if it never was late.  It has its own check
\* code if the start code was two equal bytes or the vehicle's command was kept; nothing looks
\* at the start code a vehicle sends, so with another one a late packet's code is wrong.
THEOREM WrittenIsAlwaysSound == Spec => []WrittenIsSound
<1>1. Init => TypeOK /\ SoundInv  BY TypeInit, SoundInit
<1>2. TypeOK /\ SoundInv /\ [Next]_vars => (TypeOK /\ SoundInv)'  BY TypeStep, SoundStep
<1>3. SoundInv => WrittenIsSound  BY DEF SoundInv, WrittenIsSound, Right, Coded
<1>4. QED  BY <1>1, <1>2, <1>3, PTL DEF Spec
-----------------------------------------------------------------------------
(* The format again, with readings that exist instead of recursion.        *)

IsChain(kind, n, i, j) ==
    \E at \in [0 .. n -> 0 .. j] :
        at[0] = i /\ at[n] = j /\ \A k \in 1 .. n : IsSystem(kind, at[k - 1], at[k])

IsPiece(i, j) ==
    \/ IsPlain(i, j)
    \/ IsAlarm(i, j)
    \/ /\ i + 1 < j
       /\ AnnouncesSystems(i)
       /\ IsChain(unit[i], Listed(unit[i + 1]), i + 2, j)

\* The pieces of information from the time to before position end lie between these cuts.
IsReading(cuts, end) ==
    /\ cuts \in Seq(1 .. end) /\ cuts # <<>>
    /\ cuts[1] = TimeSize + 1 /\ cuts[Len(cuts)] = end
    /\ \A k \in 1 .. Len(cuts) - 1 : IsPiece(cuts[k], cuts[k + 1])

\* out has the unit's bytes at the positions K, in their order.
IsSelection(out, K) ==
    \E at \in [1 .. Len(out) -> K] :
        /\ \A m, n \in 1 .. Len(out) : m < n => at[m] < at[n]
        /\ \A p \in K : \E n \in 1 .. Len(out) : at[n] = p
        /\ \A n \in 1 .. Len(out) : out[n] = unit[at[n]]

LEMMA NoSystems ==
    ASSUME NEW kind, NEW i \in Nat, NEW j \in Nat
    PROVE  IsChain(kind, 0, i, j) <=> i = j
<1>1. ASSUME i = j
      PROVE  IsChain(kind, 0, i, j)
  <2> DEFINE at == [k \in 0 .. 0 |-> i]
  <2>1. at \in [0 .. 0 -> 0 .. j] /\ at[0] = i  BY <1>1
  <2>2. 1 .. 0 = {}  OBVIOUS
  <2> HIDE DEF at
  <2>3. QED  BY <1>1, <2>1, <2>2 DEF IsChain
<1>2. QED  BY <1>1 DEF IsChain

LEMMA OneSystemMore ==
    ASSUME NEW kind, NEW n \in Nat, NEW i \in Nat, NEW j \in Nat, NEW k \in Nat,
           IsChain(kind, n, i, j), IsSystem(kind, j, k), j <= k
    PROVE  IsChain(kind, n + 1, i, k)
<1>1. PICK at \in [0 .. n -> 0 .. j] :
          at[0] = i /\ at[n] = j /\ \A m \in 1 .. n : IsSystem(kind, at[m - 1], at[m])
  BY DEF IsChain
<1> DEFINE more == [m \in 0 .. n + 1 |-> IF m = n + 1 THEN k ELSE at[m]]
<1>3. more \in [0 .. n + 1 -> 0 .. k]  BY <1>1
<1>4. more[0] = i /\ more[n + 1] = k  BY <1>1
<1>5. ASSUME NEW m \in 1 .. n + 1
      PROVE  IsSystem(kind, more[m - 1], more[m])
  <2>1. CASE m = n + 1
    <3>1. more[m - 1] = j /\ more[m] = k  BY <1>1, <2>1
    <3>2. QED  BY <3>1
  <2>2. CASE m # n + 1
    <3>1. m \in 1 .. n /\ more[m - 1] = at[m - 1] /\ more[m] = at[m]  BY <2>2
    <3>2. QED  BY <1>1, <3>1
  <2>3. QED  BY <2>1, <2>2
<1> HIDE DEF more
<1>6. QED  BY <1>3, <1>4, <1>5 DEF IsChain

LEMMA FirstSystem ==
    ASSUME NEW kind, NEW n \in Nat \ {0}, NEW i \in Nat, NEW j \in Nat,
           IsChain(kind, n, i, j)
    PROVE  \E k \in 0 .. j : IsSystem(kind, i, k) /\ IsChain(kind, n - 1, k, j)
<1>1. PICK at \in [0 .. n -> 0 .. j] :
          at[0] = i /\ at[n] = j /\ \A m \in 1 .. n : IsSystem(kind, at[m - 1], at[m])
  BY DEF IsChain
<1>2. at[1] \in 0 .. j /\ IsSystem(kind, i, at[1])
  <2>1. 1 \in 0 .. n /\ 1 \in 1 .. n /\ 1 - 1 = 0  OBVIOUS
  <2>2. QED  BY <1>1, <2>1
<1>3. IsChain(kind, n - 1, at[1], j)
  <2> DEFINE rest == [m \in 0 .. n - 1 |-> at[m + 1]]
  <2>1. rest \in [0 .. n - 1 -> 0 .. j] /\ rest[0] = at[1] /\ rest[n - 1] = j  BY <1>1
  <2>2. ASSUME NEW m \in 1 .. n - 1
        PROVE  IsSystem(kind, rest[m - 1], rest[m])
    <3>1. m + 1 \in 1 .. n /\ rest[m - 1] = at[m + 1 - 1] /\ rest[m] = at[m + 1]  OBVIOUS
    <3>2. QED  BY <1>1, <3>1
  <2> HIDE DEF rest
  <2>3. QED  BY <2>1, <2>2 DEF IsChain
<1>4. QED  BY <1>2, <1>3

LEMMA SelectionGrows ==
    ASSUME unit \in Seq(Byte), NEW out \in Seq(Byte), NEW i \in Nat \ {0}, NEW n \in Nat,
           i + n - 1 <= Len(unit), NEW K \in SUBSET (1 .. i - 1), IsSelection(out, K)
    PROVE  IsSelection(out \o SubSeq(unit, i, i + n - 1), K \cup i .. i + n - 1)
<1> DEFINE more == SubSeq(unit, i, i + n - 1)
           both == out \o more
           L    == K \cup i .. i + n - 1
<1>1. PICK at \in [1 .. Len(out) -> K] :
          /\ \A l, m \in 1 .. Len(out) : l < m => at[l] < at[m]
          /\ \A p \in K : \E m \in 1 .. Len(out) : at[m] = p
          /\ \A m \in 1 .. Len(out) : out[m] = unit[at[m]]
  BY DEF IsSelection
<1>2. Len(unit) \in Nat /\ Len(out) \in Nat /\ \A p \in 1 .. Len(unit) : unit[p] \in Byte
  BY LenProperties, ElementOfSeq
<1>3. /\ more \in Seq(Byte) /\ Len(more) = n
      /\ \A m \in 1 .. n : more[m] = unit[i + m - 1]
  <2>1. \A p \in i .. i + n - 1 : unit[p] \in Byte  BY <1>2
  <2>2. /\ more \in Seq(Byte)
        /\ Len(more) = IF i <= i + n - 1 THEN i + n - 1 - i + 1 ELSE 0
        /\ \A m \in 1 .. i + n - 1 - i + 1 : more[m] = unit[i + m - 1]
    BY <2>1, SubSeqProperties
  <2> HIDE DEF more
  <2>3. i + n - 1 - i + 1 = n  OBVIOUS
  <2>4. QED  BY <2>2, <2>3
<1> HIDE DEF more
<1>4. /\ Len(both) = Len(out) + n
      /\ \A m \in 1 .. Len(out) : both[m] = out[m]
      /\ \A m \in Len(out) + 1 .. Len(out) + n : both[m] = unit[i + (m - Len(out)) - 1]
  <2>1. /\ Len(both) = Len(out) + Len(more)
        /\ \A m \in 1 .. Len(out) + Len(more) :
               both[m] = IF m <= Len(out) THEN out[m] ELSE more[m - Len(out)]
    BY <1>3, ConcatProperties
  <2> HIDE DEF both
  <2>2. ASSUME NEW m \in 1 .. Len(out)
        PROVE  both[m] = out[m]
    <3>1. m \in 1 .. Len(out) + Len(more) /\ m <= Len(out)  BY <1>2, <1>3
    <3>2. QED  BY <2>1, <3>1
  <2>3. ASSUME NEW m \in Len(out) + 1 .. Len(out) + n
        PROVE  both[m] = unit[i + (m - Len(out)) - 1]
    <3>1. m \in 1 .. Len(out) + Len(more) /\ ~ m <= Len(out) /\ m - Len(out) \in 1 .. n
      BY <1>2, <1>3
    <3>2. QED  BY <1>3, <2>1, <3>1
  <2>4. QED  BY <1>3, <2>1, <2>2, <2>3
<1> HIDE DEF both
<1> DEFINE to == [m \in 1 .. Len(both) |->
                      IF m <= Len(out) THEN at[m] ELSE i + (m - Len(out)) - 1]
<1>5. to \in [1 .. Len(both) -> L]
  <2>1. ASSUME NEW m \in 1 .. Len(both)
        PROVE  (IF m <= Len(out) THEN at[m] ELSE i + (m - Len(out)) - 1) \in L
    <3>1. CASE m <= Len(out)  BY <1>1, <1>2, <3>1
    <3>2. CASE ~ m <= Len(out)
      <4>1. i + (m - Len(out)) - 1 \in i .. i + n - 1  BY <1>2, <1>4, <3>2
      <4>2. QED  BY <3>2, <4>1
    <3>3. QED  BY <3>1, <3>2
  <2>2. QED  BY <2>1
<1>6. ASSUME NEW l \in 1 .. Len(both), NEW m \in 1 .. Len(both), l < m
      PROVE  to[l] < to[m]
  <2>1. CASE m <= Len(out)  BY <1>1, <1>2, <1>6, <2>1
  <2>2. CASE l <= Len(out) /\ ~ m <= Len(out)
    <3>1. l \in 1 .. Len(out)  BY <1>2, <2>2
    <3>2. at[l] \in 1 .. i - 1  BY <1>1, <3>1
    <3>3. to[l] = at[l] /\ to[m] = i + (m - Len(out)) - 1  BY <2>2
    <3>4. to[m] >= i  BY <1>2, <2>2, <3>3
    <3>5. QED  BY <3>2, <3>3, <3>4
  <2>3. CASE ~ l <= Len(out)  BY <1>2, <1>6, <2>3
  <2>4. QED  BY <2>1, <2>2, <2>3, <1>2
<1>7. ASSUME NEW p \in L
      PROVE  \E m \in 1 .. Len(both) : to[m] = p
  <2>1. CASE p \in K
    <3>1. PICK m \in 1 .. Len(out) : at[m] = p  BY <1>1, <2>1
    <3>2. m \in 1 .. Len(both) /\ to[m] = p  BY <1>2, <1>4, <3>1
    <3>3. QED  BY <3>2
  <2>2. CASE p \in i .. i + n - 1
    <3> DEFINE m == Len(out) + (p - i) + 1
    <3>1. m \in 1 .. Len(both) /\ to[m] = p  BY <1>2, <1>4, <2>2
    <3>2. QED  BY <3>1
  <2>3. QED  BY <2>1, <2>2
<1>8. ASSUME NEW m \in 1 .. Len(both)
      PROVE  both[m] = unit[to[m]]
  <2>1. CASE m <= Len(out)
    <3>1. m \in 1 .. Len(out) /\ to[m] = at[m]  BY <1>2, <2>1
    <3>2. QED  BY <1>1, <1>4, <3>1
  <2>2. CASE ~ m <= Len(out)
    <3>1. m \in Len(out) + 1 .. Len(out) + n /\ to[m] = i + (m - Len(out)) - 1
      BY <1>2, <1>4, <2>2
    <3>2. QED  BY <1>4, <3>1
  <2>3. QED  BY <2>1, <2>2
<1> HIDE DEF to, L
<1>9. IsSelection(both, L)  BY <1>5, <1>6, <1>7, <1>8 DEF IsSelection
<1>10. QED  BY <1>9 DEF both, more, L

LEMMA InformationIsAhead ==
    ASSUME unit \in Seq(Byte), NEW i \in Nat, NEW j \in Nat, IsPiece(i, j)
    PROVE  i < j
BY DEF IsPiece, IsPlain, IsAlarm

LEMMA ReadingBegins ==
    /\ IsReading(<<TimeSize + 1>>, TimeSize + 1)
    /\ Kept(<<TimeSize + 1>>) = 1 .. TimeSize
<1> DEFINE one == <<TimeSize + 1>>
<1>1. TimeSize + 1 \in 1 .. TimeSize + 1  BY DEF TimeSize
<1>2. one \in Seq(1 .. TimeSize + 1) /\ Len(one) = 1 /\ one[1] = TimeSize + 1  BY <1>1
<1>3. 1 .. Len(one) - 1 = {}  BY <1>2
<1> HIDE DEF one
<1>4. IsReading(one, TimeSize + 1)  BY <1>2, <1>3 DEF IsReading
<1>5. Kept(one) = 1 .. TimeSize  BY <1>3 DEF Kept
<1>6. QED  BY <1>4, <1>5 DEF one

LEMMA ReadingGrows ==
    ASSUME NEW i \in Nat, NEW j \in Nat, i < j, NEW cuts, IsReading(cuts, i), IsPiece(i, j)
    PROVE  /\ IsReading(Append(cuts, j), j)
           /\ Kept(Append(cuts, j)) =
                  Kept(cuts) \cup IF unit[i] \in {RESV_typeCode, REST_typeCode} THEN {}
                                  ELSE i .. j - 1
<1> DEFINE more == Append(cuts, j)
           n == Len(cuts)
<1>1. /\ cuts \in Seq(1 .. i) /\ n \in Nat /\ n > 0 /\ cuts[1] = TimeSize + 1 /\ cuts[n] = i
      /\ \A k \in 1 .. n - 1 : IsPiece(cuts[k], cuts[k + 1])
  BY LenProperties, EmptySeq DEF IsReading
<1>2. cuts \in Seq(1 .. j)
  <2>1. 1 .. i \subseteq 1 .. j  OBVIOUS
  <2>2. QED  BY <1>1, <2>1, SeqMonotonic
<1>3. /\ more \in Seq(1 .. j) /\ Len(more) = n + 1 /\ more[n + 1] = j
      /\ \A k \in 1 .. n : more[k] = cuts[k]
  <2>1. j \in 1 .. j  OBVIOUS
  <2>2. QED  BY <1>2, <2>1, AppendProperties
<1> HIDE DEF more, n
<1>4. ASSUME NEW k \in 1 .. n
      PROVE  IF k = n THEN more[k] = i /\ more[k + 1] = j
                      ELSE k \in 1 .. n - 1 /\ more[k] = cuts[k] /\ more[k + 1] = cuts[k + 1]
  BY <1>1, <1>3
<1>5. IsReading(more, j)
  <2>1. \A k \in 1 .. n : IsPiece(more[k], more[k + 1])  BY <1>1, <1>4
  <2>2. more[1] = TimeSize + 1 /\ more # <<>>  BY <1>1, <1>3, EmptySeq
  <2>3. Len(more) - 1 = n /\ more[Len(more)] = j  BY <1>1, <1>3
  <2>4. QED  BY <1>3, <2>1, <2>2, <2>3 DEF IsReading
<1> DEFINE new == IF unit[i] \in {RESV_typeCode, REST_typeCode} THEN {} ELSE i .. j - 1
<1>6. Kept(more) = Kept(cuts) \cup new
  <2>1. \A k \in 1 .. n : KeptPiece(more, k) = IF k = n THEN new ELSE KeptPiece(cuts, k)
    BY <1>4 DEF KeptPiece
  <2>2. \A k : k \in 1 .. n <=> k \in 1 .. n - 1 \/ k = n  BY <1>1
  <2>3. n \notin 1 .. n - 1 /\ Len(more) - 1 = n  BY <1>1, <1>3
  <2> HIDE DEF new
  <2>4. \A k \in 1 .. n - 1 : KeptPiece(more, k) = KeptPiece(cuts, k)  BY <2>1, <2>2, <2>3
  <2>5. KeptPiece(more, n) = new  BY <2>1, <2>2
  <2> DEFINE old == {KeptPiece(cuts, k) : k \in 1 .. n - 1}
             all == {KeptPiece(more, k) : k \in 1 .. n}
  <2>6. \A X : X \in all <=> X \in old \/ X = new  BY <2>2, <2>4, <2>5
  <2> HIDE DEF old, all
  <2>7. UNION all = (UNION old) \cup new  BY <2>6
  <2>8. Kept(more) = 1 .. TimeSize \cup UNION all  BY <2>3 DEF Kept, all
  <2>9. Kept(cuts) = 1 .. TimeSize \cup UNION old  BY DEF Kept, old, n
  <2>10. QED  BY <2>7, <2>8, <2>9
<1>7. QED  BY <1>5, <1>6 DEF more

LEMMA KeptIsBefore ==
    ASSUME NEW i \in Nat, NEW cuts, IsReading(cuts, i)
    PROVE  i > TimeSize /\ Kept(cuts) \subseteq 1 .. i - 1
<1>1. cuts \in Seq(1 .. i) /\ Len(cuts) \in Nat \ {0} /\ cuts[1] = TimeSize + 1
  BY LenProperties, EmptySeq DEF IsReading
<1>2. \A k \in 1 .. Len(cuts) : cuts[k] \in 1 .. i  BY <1>1, ElementOfSeq
<1>3. TimeSize \in Nat /\ TimeSize + 1 <= i  BY <1>1, <1>2 DEF TimeSize
<1>4. ASSUME NEW k \in 1 .. Len(cuts) - 1
      PROVE  KeptPiece(cuts, k) \subseteq 1 .. i - 1
  <2>1. cuts[k] \in 1 .. i /\ cuts[k + 1] \in 1 .. i  BY <1>1, <1>2
  <2>2. cuts[k] .. cuts[k + 1] - 1 \subseteq 1 .. i - 1  BY <2>1
  <2>3. QED  BY <2>2 DEF KeptPiece
<1>5. 1 .. TimeSize \subseteq 1 .. i - 1  BY <1>3
<1>6. QED  BY <1>3, <1>4, <1>5 DEF Kept

-----------------------------------------------------------------------------
(* The parser's operations get just where the format says.                 *)

LEMMA CursorFields ==
    ASSUME unit \in Seq(Byte), NEW c, IsCursor(c), c # Thrown
    PROVE  /\ c.at \in 1 .. Len(unit) + 1 /\ c.out \in Seq(Byte)
           /\ Len(unit) \in Nat /\ DOMAIN unit = 1 .. Len(unit)
           /\ \A i \in 1 .. Len(unit) : unit[i] \in Nat /\ unit[i] \in Byte
<1>1. Len(unit) \in Nat /\ DOMAIN unit = 1 .. Len(unit)  BY LenProperties
<1>2. \A i \in 1 .. Len(unit) : unit[i] \in Byte  BY <1>1, ElementOfSeq
<1>3. \A b \in Byte : b \in Nat  BY DEF Byte
<1>4. c.out \in Seq(Byte) /\ Len(c.out) \in Nat  BY LenProperties DEF IsCursor
<1>5. QED  BY <1>1, <1>2, <1>3, <1>4 DEF IsCursor

LEMMA MoveReaches ==
    ASSUME unit \in Seq(Byte), NEW c, IsCursor(c), c # Thrown, NEW n \in Nat
    PROVE  /\ IsCursor(MovePosition(c, n))
           /\ MovePosition(c, n) # Thrown <=> c.at + n <= Len(unit) + 1
           /\ MovePosition(c, n) # Thrown =>
                  MovePosition(c, n).at = c.at + n /\ MovePosition(c, n).out = c.out
<1>1. c.at \in 1 .. Len(unit) + 1  BY CursorFields
<1>2. ASSUME c.at + n <= Len(unit) + 1
      PROVE  MovePosition(c, n) # Thrown
  <2>1. MovePosition(c, n).at = c.at + n  BY <1>2 DEF MovePosition, IsCursor
  <2>2. c.at + n # 0  BY <1>1
  <2>3. QED  BY <2>1, <2>2 DEF Thrown
<1>3. QED  BY <1>2, MoveIsCursor

\* What d took over from c.
Keeps(c, K) == K \subseteq 1 .. c.at - 1 /\ IsSelection(c.out, K)

Takes(c, d) == \A K : Keeps(c, K) => Keeps(d, K \cup c.at .. d.at - 1)

LEMMA KeptSoFar ==
    ASSUME NEW i \in Nat \ {0}, NEW n \in Nat, NEW K \in SUBSET (1 .. i - 1)
    PROVE  K \cup i .. i + n - 1 \subseteq 1 .. i + n - 1
<1>1. ASSUME NEW p \in K
      PROVE  p \in 1 .. i + n - 1
  <2>1. p \in 1 .. i - 1  OBVIOUS
  <2>2. QED  BY <2>1
<1>2. \A p \in i .. i + n - 1 : p \in 1 .. i + n - 1  OBVIOUS
<1>3. QED  BY <1>1, <1>2

LEMMA PutReaches ==
    ASSUME unit \in Seq(Byte), NEW c, IsCursor(c), c # Thrown, NEW n \in Nat
    PROVE  /\ IsCursor(Put(c, n))
           /\ Put(c, n) # Thrown <=> c.at + n <= Len(unit) + 1
           /\ Put(c, n) # Thrown => Put(c, n).at = c.at + n /\ Takes(c, Put(c, n))
<1> DEFINE d == MovePosition(c, n)
<1>1. c.at \in 1 .. Len(unit) + 1 /\ c.out \in Seq(Byte) /\ Len(unit) \in Nat  BY CursorFields
<1>2. /\ IsCursor(d) /\ (d # Thrown <=> c.at + n <= Len(unit) + 1)
      /\ d # Thrown => d.at = c.at + n /\ d.out = c.out
  BY MoveReaches
<1>3. IsCursor(Put(c, n))  BY PutIsCursor
<1>4. d = Thrown => Put(c, n) = Thrown  BY DEF Put
<1>5. ASSUME d # Thrown
      PROVE  /\ Put(c, n) # Thrown
             /\ Put(c, n).at = c.at + n /\ Put(c, n).at - 1 = c.at + n - 1
             /\ Put(c, n).out = c.out \o SubSeq(unit, c.at, c.at + n - 1)
  <2>1. Put(c, n) = [d EXCEPT !.out = @ \o SubSeq(unit, c.at, d.at - 1)]  BY <1>5 DEF Put
  <2>2. d \in [at : 0 .. Len(unit) + 1, out : Seq(Byte)]  BY <1>2 DEF IsCursor
  <2> HIDE DEF d
  <2>3. Put(c, n).at = d.at /\ Put(c, n).out = d.out \o SubSeq(unit, c.at, d.at - 1)
    BY <2>1, <2>2
  <2>4. d.at = c.at + n /\ d.out = c.out /\ d.at # 0  BY <1>1, <1>2, <1>5
  <2>5. Put(c, n) # Thrown  BY <2>3, <2>4 DEF Thrown
  <2>6. d.at - 1 = c.at + n - 1  BY <1>1, <2>4
  <2>7. QED  BY <2>3, <2>4, <2>5, <2>6
<1> HIDE DEF d
<1>6. ASSUME d # Thrown, NEW K, Keeps(c, K)
      PROVE  Keeps(Put(c, n), K \cup c.at .. c.at + n - 1)
  <2>1. c.at \in Nat \ {0} /\ c.at + n - 1 <= Len(unit) /\ K \in SUBSET (1 .. c.at - 1)
    BY <1>1, <1>2, <1>6 DEF Keeps
  <2>2. IsSelection(Put(c, n).out, K \cup c.at .. c.at + n - 1)
    BY <1>1, <1>5, <1>6, <2>1, SelectionGrows DEF Keeps
  <2>3. K \cup c.at .. c.at + n - 1 \subseteq 1 .. Put(c, n).at - 1
    <3>1. K \cup c.at .. c.at + n - 1 \subseteq 1 .. c.at + n - 1  BY <2>1, KeptSoFar
    <3>2. Put(c, n).at - 1 = c.at + n - 1  BY <1>5, <1>6
    <3>3. QED  BY <3>1, <3>2
  <2>4. QED  BY <2>2, <2>3 DEF Keeps
<1>7. Put(c, n) # Thrown => Takes(c, Put(c, n))
  <2> SUFFICES ASSUME Put(c, n) # Thrown, NEW K, Keeps(c, K)
               PROVE  Keeps(Put(c, n), K \cup c.at .. Put(c, n).at - 1)
    BY DEF Takes
  <2>1. d # Thrown  BY <1>4
  <2>2. Put(c, n).at - 1 = c.at + n - 1  BY <1>5, <2>1
  <2>3. Keeps(Put(c, n), K \cup c.at .. c.at + n - 1)  BY <1>6, <2>1
  <2>4. QED  BY <2>2, <2>3
<1>8. QED  BY <1>2, <1>3, <1>4, <1>5, <1>7

LEMMA IntervalsJoin ==
    ASSUME NEW K, NEW i \in Nat, NEW j \in Nat, NEW k \in Nat, i <= j, j <= k
    PROVE  (K \cup i .. j - 1) \cup j .. k - 1 = K \cup i .. k - 1
<1>1. \A p : p \in i .. k - 1 <=> p \in i .. j - 1 \/ p \in j .. k - 1  OBVIOUS
<1>2. QED  BY <1>1

LEMMA TakesOn ==
    ASSUME NEW c, NEW d, NEW e, c.at \in Nat, d.at \in Nat, e.at \in Nat,
           c.at <= d.at, d.at <= e.at, Takes(c, d), Takes(d, e)
    PROVE  Takes(c, e)
<1> SUFFICES ASSUME NEW K, Keeps(c, K)
             PROVE  Keeps(e, K \cup c.at .. e.at - 1)
  BY DEF Takes
<1>1. Keeps(d, K \cup c.at .. d.at - 1)  BY DEF Takes
<1>2. Keeps(e, (K \cup c.at .. d.at - 1) \cup d.at .. e.at - 1)  BY <1>1 DEF Takes
<1>3. (K \cup c.at .. d.at - 1) \cup d.at .. e.at - 1 = K \cup c.at .. e.at - 1
  BY IntervalsJoin
<1>4. QED  BY <1>2, <1>3

LEMMA ThrownStays ==
    /\ \A n : MovePosition(Thrown, n) = Thrown /\ Put(Thrown, n) = Thrown
    /\ Faults(Thrown) = Thrown
<1>1. \A n : MovePosition(Thrown, n) = Thrown  BY DEF MovePosition
<1>2. \A n : Put(Thrown, n) = Thrown  BY <1>1 DEF Put
<1>3. Faults(Thrown) = Thrown  BY <1>2 DEF Faults
<1>4. QED  BY <1>1, <1>2, <1>3

LEMMA FaultsReach ==
    ASSUME unit \in Seq(Byte), NEW c, IsCursor(c), c # Thrown
    PROVE  /\ IsCursor(Faults(c))
           /\ Faults(c) # Thrown <=>
                  c.at <= Len(unit) /\ BehindFaults(c.at) <= Len(unit) + 1
           /\ Faults(c) # Thrown =>
                  /\ Faults(c).at = BehindFaults(c.at) /\ Faults(c).at \in Nat
                  /\ c.at < Faults(c).at /\ Takes(c, Faults(c))
<1> DEFINE n == Get(c)
           listed == IF n \in Abnormal THEN 0 ELSE n
           m == 1 + 4 * listed
<1>1. /\ c.at \in 1 .. Len(unit) + 1 /\ Len(unit) \in Nat /\ DOMAIN unit = 1 .. Len(unit)
  BY CursorFields
<1>2. listed \in Nat
  <2>1. n \in Byte  BY GetIsByte
  <2>2. \A b \in Byte : b \in Nat  BY DEF Byte
  <2> HIDE DEF n
  <2>3. QED  BY <2>1, <2>2
<1>3. Faults(c) = Put(c, m)  BY DEF Faults
<1>4. c.at <= Len(unit) => c.at + m = BehindFaults(c.at)
  <2>1. c.at <= Len(unit) => n = unit[c.at]  BY <1>1 DEF Get
  <2>2. c.at + m = c.at + 1 + 4 * listed
    <3> HIDE DEF listed
    <3>1. QED  BY <1>1, <1>2
  <2>3. QED  BY <2>1, <2>2 DEF BehindFaults, Listed
<1> HIDE DEF listed
<1>5. m \in Nat /\ m >= 1  BY <1>2
<1>6. c.at + m <= Len(unit) + 1 => c.at <= Len(unit)
  <2> HIDE DEF m
  <2>1. QED  BY <1>1, <1>5
<1> HIDE DEF m
<1>7. /\ IsCursor(Put(c, m)) /\ (Put(c, m) # Thrown <=> c.at + m <= Len(unit) + 1)
      /\ Put(c, m) # Thrown => Put(c, m).at = c.at + m /\ Takes(c, Put(c, m))
  BY <1>5, PutReaches
<1>8. c.at + m \in Nat /\ c.at < c.at + m  BY <1>1, <1>5
<1>9. QED  BY <1>3, <1>4, <1>6, <1>7, <1>8

LEMMA BehindIsAhead ==
    ASSUME unit \in Seq(Byte), NEW i \in 1 .. Len(unit)
    PROVE  BehindFaults(i) \in Nat /\ i < BehindFaults(i)
<1>1. Len(unit) \in Nat  BY LenProperties
<1>2. unit[i] \in Byte  BY <1>1, ElementOfSeq
<1>3. \A b \in Byte : b \in Nat  BY DEF Byte
<1>4. Listed(unit[i]) \in Nat  BY <1>2, <1>3 DEF Listed
<1> DEFINE n == Listed(unit[i])
<1>5. n \in Nat  BY <1>4
<1>6. BehindFaults(i) = i + 1 + 4 * n  BY DEF BehindFaults
<1> HIDE DEF n
<1>7. QED  BY <1>1, <1>5, <1>6

LEMMA AlarmReaches ==
    ASSUME unit \in Seq(Byte), NEW c, IsCursor(c), c # Thrown,
           c.at <= Len(unit), unit[c.at] = A_typeCode
    PROVE  /\ Alarm(c) # Thrown => IsAlarm(c.at, Alarm(c).at) /\ Takes(c, Alarm(c))
           /\ \A j \in Nat : j <= Len(unit) + 1 /\ IsAlarm(c.at, j) =>
                  Alarm(c) # Thrown /\ Alarm(c).at = j
<1> DEFINE d == Put(c, 6)
           e == Faults(d)
           f == Faults(e)
           g == Faults(f)
           h == Faults(g)
           i == c.at + 6
           x == BehindFaults(i)
           y == BehindFaults(x)
           z == BehindFaults(y)
<1>1. c.at \in 1 .. Len(unit) + 1 /\ Len(unit) \in Nat  BY CursorFields
<1>2. Alarm(c) = h  BY DEF Alarm
<1>3. /\ IsCursor(d) /\ (d # Thrown <=> i <= Len(unit) + 1)
      /\ d # Thrown => d.at = i /\ Takes(c, d)
  BY PutReaches
<1> HIDE DEF d
<1>4. e # Thrown => d # Thrown  BY ThrownStays
<1>5. /\ d # Thrown => IsCursor(e)
      /\ d # Thrown => (e # Thrown <=> d.at <= Len(unit) /\ BehindFaults(d.at) <= Len(unit) + 1)
      /\ e # Thrown => e.at = BehindFaults(d.at) /\ e.at \in Nat /\ d.at < e.at /\ Takes(d, e)
  BY <1>3, <1>4, FaultsReach
<1> HIDE DEF e
<1>6. f # Thrown => e # Thrown  BY ThrownStays
<1>7. /\ e # Thrown => IsCursor(f)
      /\ e # Thrown => (f # Thrown <=> e.at <= Len(unit) /\ BehindFaults(e.at) <= Len(unit) + 1)
      /\ f # Thrown => f.at = BehindFaults(e.at) /\ f.at \in Nat /\ e.at < f.at /\ Takes(e, f)
  BY <1>4, <1>5, <1>6, FaultsReach
<1> HIDE DEF f
<1>8. g # Thrown => f # Thrown  BY ThrownStays
<1>9. /\ f # Thrown => IsCursor(g)
      /\ f # Thrown => (g # Thrown <=> f.at <= Len(unit) /\ BehindFaults(f.at) <= Len(unit) + 1)
      /\ g # Thrown => g.at = BehindFaults(f.at) /\ g.at \in Nat /\ f.at < g.at /\ Takes(f, g)
  BY <1>6, <1>7, <1>8, FaultsReach
<1> HIDE DEF g
<1>10. h # Thrown => g # Thrown  BY ThrownStays
<1>11. /\ g # Thrown => (h # Thrown <=> g.at <= Len(unit) /\ BehindFaults(g.at) <= Len(unit) + 1)
       /\ h # Thrown => h.at = BehindFaults(g.at) /\ h.at \in Nat /\ g.at < h.at /\ Takes(g, h)
  BY <1>8, <1>9, <1>10, FaultsReach
<1> HIDE DEF h
<1>12. ASSUME h # Thrown
       PROVE  IsAlarm(c.at, h.at) /\ Takes(c, h)
  <2>1. d # Thrown /\ e # Thrown /\ f # Thrown /\ g # Thrown
    BY <1>4, <1>6, <1>8, <1>10, <1>12
  <2>2. d.at = i /\ e.at = x /\ f.at = y /\ g.at = z /\ h.at = BehindFaults(z)
    BY <1>3, <1>5, <1>7, <1>9, <1>11, <1>12, <2>1
  <2>3. /\ c.at \in Nat /\ d.at \in Nat /\ e.at \in Nat /\ f.at \in Nat /\ g.at \in Nat
        /\ h.at \in Nat
        /\ c.at <= d.at /\ d.at < e.at /\ e.at < f.at /\ f.at < g.at /\ g.at < h.at
    BY <1>1, <1>3, <1>5, <1>7, <1>9, <1>11, <1>12, <2>1
  <2>4. d.at < h.at /\ e.at < h.at /\ f.at < h.at /\ c.at <= e.at /\ c.at <= f.at /\ c.at <= g.at
    BY <2>3
  <2>5. IsAlarm(c.at, h.at)  BY <2>2, <2>3, <2>4 DEF IsAlarm
  <2>6. Takes(c, e)  BY <1>3, <1>5, <2>1, <2>3, TakesOn
  <2>7. Takes(c, f)  BY <1>7, <2>1, <2>3, <2>4, <2>6, TakesOn
  <2>8. Takes(c, g)  BY <1>9, <2>1, <2>3, <2>4, <2>7, TakesOn
  <2>9. Takes(c, h)  BY <1>11, <1>12, <2>3, <2>4, <2>8, TakesOn
  <2>10. QED  BY <2>5, <2>9
<1>13. ASSUME NEW j \in Nat, j <= Len(unit) + 1, IsAlarm(c.at, j)
       PROVE  h # Thrown /\ h.at = j
  <2>1. i < j /\ x < j /\ y < j /\ z < j /\ j = BehindFaults(z)  BY <1>13 DEF IsAlarm
  <2> HIDE DEF x, y, z
  <2>2. i \in 1 .. Len(unit)  BY <1>1, <1>13, <2>1
  <2>3. x \in Nat /\ i < x  BY <2>2, BehindIsAhead DEF x
  <2>4. x \in 1 .. Len(unit)  BY <1>1, <1>13, <2>1, <2>2, <2>3
  <2>5. y \in Nat /\ x < y  BY <2>4, BehindIsAhead DEF y
  <2>6. y \in 1 .. Len(unit)  BY <1>1, <1>13, <2>1, <2>4, <2>5
  <2>7. z \in Nat /\ y < z  BY <2>6, BehindIsAhead DEF z
  <2>8. z \in 1 .. Len(unit)  BY <1>1, <1>13, <2>1, <2>6, <2>7
  <2> HIDE DEF i
  <2>9. d # Thrown /\ d.at = i  BY <1>1, <1>3, <2>2
  <2>10. e # Thrown /\ e.at = x  BY <1>1, <1>5, <2>2, <2>4, <2>9 DEF x
  <2>11. f # Thrown /\ f.at = y  BY <1>1, <1>7, <2>4, <2>6, <2>10 DEF y
  <2>12. g # Thrown /\ g.at = z  BY <1>1, <1>9, <2>6, <2>8, <2>11 DEF z
  <2>13. QED  BY <1>1, <1>11, <1>13, <2>1, <2>8, <2>12
<1>14. QED  BY <1>2, <1>12, <1>13

\* What a round of the loop over the systems does.
Skip(kind, c) == IF kind = RESV_typeCode THEN Cells(c) ELSE Probes(c)

LEMMA CellsReach ==
    ASSUME unit \in Seq(Byte), NEW c, IsCursor(c), c # Thrown
    PROVE  /\ Cells(c) # Thrown => IsSystem(RESV_typeCode, c.at, Cells(c).at) /\ Cells(c).out = c.out
           /\ \A j \in Nat : j <= Len(unit) + 1 /\ IsSystem(RESV_typeCode, c.at, j) =>
                  Cells(c) # Thrown /\ Cells(c).at = j
<1> DEFINE d == MovePosition(c, 9)
           m == Get(d)
           n == 1 + 2 * m
           e == MovePosition(d, n)
<1>1. /\ c.at \in 1 .. Len(unit) + 1 /\ Len(unit) \in Nat /\ DOMAIN unit = 1 .. Len(unit)
      /\ \A i \in 1 .. Len(unit) : unit[i] \in Nat
  BY CursorFields
<1>2. /\ IsCursor(d) /\ (d # Thrown <=> c.at + 9 <= Len(unit) + 1)
      /\ d # Thrown => d.at = c.at + 9 /\ d.out = c.out
  BY MoveReaches
<1>3. Cells(c) = IF m \in 1 .. 200 THEN e ELSE Thrown  BY DEF Cells
<1> HIDE DEF d
<1>4. m = IF d.at \in 1 .. Len(unit) THEN unit[d.at] ELSE 0  BY <1>1 DEF Get
<1>5. m \in Nat  BY <1>1, <1>4
<1> HIDE DEF m
<1>6. n \in Nat /\ n = 1 + 2 * m  BY <1>5
<1> HIDE DEF n
<1>7. d # Thrown => /\ (e # Thrown <=> d.at + n <= Len(unit) + 1)
                    /\ e # Thrown => e.at = d.at + n /\ e.out = d.out
  BY <1>2, <1>6, MoveReaches
<1>8. d = Thrown => e = Thrown  BY ThrownStays
<1> HIDE DEF e
<1>9. ASSUME m \in 1 .. 200, e # Thrown
      PROVE  IsSystem(RESV_typeCode, c.at, e.at) /\ e.out = c.out
  <2>1. d # Thrown  BY <1>8, <1>9
  <2>2. d.at = c.at + 9 /\ e.at = d.at + n /\ e.out = c.out  BY <1>2, <1>7, <1>9, <2>1
  <2>3. d.at \in 1 .. Len(unit)  BY <1>4, <1>9
  <2>4. m = unit[c.at + 9]  BY <1>4, <2>2, <2>3
  <2>5. c.at + 9 < e.at /\ e.at = c.at + 10 + 2 * m  BY <1>1, <1>5, <1>6, <2>2
  <2>6. QED  BY <1>9, <2>2, <2>4, <2>5 DEF IsSystem
<1>10. ASSUME NEW j \in Nat, j <= Len(unit) + 1, IsSystem(RESV_typeCode, c.at, j)
       PROVE  m \in 1 .. 200 /\ e # Thrown /\ e.at = j
  <2>1. RESV_typeCode # REST_typeCode  BY DEF RESV_typeCode, REST_typeCode
  <2>2. /\ c.at + 9 < j /\ unit[c.at + 9] \in 1 .. 200
        /\ j = c.at + 10 + 2 * unit[c.at + 9]
    BY <1>10, <2>1 DEF IsSystem
  <2>3. d # Thrown /\ d.at = c.at + 9 /\ d.at \in 1 .. Len(unit)  BY <1>1, <1>2, <1>10, <2>2
  <2>4. m = unit[c.at + 9]  BY <1>4, <2>3
  <2>5. d.at + n = j
    <3>1. j = c.at + 10 + 2 * m /\ c.at \in Nat  BY <1>1, <2>2, <2>4
    <3>2. QED  BY <1>5, <1>6, <2>3, <3>1
  <2>6. QED  BY <1>7, <1>10, <2>2, <2>3, <2>4, <2>5
<1>11. QED  BY <1>3, <1>9, <1>10

LEMMA ProbesReach ==
    ASSUME unit \in Seq(Byte), NEW c, IsCursor(c), c # Thrown, Len(unit) < 60000
    PROVE  /\ Probes(c) # Thrown =>
                  IsSystem(REST_typeCode, c.at, Probes(c).at) /\ Probes(c).out = c.out
           /\ \A j \in Nat : j <= Len(unit) + 1 /\ IsSystem(REST_typeCode, c.at, j) =>
                  Probes(c) # Thrown /\ Probes(c).at = j
<1> DEFINE d == MovePosition(c, 1)
           m == GetShort(d)
           e == MovePosition(d, 2 + m)
           f == MovePosition(d, 1)
<1>1. /\ c.at \in 1 .. Len(unit) + 1 /\ Len(unit) \in Nat /\ DOMAIN unit = 1 .. Len(unit)
      /\ \A i \in 1 .. Len(unit) : unit[i] \in Nat
  BY CursorFields
<1>2. /\ IsCursor(d) /\ (d # Thrown <=> c.at + 1 <= Len(unit) + 1)
      /\ d # Thrown => d.at = c.at + 1 /\ d.out = c.out
  BY MoveReaches
<1>3. Probes(c) = IF m \in {0, 65532, 65533} THEN Thrown ELSE e  BY DEF Probes
<1>4. m \in Nat  BY GetShortIsNat
<1> HIDE DEF d
<1>5. m = 256 * Get(d) + Get(f)  BY DEF GetShort
<1>6. d # Thrown => /\ (f # Thrown <=> d.at + 1 <= Len(unit) + 1)
                    /\ f # Thrown => f.at = d.at + 1
  BY <1>2, MoveReaches
<1> HIDE DEF m, f
<1>7. d # Thrown => /\ (e # Thrown <=> d.at + (2 + m) <= Len(unit) + 1)
                    /\ e # Thrown => e.at = d.at + (2 + m) /\ e.out = d.out
  <2>1. 2 + m \in Nat  BY <1>4
  <2>2. QED  BY <1>2, <2>1, MoveReaches
<1>8. d = Thrown => e = Thrown  BY ThrownStays
<1> HIDE DEF e
<1>9. ASSUME d # Thrown, c.at + 2 <= Len(unit)
      PROVE  /\ m = 256 * unit[c.at + 1] + unit[c.at + 2] /\ d.at = c.at + 1
             /\ unit[c.at + 1] \in Nat /\ unit[c.at + 2] \in Nat
  <2>1. d.at = c.at + 1 /\ f # Thrown /\ f.at = c.at + 2  BY <1>1, <1>2, <1>6, <1>9
  <2>2. c.at + 1 \in 1 .. Len(unit) /\ c.at + 2 \in 1 .. Len(unit)  BY <1>1, <1>9
  <2>3. Get(d) = unit[c.at + 1] /\ Get(f) = unit[c.at + 2]  BY <1>1, <2>1, <2>2 DEF Get
  <2>4. QED  BY <1>1, <1>5, <2>1, <2>2, <2>3
<1>10. ASSUME m \notin {0, 65532, 65533}, e # Thrown
       PROVE  IsSystem(REST_typeCode, c.at, e.at) /\ e.out = c.out
  <2>1. d # Thrown  BY <1>8, <1>10
  <2>2. d.at = c.at + 1 /\ e.at = d.at + (2 + m) /\ e.out = c.out /\ d.at + (2 + m) <= Len(unit) + 1
    BY <1>2, <1>7, <1>10, <2>1
  <2>3. c.at + 2 <= Len(unit) /\ m >= 1  BY <1>1, <1>4, <1>10, <2>2
  <2>4. m = 256 * unit[c.at + 1] + unit[c.at + 2] /\ unit[c.at + 1] \in Nat /\ unit[c.at + 2] \in Nat
    BY <1>9, <2>1, <2>3
  <2>5. c.at + 3 < e.at /\ e.at = c.at + 3 + m
    <3> DEFINE i == c.at
               j == e.at
    <3>1. i \in Nat /\ j = i + 1 + (2 + m)  BY <1>1, <2>2
    <3> HIDE DEF i, j
    <3>2. i + 3 < j /\ j = i + 3 + m  BY <1>4, <2>3, <3>1
    <3>3. QED  BY <3>2 DEF i, j
  <2>6. e.at = c.at + 3 + 256 * unit[c.at + 1] + unit[c.at + 2]
    <3> DEFINE p == unit[c.at + 1]
               q == unit[c.at + 2]
    <3>1. c.at \in Nat /\ p \in Nat /\ q \in Nat /\ e.at = c.at + 3 + (256 * p + q)
      BY <1>1, <2>4, <2>5
    <3> HIDE DEF p, q
    <3>2. e.at = c.at + 3 + 256 * p + q  BY <3>1
    <3>3. QED  BY <3>2 DEF p, q
  <2>7. QED  BY <2>2, <2>5, <2>6 DEF IsSystem
<1>11. ASSUME NEW j \in Nat, j <= Len(unit) + 1, IsSystem(REST_typeCode, c.at, j)
       PROVE  m \notin {0, 65532, 65533} /\ e # Thrown /\ e.at = j
  <2>1. RESV_typeCode # REST_typeCode  BY DEF RESV_typeCode, REST_typeCode
  <2>2. c.at + 3 < j /\ j = c.at + 3 + 256 * unit[c.at + 1] + unit[c.at + 2]
    BY <1>11, <2>1 DEF IsSystem
  <2>3. d # Thrown /\ c.at + 2 <= Len(unit)  BY <1>1, <1>2, <1>11, <2>2
  <2>4. /\ m = 256 * unit[c.at + 1] + unit[c.at + 2] /\ d.at = c.at + 1
        /\ unit[c.at + 1] \in Nat /\ unit[c.at + 2] \in Nat
    BY <1>9, <2>3
  <2>5. d.at + (2 + m) = j /\ m >= 1 /\ m < 60000
    <3> DEFINE i == c.at
               p == unit[i + 1]
               q == unit[i + 2]
    <3>1. i \in Nat /\ p \in Nat /\ q \in Nat /\ j = i + 3 + 256 * p + q /\ m = 256 * p + q
      BY <1>1, <2>2, <2>4
    <3> HIDE DEF p, q
    <3>2. j = i + 3 + m  BY <3>1
    <3>3. i \in Nat /\ d.at = i + 1 /\ i + 3 < j /\ j <= Len(unit) + 1
      BY <1>1, <1>11, <2>2, <2>4 DEF i
    <3> HIDE DEF i
    <3>4. d.at + (2 + m) = j /\ m >= 1  BY <1>4, <3>2, <3>3
    <3>5. m < j  BY <1>4, <3>2, <3>3
    <3>6. QED  BY <1>1, <1>4, <3>3, <3>4, <3>5
  <2>6. m # 0 /\ m # 65532 /\ m # 65533  BY <1>4, <2>5
  <2>7. QED  BY <1>7, <1>11, <2>3, <2>5, <2>6
<1>12. QED  BY <1>3, <1>10, <1>11

LEMMA SkipReaches ==
    ASSUME unit \in Seq(Byte), NEW c, IsCursor(c), c # Thrown, Len(unit) < 60000,
           NEW kind \in {RESV_typeCode, REST_typeCode}
    PROVE  /\ Skip(kind, c) # Thrown =>
                  /\ IsSystem(kind, c.at, Skip(kind, c).at)
                  /\ Skip(kind, c).out = c.out /\ c.at < Skip(kind, c).at
           /\ \A j \in Nat : j <= Len(unit) + 1 /\ IsSystem(kind, c.at, j) =>
                  Skip(kind, c) # Thrown /\ Skip(kind, c).at = j
<1>1. c.at \in Nat  BY CursorFields
<1>2. IsCursor(Skip(kind, c))  BY SystemIsCursor DEF Skip
<1>3. Skip(kind, c) # Thrown => Skip(kind, c).at \in Nat  BY <1>2, CursorFields
<1>4. ASSUME NEW j \in Nat, IsSystem(kind, c.at, j)
      PROVE  c.at < j
  BY <1>1, <1>4 DEF IsSystem
<1>5. RESV_typeCode # REST_typeCode  BY DEF RESV_typeCode, REST_typeCode
<1>6. CASE kind = RESV_typeCode
  <2>1. Skip(kind, c) = Cells(c)  BY <1>6 DEF Skip
  <2>2. QED  BY <1>3, <1>4, <1>6, <2>1, CellsReach
<1>7. CASE kind = REST_typeCode
  <2>1. Skip(kind, c) = Probes(c)  BY <1>5, <1>7 DEF Skip
  <2>2. QED  BY <1>3, <1>4, <1>7, <2>1, ProbesReach
<1>8. QED  BY <1>6, <1>7

LEMMA PlainReaches ==
    ASSUME unit \in Seq(Byte), NEW c, IsCursor(c), c # Thrown,
           c.at <= Len(unit), unit[c.at] \in DOMAIN Size
    PROVE  LET d == Put(c, 1 + Size[unit[c.at]])
           IN  /\ d # Thrown => IsPlain(c.at, d.at) /\ Takes(c, d)
               /\ \A j \in Nat : j <= Len(unit) + 1 /\ IsPlain(c.at, j) => d # Thrown /\ d.at = j
<1> DEFINE t == unit[c.at]
           n == 1 + Size[t]
           d == Put(c, n)
<1>1. c.at \in Nat /\ Len(unit) \in Nat  BY CursorFields
<1>2. \A k \in DOMAIN Size : k \in {1, 2, 5, 6}  BY DEF Size
<1>3. Size[1] = 20 /\ Size[2] = 13 /\ Size[5] = 9 /\ Size[6] = 14  BY DEF Size
<1>4. n \in Nat /\ \A j : IsPlain(c.at, j) <=> j = c.at + n
  <2>1. t = 1 \/ t = 2 \/ t = 5 \/ t = 6  BY <1>2
  <2>2. \A j : IsPlain(c.at, j) <=> \/ t = 1 /\ j = c.at + 21
                                    \/ t = 2 /\ j = c.at + 14
                                    \/ t = 5 /\ j = c.at + 10
                                    \/ t = 6 /\ j = c.at + 15
    BY DEF IsPlain
  <2>3. Size[t] = IF t = 1 THEN 20 ELSE IF t = 2 THEN 13 ELSE IF t = 5 THEN 9 ELSE 14
    BY <1>3, <2>1
  <2> HIDE DEF t
  <2>4. QED  BY <1>1, <2>1, <2>2, <2>3
<1> HIDE DEF n
<1>5. /\ d # Thrown <=> c.at + n <= Len(unit) + 1
      /\ d # Thrown => d.at = c.at + n /\ Takes(c, d)
  BY <1>4, PutReaches
<1> HIDE DEF d
<1>6. /\ d # Thrown => IsPlain(c.at, d.at) /\ Takes(c, d)
      /\ \A j \in Nat : j <= Len(unit) + 1 /\ IsPlain(c.at, j) => d # Thrown /\ d.at = j
  BY <1>4, <1>5
<1>7. QED  BY <1>6 DEF d, n

LEMMA TypeCodes ==
    /\ \A t \in DOMAIN Size : t \in {1, 2, 5, 6}
    /\ A_typeCode \notin DOMAIN Size /\ RESV_typeCode \notin DOMAIN Size
    /\ REST_typeCode \notin DOMAIN Size
    /\ A_typeCode # RESV_typeCode /\ A_typeCode # REST_typeCode
    /\ \A i, j : IsPlain(i, j) => unit[i] \in DOMAIN Size
BY DEF Size, A_typeCode, RESV_typeCode, REST_typeCode, IsPlain

\* One round of parseDataUnit's loop at a byte before the check code: it gets to the end of a
\* piece, if one begins there, or to the first of its systems; and only then.
Positioned ==
    /\ unit \in Seq(Byte) /\ Len(unit) < 60000
    /\ IsCursor(cursor) /\ cursor # Thrown

LEMMA HeadReaches ==
    ASSUME Positioned, cursor.at < Len(unit)
    PROVE  /\ Get(cursor) = unit[cursor.at]
           /\ Get(MovePosition(cursor, 1)) = unit[cursor.at + 1]
           /\ MovePosition(cursor, 2) # Thrown
           /\ MovePosition(cursor, 2).at = cursor.at + 2
           /\ MovePosition(cursor, 2).out = cursor.out
           /\ cursor.at \in 1 .. Len(unit) /\ cursor.at + 1 \in 1 .. Len(unit)
           /\ Len(unit) \in Nat
<1>1. /\ cursor.at \in 1 .. Len(unit) + 1 /\ Len(unit) \in Nat /\ DOMAIN unit = 1 .. Len(unit)
  BY CursorFields DEF Positioned
<1>2. cursor.at \in 1 .. Len(unit) /\ cursor.at + 1 \in 1 .. Len(unit)  BY <1>1
<1>3. MovePosition(cursor, 1).at = cursor.at + 1
  BY <1>1, <1>2, MoveReaches DEF Positioned
<1>4. /\ MovePosition(cursor, 2) # Thrown /\ MovePosition(cursor, 2).at = cursor.at + 2
      /\ MovePosition(cursor, 2).out = cursor.out
  BY <1>1, MoveReaches DEF Positioned
<1>5. QED  BY <1>1, <1>2, <1>3, <1>4 DEF Get

LEMMA SystemsBegin ==
    ASSUME Positioned, cursor.at < Len(unit), Systems(cursor)
    PROVE  \/ /\ unit[cursor.at + 1] \in 1 .. 250 \cup Abnormal
              /\ where' = "parsing" /\ sysn' = Listed(unit[cursor.at + 1]) /\ sysn' \in Nat
              /\ cursor' # Thrown /\ cursor'.at = cursor.at + 2 /\ cursor'.out = cursor.out
           \/ /\ unit[cursor.at + 1] \notin 1 .. 250 \cup Abnormal
              /\ where' = "refused"
<1> DEFINE n == Get(MovePosition(cursor, 1))
           first == MovePosition(cursor, 2)
<1>1. /\ n = unit[cursor.at + 1] /\ first # Thrown
      /\ first.at = cursor.at + 2 /\ first.out = cursor.out
  BY HeadReaches
<1>2. \/ n \in Abnormal /\ GoOn(first) /\ sysn' = 0
      \/ n \in 1 .. 250 /\ GoOn(first) /\ sysn' = n
      \/ n \notin Abnormal \cup 1 .. 250 /\ GoOn(Thrown) /\ sysn' = 0
  BY DEF Systems
<1> HIDE DEF n, first
<1>3. CASE n \in Abnormal /\ GoOn(first) /\ sysn' = 0
  BY <1>1, <1>3 DEF GoOn, Listed
<1>4. CASE n \in 1 .. 250 /\ GoOn(first) /\ sysn' = n
  <2>1. n \notin Abnormal /\ n \in Nat  BY <1>4 DEF Abnormal
  <2>2. Listed(n) = n  BY <2>1 DEF Listed
  <2>3. where' = "parsing" /\ cursor' = first  BY <1>1, <1>4 DEF GoOn
  <2>4. unit[cursor.at + 1] \in 1 .. 250 \cup Abnormal  BY <1>1, <1>4
  <2>5. sysn' = Listed(unit[cursor.at + 1]) /\ sysn' \in Nat  BY <1>1, <1>4, <2>1, <2>2
  <2>6. QED  BY <1>1, <2>3, <2>4, <2>5
<1>5. CASE n \notin Abnormal \cup 1 .. 250 /\ GoOn(Thrown) /\ sysn' = 0
  BY <1>1, <1>5 DEF GoOn
<1>6. QED  BY <1>2, <1>3, <1>4, <1>5

LEMMA RoundFollows ==
    ASSUME Positioned, cursor.at < Len(unit), ParseInformation,
           NEW j \in Nat, j <= Len(unit), IsPiece(cursor.at, j)
    PROVE  /\ where' = "parsing"
           /\ \/ sysn' = 0 /\ cursor'.at = j
              \/ /\ sysn' \in Nat \ {0} /\ typ' \in {RESV_typeCode, REST_typeCode}
                 /\ IsChain(typ', sysn', cursor'.at, j)
<1> DEFINE i == cursor.at
<1>1. /\ typ' = unit[i] /\ i \in 1 .. Len(unit) /\ Len(unit) \in Nat /\ sysn = 0
  BY HeadReaches DEF ParseInformation
<1>2. j <= Len(unit) + 1 /\ i \in Nat  BY <1>1
<1>3. CASE IsPlain(i, j)
  <2>1. typ' \in DOMAIN Size  BY <1>1, <1>3, TypeCodes
  <2>2. GoOn(Put(cursor, 1 + Size[unit[i]])) /\ sysn' = 0
    BY <1>1, <2>1, TypeCodes DEF ParseInformation
  <2>3. Put(cursor, 1 + Size[unit[i]]) # Thrown /\ Put(cursor, 1 + Size[unit[i]]).at = j
    BY <1>1, <1>2, <1>3, <2>1, PlainReaches DEF Positioned
  <2>4. QED  BY <2>2, <2>3 DEF GoOn
<1>4. CASE IsAlarm(i, j)
  <2>1. typ' = A_typeCode  BY <1>1, <1>4 DEF IsAlarm
  <2>2. GoOn(Alarm(cursor)) /\ sysn' = 0  BY <1>1, <2>1, TypeCodes DEF ParseInformation
  <2>3. Alarm(cursor) # Thrown /\ Alarm(cursor).at = j
    <3>1. unit[cursor.at] = A_typeCode /\ cursor.at <= Len(unit)  BY <1>1, <2>1
    <3>2. \A k \in Nat : k <= Len(unit) + 1 /\ IsAlarm(cursor.at, k) =>
              Alarm(cursor) # Thrown /\ Alarm(cursor).at = k
      BY <3>1, AlarmReaches DEF Positioned
    <3>3. QED  BY <1>2, <1>4, <3>2
  <2>4. QED  BY <2>2, <2>3 DEF GoOn
<1>5. CASE AnnouncesSystems(i) /\ IsChain(unit[i], Listed(unit[i + 1]), i + 2, j)
  <2>1. typ' \in {RESV_typeCode, REST_typeCode}  BY <1>1, <1>5 DEF AnnouncesSystems
  <2>2. Systems(cursor)  BY <2>1, TypeCodes DEF ParseInformation
  <2>3. /\ where' = "parsing" /\ sysn' = Listed(unit[i + 1]) /\ sysn' \in Nat
        /\ cursor'.at = i + 2
    BY <1>5, <2>2, SystemsBegin DEF AnnouncesSystems
  <2>4. IsChain(typ', sysn', cursor'.at, j)  BY <1>1, <1>5, <2>3
  <2>5. sysn' = 0 => cursor'.at = j
    <3>1. i + 2 \in Nat  BY <1>2
    <3>2. QED  BY <1>5, <2>3, <3>1, NoSystems
  <2>6. QED  BY <2>1, <2>3, <2>4, <2>5
<1>6. QED  BY <1>3, <1>4, <1>5 DEF IsPiece

LEMMA RoundFinds ==
    ASSUME Positioned, cursor.at < Len(unit), ParseInformation, where' = "parsing"
    PROVE  /\ cursor' # Thrown
           /\ \/ /\ sysn' = 0 /\ unit[cursor.at] \notin {RESV_typeCode, REST_typeCode}
                 /\ IsPiece(cursor.at, cursor'.at) /\ Takes(cursor, cursor')
              \/ /\ typ' = unit[cursor.at] /\ AnnouncesSystems(cursor.at)
                 /\ sysn' = Listed(unit[cursor.at + 1]) /\ sysn' \in Nat
                 /\ cursor'.at = cursor.at + 2 /\ cursor'.out = cursor.out
<1> DEFINE i == cursor.at
<1>1. /\ typ' = unit[i] /\ i \in 1 .. Len(unit) /\ Len(unit) \in Nat /\ sysn = 0
  BY HeadReaches DEF ParseInformation
<1>2. ASSUME NEW c, GoOn(c)
      PROVE  cursor' = c /\ c # Thrown
  BY <1>2 DEF GoOn
<1>3. CASE typ' \in DOMAIN Size
  <2>1. GoOn(Put(cursor, 1 + Size[unit[i]])) /\ sysn' = 0
    BY <1>1, <1>3, TypeCodes DEF ParseInformation
  <2>2. cursor' # Thrown /\ IsPlain(i, cursor'.at) /\ Takes(cursor, cursor')
    BY <1>1, <1>2, <1>3, <2>1, PlainReaches DEF Positioned
  <2>3. QED  BY <1>1, <1>3, <2>1, <2>2, TypeCodes DEF IsPiece
<1>4. CASE typ' = A_typeCode
  <2>1. GoOn(Alarm(cursor)) /\ sysn' = 0  BY <1>1, <1>4, TypeCodes DEF ParseInformation
  <2>2. cursor' # Thrown /\ IsAlarm(i, cursor'.at) /\ Takes(cursor, cursor')
    <3>1. unit[cursor.at] = A_typeCode /\ cursor.at <= Len(unit)  BY <1>1, <1>4
    <3>2. Alarm(cursor) # Thrown => IsAlarm(i, Alarm(cursor).at) /\ Takes(cursor, Alarm(cursor))
      BY <3>1, AlarmReaches DEF Positioned
    <3>3. QED  BY <1>2, <2>1, <3>2
  <2>3. QED  BY <1>1, <1>4, <2>1, <2>2, TypeCodes DEF IsPiece
<1>5. CASE typ' \in {RESV_typeCode, REST_typeCode}
  <2>1. Systems(cursor)  BY <1>5, TypeCodes DEF ParseInformation
  <2>2. QED  BY <1>1, <1>5, <2>1, SystemsBegin DEF AnnouncesSystems
<1>6. CASE typ' \notin DOMAIN Size \cup {A_typeCode, RESV_typeCode, REST_typeCode}
  <2>1. GoOn(Thrown)  BY <1>6 DEF ParseInformation
  <2>2. QED  BY <1>2, <2>1
<1>7. QED  BY <1>3, <1>4, <1>5, <1>6

-----------------------------------------------------------------------------
(* Everything the parser has gone through can be read, and every reading    *)
(* leads through where it is.                                              *)

\* While a piece's systems are skipped, i is where it begins, and those already skipped follow
\* its head.
AmongSystems(i) ==
    /\ typ \in {RESV_typeCode, REST_typeCode} /\ typ = unit[i] /\ AnnouncesSystems(i)
    /\ i + 1 < cursor.at
    /\ sysn <= Listed(unit[i + 1])
    /\ IsChain(typ, Listed(unit[i + 1]) - sysn, i + 2, cursor.at)

ReadInv ==
    /\ where = "socket" => sysn = 0
    /\ where = "parsing" =>
           /\ cursor # Thrown
           /\ \E cuts \in Seq(Nat), i \in Nat :
                  /\ IsReading(cuts, i) /\ IsSelection(cursor.out, Kept(cuts))
                  /\ IF sysn = 0 THEN i = cursor.at ELSE AmongSystems(i)
    /\ where \notin {"socket", "overrun", "parsing", "refused"} =>
           \E cuts \in Seq(Nat) :
               IsReading(cuts, Len(unit)) /\ IsSelection(packet.data, Kept(cuts))

\* The systems still to be skipped end where a piece of the reading does.
LedThrough(cuts) ==
    \E k \in 1 .. Len(cuts) :
        IF sysn = 0 THEN cursor.at = cuts[k]
        ELSE /\ k < Len(cuts) /\ typ \in {RESV_typeCode, REST_typeCode}
             /\ IsChain(typ, sysn, cursor.at, cuts[k + 1])

LeadInv ==
    \A cuts \in Seq(Nat) :
        IsReading(cuts, Len(unit)) =>
            where # "refused" /\ (where = "parsing" => LedThrough(cuts))

LEMMA FormatStays ==
    ASSUME unit' = unit
    PROVE  /\ \A kind, n, i, j : IsChain(kind, n, i, j)' <=> IsChain(kind, n, i, j)
           /\ \A i : AnnouncesSystems(i)' <=> AnnouncesSystems(i)
           /\ \A cuts, end : IsReading(cuts, end)' <=> IsReading(cuts, end)
           /\ \A cuts : Kept(cuts)' = Kept(cuts)
           /\ \A out, K : IsSelection(out, K)' <=> IsSelection(out, K)
<1>1. \A kind, i, j : IsSystem(kind, i, j)' <=> IsSystem(kind, i, j)  BY DEF IsSystem
<1>2. \A kind, n, i, j : IsChain(kind, n, i, j)' <=> IsChain(kind, n, i, j)
  BY <1>1 DEF IsChain
<1>3. \A i : AnnouncesSystems(i)' <=> AnnouncesSystems(i)  BY DEF AnnouncesSystems
<1>4. \A i, j : IsPlain(i, j)' <=> IsPlain(i, j)  BY DEF IsPlain
<1>5. \A i : BehindFaults(i)' = BehindFaults(i)  BY DEF BehindFaults
<1>6. \A i, j : IsAlarm(i, j)' <=> IsAlarm(i, j)  BY <1>5 DEF IsAlarm
<1>7. \A i, j : IsPiece(i, j)' <=> IsPiece(i, j)
  BY <1>2, <1>3, <1>4, <1>6 DEF IsPiece
<1>8. \A cuts, end : IsReading(cuts, end)' <=> IsReading(cuts, end)  BY <1>7 DEF IsReading
<1>9. \A cuts, k : KeptPiece(cuts, k)' = KeptPiece(cuts, k)  BY DEF KeptPiece
<1>10. \A cuts : Kept(cuts)' = Kept(cuts)  BY <1>9 DEF Kept
<1>11. \A out, K : IsSelection(out, K)' <=> IsSelection(out, K)  BY DEF IsSelection
<1>12. QED  BY <1>2, <1>3, <1>8, <1>10, <1>11

LEMMA TypePositions ==
    ASSUME TypeOK
    PROVE  /\ unit \in Seq(Byte) /\ Len(unit) \in Nat \ {0}
           /\ IsCursor(cursor) /\ sysn \in Nat
           /\ cursor # Thrown => cursor.at \in 1 .. Len(unit) + 1
           /\ cursor # Thrown /\ where \notin {"socket", "overrun"} => Positioned
<1>1. unit \in Seq(Byte) /\ IsCursor(cursor)  BY DEF TypeOK
<1>2. Len(unit) \in Nat \ {0}
  <2>1. Len(unit) \in Nat /\ 0 < Len(unit)  BY <1>1, LenProperties DEF TypeOK
  <2>2. QED  BY <2>1
<1>3. where \notin {"socket", "overrun"} => Len(unit) < 60000
  <2>1. Room = 488  BY DEF Room, MAXPACK_LENGTH, HeaderSize
  <2>2. where \notin {"socket", "overrun"} => Fits  BY DEF TypeOK
  <2>3. QED  BY <1>2, <2>1, <2>2 DEF Fits
<1>4. sysn \in Nat
  <2>1. sysn \in Byte  BY DEF TypeOK
  <2>2. QED  BY <2>1 DEF Byte
<1>5. QED  BY <1>1, <1>2, <1>3, <1>4, CursorFields DEF Positioned

\* A step to the end of the piece that begins where a reading so far ends.
LEMMA ReadOn ==
    ASSUME NEW i \in Nat, NEW j \in Nat, i < j, NEW cuts \in Seq(Nat), IsReading(cuts, i),
           IsPiece(i, j)
    PROVE  /\ Append(cuts, j) \in Seq(Nat) /\ IsReading(Append(cuts, j), j)
           /\ Kept(Append(cuts, j)) =
                  Kept(cuts) \cup IF unit[i] \in {RESV_typeCode, REST_typeCode} THEN {}
                                  ELSE i .. j - 1
<1>1. Append(cuts, j) \in Seq(Nat)  BY AppendProperties
<1>2. QED  BY <1>1, ReadingGrows

LEMMA CutsAreIn ==
    ASSUME NEW cuts \in Seq(Nat), NEW end \in Nat, IsReading(cuts, end)
    PROVE  /\ Len(cuts) \in Nat \ {0} /\ cuts[Len(cuts)] = end /\ cuts[1] = TimeSize + 1
           /\ \A k \in 1 .. Len(cuts) : cuts[k] \in 1 .. end
           /\ \A k \in 1 .. Len(cuts) : k < Len(cuts) => IsPiece(cuts[k], cuts[k + 1])
<1>1. cuts \in Seq(1 .. end) /\ Len(cuts) \in Nat \ {0}  BY LenProperties, EmptySeq DEF IsReading
<1>2. \A k \in 1 .. Len(cuts) : cuts[k] \in 1 .. end  BY <1>1, ElementOfSeq
<1>3. \A k \in 1 .. Len(cuts) : k < Len(cuts) => k \in 1 .. Len(cuts) - 1  BY <1>1
<1>4. QED  BY <1>1, <1>2, <1>3 DEF IsReading

LEMMA TimeIsRead ==
    ASSUME TypeOK, ReadInv, ParseTime
    PROVE  /\ cursor' # Thrown <=> Len(unit) >= TimeSize
           /\ cursor' # Thrown => /\ cursor'.at = TimeSize + 1
                                  /\ IsSelection(cursor'.out, 1 .. TimeSize)
           /\ where' = IF cursor' = Thrown THEN "refused" ELSE "parsing"
           /\ sysn' = 0
<1>1. cursor' = Put(Begin, TimeSize)  BY DEF ParseTime, GoOn
<1>2. unit \in Seq(Byte) /\ Len(unit) \in Nat /\ IsCursor(Begin) /\ TimeSize \in Nat
  BY TypePositions, ThrownIsCursor DEF TimeSize
<1>3. Begin # Thrown /\ Begin.at = 1 /\ Begin.out = <<>>  BY DEF Begin, Thrown
<1>4. /\ cursor' # Thrown <=> 1 + TimeSize <= Len(unit) + 1
      /\ cursor' # Thrown => cursor'.at = 1 + TimeSize /\ Takes(Begin, cursor')
  BY <1>1, <1>2, <1>3, PutReaches
<1>5. Keeps(Begin, {})
  <2> DEFINE at == [k \in 1 .. 0 |-> 0]
  <2>1. at \in [1 .. 0 -> {}] /\ Len(<<>>) = 0 /\ 1 .. 0 = {}  OBVIOUS
  <2> HIDE DEF at
  <2>2. IsSelection(<<>>, {})  BY <2>1 DEF IsSelection
  <2>3. QED  BY <1>3, <2>2 DEF Keeps
<1>6. cursor' # Thrown => IsSelection(cursor'.out, 1 .. TimeSize)
  <2> SUFFICES ASSUME cursor' # Thrown
               PROVE  IsSelection(cursor'.out, 1 .. TimeSize)
    OBVIOUS
  <2>1. IsSelection(cursor'.out, {} \cup 1 .. cursor'.at - 1)
    BY <1>3, <1>4, <1>5 DEF Takes, Keeps
  <2>2. {} \cup 1 .. cursor'.at - 1 = 1 .. TimeSize  BY <1>2, <1>4
  <2>3. QED  BY <2>1, <2>2
<1>7. where' = IF cursor' = Thrown THEN "refused" ELSE "parsing"  BY <1>1 DEF ParseTime, GoOn
<1>8. sysn' = 0  BY DEF ParseTime, ReadInv
<1>9. 1 + TimeSize <= Len(unit) + 1 <=> Len(unit) >= TimeSize  BY <1>2
<1>10. QED  BY <1>2, <1>4, <1>6, <1>7, <1>8

LEMMA ReadInit == Init => ReadInv
BY DEF Init, ReadInv

LEMMA LeadInit == Init => LeadInv
BY DEF Init, LeadInv

\* A reading that ends where the parser gets to, or where the piece begins whose systems it
\* is about to skip.
LEMMA ReadAgain ==
    ASSUME NEW cuts \in Seq(Nat), NEW i \in Nat, unit' = unit, where' = "parsing",
           cursor' # Thrown, IsReading(cuts, i), IsSelection(cursor'.out, Kept(cuts)),
           IF sysn' = 0 THEN i = cursor'.at ELSE AmongSystems(i)'
    PROVE  ReadInv'
<1>1. \A K : IsSelection(cursor'.out, K) <=> IsSelection(cursor.out, K)'  BY FormatStays
<1>2. IsReading(cuts, i)' /\ IsSelection(cursor.out, Kept(cuts))'
  BY <1>1, FormatStays
<1>3. QED  BY <1>2 DEF ReadInv

LEMMA Reading ==
    ASSUME TypeOK, ReadInv, where = "parsing", unit' = unit, TypeOK'
    PROVE  /\ Positioned /\ unit \in Seq(Byte) /\ Len(unit) \in Nat /\ sysn \in Nat
           /\ cursor.at \in 1 .. Len(unit) + 1
           /\ IsCursor(cursor)'
           /\ cursor' # Thrown => cursor'.at \in 1 .. Len(unit) + 1
           /\ sysn' \in Nat
<1>1. /\ Positioned /\ unit \in Seq(Byte) /\ Len(unit) \in Nat /\ sysn \in Nat
      /\ cursor.at \in 1 .. Len(unit) + 1
  <2>1. cursor # Thrown  BY DEF ReadInv
  <2>2. QED  BY <2>1, TypePositions DEF Positioned
<1>2. IsCursor(cursor)' /\ sysn' \in Byte  BY DEF TypeOK
<1>3. /\ cursor' \in [at : 0 .. Len(unit) + 1, out : Seq(Byte)]
      /\ cursor' = Thrown \/ Len(cursor'.out) < cursor'.at
  BY <1>2 DEF IsCursor
<1>4. cursor' # Thrown => cursor'.at \in 1 .. Len(unit) + 1
  <2>1. Len(cursor'.out) \in Nat  BY <1>3, LenProperties
  <2>2. QED  BY <1>1, <1>3, <2>1
<1>5. QED  BY <1>1, <1>2, <1>4 DEF Byte

LEMMA InformationKept ==
    ASSUME TypeOK, ReadInv, ParseInformation, TypeOK', where' = "parsing"
    PROVE  ReadInv'
<1>0. where = "parsing" /\ unit' = unit /\ sysn = 0 /\ Len(unit) + 1 - cursor.at > 1
  BY DEF ParseInformation, Remaining, arrived
<1>1. /\ Positioned /\ unit \in Seq(Byte) /\ Len(unit) \in Nat /\ sysn' \in Nat
      /\ cursor.at \in 1 .. Len(unit) + 1
      /\ cursor' # Thrown => cursor'.at \in 1 .. Len(unit) + 1
  BY <1>0, Reading
<1>2. cursor.at < Len(unit)  BY <1>0, <1>1
<1>3. PICK cuts \in Seq(Nat) :
          IsReading(cuts, cursor.at) /\ IsSelection(cursor.out, Kept(cuts))
  BY <1>0 DEF ReadInv
<1>4. cursor.at \in Nat /\ Keeps(cursor, Kept(cuts))  BY <1>1, <1>3, KeptIsBefore DEF Keeps
<1>5. cursor' # Thrown  BY <1>1, <1>2, RoundFinds
<1>6. PICK i \in Nat, j \in Nat : i = cursor.at /\ j = cursor'.at  BY <1>1, <1>4, <1>5
<1>7. CASE /\ sysn' = 0 /\ unit[cursor.at] \notin {RESV_typeCode, REST_typeCode}
           /\ IsPiece(cursor.at, cursor'.at) /\ Takes(cursor, cursor')
  <2>1. i < j  BY <1>1, <1>6, <1>7, InformationIsAhead
  <2>2. IsReading(cuts, i) /\ IsPiece(i, j)  BY <1>3, <1>6, <1>7
  <2>3. PICK more \in Seq(Nat) : IsReading(more, j) /\ Kept(more) = Kept(cuts) \cup i .. j - 1
    BY <1>6, <1>7, <2>1, <2>2, ReadOn
  <2>4. Keeps(cursor', Kept(cuts) \cup cursor.at .. cursor'.at - 1)  BY <1>4, <1>7 DEF Takes
  <2>5. IsSelection(cursor'.out, Kept(more))  BY <1>6, <2>3, <2>4 DEF Keeps
  <2>6. QED  BY <1>0, <1>5, <1>6, <1>7, <2>3, <2>5, ReadAgain
<1>8. CASE /\ typ' = unit[cursor.at] /\ AnnouncesSystems(cursor.at)
           /\ sysn' = Listed(unit[cursor.at + 1]) /\ sysn' \in Nat
           /\ cursor'.at = cursor.at + 2 /\ cursor'.out = cursor.out
  <2>1. IsSelection(cursor'.out, Kept(cuts)) /\ IsReading(cuts, i)  BY <1>3, <1>6, <1>8
  <2>2. IsChain(typ', 0, i + 2, cursor'.at)
    <3>1. i + 2 \in Nat /\ i + 2 = cursor'.at  BY <1>6, <1>8
    <3>2. QED  BY <3>1, NoSystems
  <2>3. CASE sysn' # 0
    <3>1. sysn' <= Listed(unit'[i + 1]) /\ Listed(unit'[i + 1]) - sysn' = 0
      BY <1>0, <1>1, <1>6, <1>8
    <3>2. IsChain(typ, Listed(unit[i + 1]) - sysn, i + 2, cursor.at)'
      BY <1>0, <2>2, <3>1, FormatStays
    <3>3. i + 1 < cursor'.at /\ AnnouncesSystems(i)' /\ typ' = unit'[i]
      BY <1>0, <1>6, <1>8, FormatStays
    <3>4. typ' \in {RESV_typeCode, REST_typeCode}  BY <1>8 DEF AnnouncesSystems
    <3>5. AmongSystems(i)'  BY <3>1, <3>2, <3>3, <3>4 DEF AmongSystems
    <3>6. QED  BY <1>0, <1>5, <2>1, <2>3, <3>5, ReadAgain
  <2>4. CASE sysn' = 0
    <3>1. /\ unit[i] \in {RESV_typeCode, REST_typeCode} /\ i < j /\ i + 1 < j
          /\ IsChain(unit[i], Listed(unit[i + 1]), i + 2, j)
      BY <1>6, <1>8, <2>2, <2>4 DEF AnnouncesSystems
    <3>2. IsPiece(i, j)  BY <1>6, <1>8, <3>1 DEF IsPiece
    <3>3. PICK more \in Seq(Nat) : IsReading(more, j) /\ Kept(more) = Kept(cuts)
      <4>1. /\ Append(cuts, j) \in Seq(Nat) /\ IsReading(Append(cuts, j), j)
            /\ Kept(Append(cuts, j)) =
                   Kept(cuts) \cup IF unit[i] \in {RESV_typeCode, REST_typeCode} THEN {}
                                   ELSE i .. j - 1
        BY <2>1, <3>1, <3>2, ReadOn
      <4>2. Kept(Append(cuts, j)) = Kept(cuts)  BY <3>1, <4>1
      <4>3. QED  BY <4>1, <4>2
    <3>4. QED  BY <1>0, <1>5, <1>6, <2>1, <2>4, <3>3, ReadAgain
  <2>5. QED  BY <2>3, <2>4
<1>9. QED  BY <1>1, <1>2, <1>7, <1>8, RoundFinds

LEMMA SystemKept ==
    ASSUME TypeOK, ReadInv, ParseSystem, TypeOK', where' = "parsing"
    PROVE  ReadInv'
<1>0. /\ where = "parsing" /\ unit' = unit /\ typ' = typ /\ sysn > 0 /\ sysn' = sysn - 1
      /\ GoOn(Skip(typ, cursor))
  BY DEF ParseSystem, Skip, arrived
<1>1. /\ Positioned /\ unit \in Seq(Byte) /\ Len(unit) \in Nat /\ sysn \in Nat /\ sysn' \in Nat
      /\ cursor.at \in 1 .. Len(unit) + 1
      /\ cursor' # Thrown => cursor'.at \in 1 .. Len(unit) + 1
  BY <1>0, Reading
<1>2. cursor' = Skip(typ, cursor) /\ cursor' # Thrown  BY <1>0 DEF GoOn
<1>3. PICK cuts \in Seq(Nat), i \in Nat :
          IsReading(cuts, i) /\ IsSelection(cursor.out, Kept(cuts)) /\ AmongSystems(i)
  BY <1>0, <1>1 DEF ReadInv
<1>4. PICK j \in Nat, k \in Nat : j = cursor.at /\ k = cursor'.at  BY <1>1, <1>2
<1>5. PICK listed \in Nat, done \in Nat : listed = Listed(unit[i + 1]) /\ done = listed - sysn
  <2>1. unit[i + 1] \in 1 .. 250 \cup Abnormal  BY <1>3 DEF AmongSystems, AnnouncesSystems
  <2>2. Listed(unit[i + 1]) \in Nat
    <3>1. PICK n : n = unit[i + 1]  OBVIOUS
    <3>2. CASE n \in Abnormal  BY <3>1, <3>2 DEF Listed
    <3>3. CASE n \notin Abnormal
      <4>1. n \in 1 .. 250  BY <2>1, <3>1, <3>3
      <4>2. n \in Nat  BY <4>1
      <4>3. QED  BY <3>1, <3>3, <4>2 DEF Listed
    <3>4. QED  BY <3>2, <3>3
  <2>3. sysn <= Listed(unit[i + 1])  BY <1>3 DEF AmongSystems
  <2>4. QED  BY <1>1, <2>2, <2>3
<1>6. /\ typ \in {RESV_typeCode, REST_typeCode} /\ typ = unit[i] /\ AnnouncesSystems(i)
      /\ i + 1 < j /\ IsChain(typ, done, i + 2, j)
  BY <1>3, <1>4, <1>5 DEF AmongSystems
<1>7. IsSystem(typ, j, k) /\ cursor'.out = cursor.out /\ j < k
  BY <1>1, <1>2, <1>4, <1>6, SkipReaches DEF Positioned
<1>8. PICK kind : kind = typ  OBVIOUS
<1>9. IsChain(kind, done + 1, i + 2, k)
  <2>1. i + 2 \in Nat /\ j <= k  BY <1>7
  <2>2. IsChain(kind, done, i + 2, j) /\ IsSystem(kind, j, k)  BY <1>6, <1>7, <1>8
  <2>3. QED  BY <2>1, <2>2, OneSystemMore
<1>10. IsSelection(cursor'.out, Kept(cuts)) /\ IsReading(cuts, i) /\ i + 1 < k /\ i < k
  BY <1>3, <1>6, <1>7
<1>11. CASE sysn' # 0
  <2>1. sysn' <= Listed(unit'[i + 1]) /\ Listed(unit'[i + 1]) - sysn' = done + 1
    BY <1>0, <1>1, <1>5
  <2>2. IsChain(typ, Listed(unit[i + 1]) - sysn, i + 2, cursor.at)'
    BY <1>0, <1>4, <1>8, <1>9, <2>1, FormatStays
  <2>3. i + 1 < cursor'.at /\ AnnouncesSystems(i)' /\ typ' = unit'[i]
    BY <1>0, <1>4, <1>6, <1>10, FormatStays
  <2>4. AmongSystems(i)'  BY <1>0, <1>6, <2>1, <2>2, <2>3 DEF AmongSystems
  <2>5. QED  BY <1>0, <1>2, <1>10, <1>11, <2>4, ReadAgain
<1>12. CASE sysn' = 0
  <2>1. done + 1 = listed  BY <1>0, <1>1, <1>5, <1>12
  <2>2. IsPiece(i, k)  BY <1>5, <1>6, <1>8, <1>9, <1>10, <2>1 DEF IsPiece
  <2>3. /\ Append(cuts, k) \in Seq(Nat) /\ IsReading(Append(cuts, k), k)
        /\ Kept(Append(cuts, k)) =
               Kept(cuts) \cup IF unit[i] \in {RESV_typeCode, REST_typeCode} THEN {}
                               ELSE i .. k - 1
    BY <1>10, <2>2, ReadOn
  <2>4. PICK more \in Seq(Nat) : IsReading(more, k) /\ Kept(more) = Kept(cuts)
    <3>1. Kept(Append(cuts, k)) = Kept(cuts)  BY <1>6, <2>3
    <3>2. QED  BY <2>3, <3>1
  <2>5. QED  BY <1>0, <1>2, <1>4, <1>10, <1>12, <2>4, ReadAgain
<1>13. QED  BY <1>11, <1>12

\* What holds of a packet that was accepted.
PacketIsRead ==
    \E cuts \in Seq(Nat) : IsReading(cuts, Len(unit)) /\ IsSelection(packet.data, Kept(cuts))

LEMMA PacketStays ==
    ASSUME PacketIsRead, unit' = unit, packet'.data = packet.data
    PROVE  PacketIsRead'
<1>1. \A K : IsSelection(packet'.data, K) <=> IsSelection(packet.data, K)'  BY FormatStays
<1>2. PICK cuts \in Seq(Nat) :
          IsReading(cuts, Len(unit)) /\ IsSelection(packet.data, Kept(cuts))
  BY DEF PacketIsRead
<1>3. IsReading(cuts, Len(unit))' /\ IsSelection(packet.data, Kept(cuts))'
  BY <1>1, <1>2, FormatStays
<1>4. QED  BY <1>3 DEF PacketIsRead

LEMMA EndRead ==
    ASSUME TypeOK, ReadInv, EndParsing, Accepted(cursor), TypeOK'
    PROVE  PacketIsRead'
<1>1. where = "parsing" /\ unit' = unit /\ sysn = 0  BY DEF EndParsing, arrived
<1>2. Positioned /\ Len(unit) \in Nat /\ cursor.at \in 1 .. Len(unit) + 1  BY <1>1, Reading
<1>3. cursor.at = Len(unit)  BY <1>2 DEF Accepted, Remaining
<1>4. PICK cuts \in Seq(Nat) :
          IsReading(cuts, Len(unit)) /\ IsSelection(cursor.out, Kept(cuts))
  BY <1>1, <1>3 DEF ReadInv
<1>5. packet'.data = cursor.out
  <2>1. packet' = Sealed(Unsealed, 2)  BY DEF EndParsing, Unsealed
  <2>2. Unsealed \in PacketType /\ Unsealed.data = cursor.out  BY UnsealedIsPacket DEF TypeOK
  <2>3. QED  BY <2>1, <2>2, SealedIsPacket DEF TypeOK, Started
<1>6. IsReading(cuts, Len(unit))' /\ IsSelection(packet.data, Kept(cuts))'
  <2>1. \A K : IsSelection(packet'.data, K) <=> IsSelection(packet.data, K)'
    BY <1>1, FormatStays
  <2>2. QED  BY <1>1, <1>4, <1>5, <2>1, FormatStays
<1>7. QED  BY <1>6 DEF PacketIsRead

LEMMA ReadStep == TypeOK /\ TypeOK' /\ ReadInv /\ [Next]_vars => ReadInv'
<1> SUFFICES ASSUME TypeOK, TypeOK', ReadInv, [Next]_vars
             PROVE  ReadInv'
  OBVIOUS
<1>0. ASSUME where' = "refused"
      PROVE  ReadInv'
  BY <1>0 DEF ReadInv
<1>8. CASE Overrun
  BY <1>8 DEF Overrun, ReadInv
<1>1. CASE ParseTime
  <2>1. CASE where' = "refused"  BY <1>0, <2>1
  <2>2. CASE where' # "refused"
    <3>1. /\ where' = "parsing" /\ cursor' # Thrown /\ sysn' = 0 /\ unit' = unit
          /\ cursor'.at = TimeSize + 1 /\ IsSelection(cursor'.out, 1 .. TimeSize)
      BY <1>1, <2>2, TimeIsRead DEF ParseTime, arrived
    <3>2. PICK cuts \in Seq(Nat), i \in Nat :
              IsReading(cuts, i) /\ Kept(cuts) = 1 .. TimeSize /\ i = TimeSize + 1
      <4>1. TimeSize + 1 \in Nat  BY DEF TimeSize
      <4>2. <<TimeSize + 1>> \in Seq(Nat)  BY <4>1
      <4>3. QED  BY <4>1, <4>2, ReadingBegins
    <3>3. QED  BY <3>1, <3>2, ReadAgain
  <2>3. QED  BY <2>1, <2>2
<1>2. CASE ParseInformation
  <2>1. where' = "refused" \/ where' = "parsing"
    BY <1>2 DEF ParseInformation, Systems, GoOn
  <2>2. QED  BY <1>0, <1>2, <2>1, InformationKept
<1>3. CASE ParseSystem
  <2>1. where' = "refused" \/ where' = "parsing"  BY <1>3 DEF ParseSystem, GoOn
  <2>2. QED  BY <1>0, <1>3, <2>1, SystemKept
<1>4. CASE EndParsing
  <2>1. CASE Accepted(cursor)
    <3>1. where' \in {"realtime queue", "reissue queue"}
      <4>1. \E late \in BOOLEAN :
                where' = IF late THEN "reissue queue" ELSE "realtime queue"
        BY <1>4, <2>1 DEF EndParsing
      <4>2. QED  BY <4>1
    <3>2. PacketIsRead'  BY <1>4, <2>1, EndRead
    <3>3. QED  BY <3>1, <3>2 DEF ReadInv, PacketIsRead
  <2>2. CASE ~Accepted(cursor)
    <3>1. where' = "refused"  BY <1>4, <2>2 DEF EndParsing
    <3>2. QED  BY <1>0, <3>1
  <2>3. QED  BY <2>1, <2>2
<1>5. CASE Drain \/ TakeRealtime \/ TakeReissue \/ Send \/ SendFails
  <2>1. /\ where \in {"realtime queue", "reissue queue", "uploader"}
        /\ where' \in {"reissue queue", "uploader", "platform"}
    BY <1>5 DEF Drain, TakeRealtime, TakeReissue, Send, SendFails
  <2>2. unit' = unit  BY <1>5 DEF Drain, TakeRealtime, TakeReissue, Send, SendFails, arrived
  <2>3. packet' = packet \/ packet' = AsReissue(packet)
    BY <1>5 DEF Drain, TakeRealtime, TakeReissue, Send, SendFails
  <2>4. packet \in PacketType  BY DEF TypeOK, PacketType
  <2>5. packet'.data = packet.data  BY <2>3, <2>4, AsReissueIsPacket DEF TypeOK, Started
  <2>6. PacketIsRead'  BY <2>1, <2>2, <2>5, PacketStays DEF ReadInv, PacketIsRead
  <2>7. QED  BY <2>1, <2>6 DEF ReadInv, PacketIsRead
<1>6. CASE UNCHANGED vars
  <2>1. /\ unit' = unit /\ where' = where /\ cursor' = cursor /\ typ' = typ /\ sysn' = sysn
        /\ packet' = packet
    BY <1>6 DEF vars, arrived, parseVars
  <2>2. CASE where \in {"socket", "overrun", "refused"}  BY <2>1, <2>2 DEF ReadInv
  <2>3. CASE where = "parsing"
    <3>1. PICK cuts \in Seq(Nat), i \in Nat :
              /\ IsReading(cuts, i) /\ IsSelection(cursor.out, Kept(cuts))
              /\ IF sysn = 0 THEN i = cursor.at ELSE AmongSystems(i)
      BY <2>3 DEF ReadInv
    <3>2. AmongSystems(i) => AmongSystems(i)'  BY <2>1, FormatStays DEF AmongSystems
    <3>3. QED  BY <2>1, <2>3, <3>1, <3>2, ReadAgain DEF ReadInv
  <2>4. CASE where \notin {"socket", "overrun", "parsing", "refused"}
    <3>1. PacketIsRead'  BY <2>1, <2>4, PacketStays DEF ReadInv, PacketIsRead
    <3>2. QED  BY <2>1, <2>4, <3>1 DEF ReadInv, PacketIsRead
  <2>5. QED  BY <2>2, <2>3, <2>4
<1>7. QED  BY <1>1, <1>2, <1>3, <1>4, <1>5, <1>6, <1>8, NextCases

LEMMA TimeLeads ==
    ASSUME TypeOK, ReadInv, ParseTime, NEW cuts \in Seq(Nat), IsReading(cuts, Len(unit))
    PROVE  where' # "refused" /\ LedThrough(cuts)'
<1>1. Len(unit) \in Nat /\ Len(unit) > TimeSize /\ TimeSize \in Nat
  BY TypePositions, KeptIsBefore DEF TimeSize
<1>2. cursor' # Thrown  BY <1>1, TimeIsRead
<1>3. where' = "parsing" /\ sysn' = 0 /\ cursor'.at = TimeSize + 1  BY <1>2, TimeIsRead
<1>4. 1 \in 1 .. Len(cuts) /\ cuts[1] = TimeSize + 1  BY <1>1, CutsAreIn
<1>5. QED  BY <1>3, <1>4 DEF LedThrough

LEMMA InformationLeads ==
    ASSUME TypeOK, TypeOK', ReadInv, LeadInv, ParseInformation,
           NEW cuts \in Seq(Nat), IsReading(cuts, Len(unit))
    PROVE  where' # "refused" /\ LedThrough(cuts)'
<1>0. where = "parsing" /\ unit' = unit /\ sysn = 0 /\ Len(unit) + 1 - cursor.at > 1
  BY DEF ParseInformation, Remaining, arrived
<1>1. Positioned /\ Len(unit) \in Nat /\ cursor.at \in 1 .. Len(unit) + 1  BY <1>0, Reading
<1>2. cursor.at < Len(unit)  BY <1>0, <1>1
<1>3. PICK k \in 1 .. Len(cuts) : cursor.at = cuts[k]
  BY <1>0 DEF LeadInv, LedThrough
<1>4. Len(cuts) \in Nat /\ cuts[Len(cuts)] = Len(unit)  BY <1>1, CutsAreIn
<1>5. k # Len(cuts)  BY <1>1, <1>2, <1>3, <1>4
<1>6. k < Len(cuts) /\ k + 1 \in 1 .. Len(cuts)  BY <1>4, <1>5
<1>7. IsPiece(cuts[k], cuts[k + 1]) /\ cuts[k + 1] \in 1 .. Len(unit)
  BY <1>1, <1>6, CutsAreIn
<1>8. PICK j \in Nat : j = cuts[k + 1] /\ j <= Len(unit)  BY <1>1, <1>7
<1>9. /\ where' = "parsing"
      /\ \/ sysn' = 0 /\ cursor'.at = j
         \/ /\ sysn' \in Nat \ {0} /\ typ' \in {RESV_typeCode, REST_typeCode}
            /\ IsChain(typ', sysn', cursor'.at, j)
  BY <1>1, <1>2, <1>3, <1>7, <1>8, RoundFollows
<1>10. CASE sysn' = 0 /\ cursor'.at = j
  BY <1>6, <1>8, <1>9, <1>10 DEF LedThrough
<1>11. CASE /\ sysn' \in Nat \ {0} /\ typ' \in {RESV_typeCode, REST_typeCode}
            /\ IsChain(typ', sysn', cursor'.at, j)
  <2>1. IsChain(typ, sysn, cursor.at, cuts[k + 1])'  BY <1>0, <1>8, <1>11, FormatStays
  <2>2. LedThrough(cuts)'  BY <1>6, <1>11, <2>1 DEF LedThrough
  <2>3. QED  BY <1>9, <2>2
<1>12. QED  BY <1>9, <1>10, <1>11

LEMMA SystemLeads ==
    ASSUME TypeOK, TypeOK', ReadInv, LeadInv, ParseSystem,
           NEW cuts \in Seq(Nat), IsReading(cuts, Len(unit))
    PROVE  where' # "refused" /\ LedThrough(cuts)'
<1>0. /\ where = "parsing" /\ unit' = unit /\ typ' = typ /\ sysn > 0 /\ sysn' = sysn - 1
      /\ GoOn(Skip(typ, cursor))
  BY DEF ParseSystem, Skip, arrived
<1>1. /\ Positioned /\ unit \in Seq(Byte) /\ Len(unit) \in Nat /\ sysn \in Nat /\ sysn' \in Nat
      /\ cursor.at \in 1 .. Len(unit) + 1
  BY <1>0, Reading
<1>2. PICK k \in 1 .. Len(cuts) :
          /\ k < Len(cuts) /\ typ \in {RESV_typeCode, REST_typeCode}
          /\ IsChain(typ, sysn, cursor.at, cuts[k + 1])
  BY <1>0, <1>1 DEF LeadInv, LedThrough
<1>3. Len(cuts) \in Nat /\ k + 1 \in 1 .. Len(cuts) /\ cuts[k + 1] \in 1 .. Len(unit)
  <2>1. Len(cuts) \in Nat  BY <1>1, CutsAreIn
  <2>2. k + 1 \in 1 .. Len(cuts)  BY <1>2, <2>1
  <2>3. QED  BY <1>1, <2>1, <2>2, CutsAreIn
<1>4. PICK kind : kind = typ  OBVIOUS
<1>5. PICK n \in Nat \ {0}, i \in Nat : n = sysn /\ i = cursor.at
  <2>1. sysn \in Nat \ {0}  BY <1>0, <1>1
  <2>2. cursor.at \in Nat  BY <1>1
  <2>3. QED  BY <2>1, <2>2
<1>6. PICK j \in Nat : j = cuts[k + 1] /\ j <= Len(unit)  BY <1>1, <1>3
<1>7. PICK m \in 0 .. j : IsSystem(kind, i, m) /\ IsChain(kind, n - 1, m, j)
  <2>1. IsChain(kind, n, i, j)  BY <1>2, <1>4, <1>5, <1>6
  <2>2. QED  BY <2>1, FirstSystem
<1>8. Skip(typ, cursor) # Thrown /\ Skip(typ, cursor).at = m
  <2>1. m \in Nat /\ m <= Len(unit) + 1  BY <1>1, <1>4, <1>5, <1>6
  <2>2. IsSystem(typ, cursor.at, m)  BY <1>4, <1>5, <1>6, <1>7
  <2>3. QED  BY <1>1, <1>2, <2>1, <2>2, SkipReaches DEF Positioned
<1>9. where' = "parsing" /\ cursor'.at = m  BY <1>0, <1>8 DEF GoOn
<1>10. CASE sysn' = 0
  <2>1. n - 1 = 0 /\ m \in Nat  BY <1>0, <1>4, <1>5, <1>6, <1>10
  <2>2. m = j  BY <1>7, <2>1, NoSystems
  <2>3. LedThrough(cuts)'  BY <1>3, <1>4, <1>5, <1>6, <1>9, <1>10, <2>2 DEF LedThrough
  <2>4. QED  BY <1>9, <2>3
<1>11. CASE sysn' # 0
  <2>1. n - 1 = sysn' /\ typ' = kind  BY <1>0, <1>4, <1>5, <1>6
  <2>2. IsChain(typ, sysn, cursor.at, cuts[k + 1])'
    BY <1>0, <1>4, <1>5, <1>6, <1>7, <1>9, <2>1, FormatStays
  <2>3. LedThrough(cuts)'  BY <1>0, <1>2, <1>11, <2>2 DEF LedThrough
  <2>4. QED  BY <1>9, <2>3
<1>12. QED  BY <1>10, <1>11

LEMMA EndLeads ==
    ASSUME TypeOK, TypeOK', ReadInv, LeadInv, EndParsing,
           NEW cuts \in Seq(Nat), IsReading(cuts, Len(unit))
    PROVE  where' \notin {"refused", "parsing"}
<1>0. where = "parsing" /\ unit' = unit /\ sysn = 0 /\ Len(unit) + 1 - cursor.at <= 1
  BY DEF EndParsing, Remaining, arrived
<1>1. Positioned /\ Len(unit) \in Nat /\ cursor.at \in 1 .. Len(unit) + 1  BY <1>0, Reading
<1>2. PICK k \in 1 .. Len(cuts) : cursor.at = cuts[k]  BY <1>0 DEF LeadInv, LedThrough
<1>3. cursor.at \in 1 .. Len(unit)  BY <1>1, <1>2, CutsAreIn
<1>4. Len(unit) + 1 - cursor.at = 1  BY <1>0, <1>1, <1>3
<1>5. Accepted(cursor)  BY <1>4 DEF Accepted, Remaining
<1>6. \E late \in BOOLEAN : where' = IF late THEN "reissue queue" ELSE "realtime queue"
  BY <1>5 DEF EndParsing
<1>7. QED  BY <1>6

LEMMA LeadStep == TypeOK /\ TypeOK' /\ ReadInv /\ LeadInv /\ [Next]_vars => LeadInv'
<1> SUFFICES ASSUME TypeOK, TypeOK', ReadInv, LeadInv, [Next]_vars
             PROVE  LeadInv'
  OBVIOUS
<1>0. unit' = unit
  BY NextCases DEF Overrun, ParseTime, ParseInformation, ParseSystem, EndParsing, Drain,
                   TakeRealtime, TakeReissue, Send, SendFails, vars, arrived
<1>1. SUFFICES ASSUME NEW cuts \in Seq(Nat), IsReading(cuts, Len(unit))
               PROVE  where' # "refused" /\ (where' = "parsing" => LedThrough(cuts)')
  <2>1. \A cuts : IsReading(cuts, Len(unit))' <=> IsReading(cuts, Len(unit))
    BY <1>0, FormatStays
  <2>2. QED  BY <2>1 DEF LeadInv
<1>2. CASE ParseTime  BY <1>1, <1>2, TimeLeads
<1>3. CASE ParseInformation  BY <1>1, <1>3, InformationLeads
<1>4. CASE ParseSystem  BY <1>1, <1>4, SystemLeads
<1>5. CASE EndParsing  BY <1>1, <1>5, EndLeads
<1>6. CASE Overrun \/ Drain \/ TakeRealtime \/ TakeReissue \/ Send \/ SendFails
  BY <1>6 DEF Overrun, Drain, TakeRealtime, TakeReissue, Send, SendFails
<1>7. CASE UNCHANGED vars
  <2>1. where' = where /\ cursor' = cursor /\ typ' = typ /\ sysn' = sysn
    BY <1>7 DEF vars, parseVars
  <2>2. LedThrough(cuts) => LedThrough(cuts)'  BY <1>0, <2>1, FormatStays DEF LedThrough
  <2>3. QED  BY <1>1, <2>1, <2>2 DEF LeadInv
<1>8. QED  BY <1>2, <1>3, <1>4, <1>5, <1>6, <1>7, NextCases

-----------------------------------------------------------------------------
(* What recursion finds is what exists.                                    *)

LEMMA Smallest ==
    ASSUME NEW S \in SUBSET Nat, S # {}
    PROVE  \E n \in S : \A m \in S : n <= m
<1> DEFINE R == OpToRel(<, Nat)
<1>1. IsWellFoundedOn(R, Nat)  BY NatLessThanWellFounded
<1>2. \A m, n \in Nat : <<m, n>> \in R <=> m < n  BY DEF OpToRel
<1> HIDE DEF R
<1>3. PICK n \in S : \A m \in S : ~ <<m, n>> \in R  BY <1>1, WFMin
<1>4. \A m \in S : ~ m < n  BY <1>2, <1>3
<1>5. \A m \in S : n <= m  BY <1>4
<1>6. QED  BY <1>5

LEMMA SystemIsAhead ==
    ASSUME NEW kind, NEW i \in Nat, NEW j \in Nat, IsSystem(kind, i, j)
    PROVE  i < j
BY DEF IsSystem

\* Nothing in a chain lies behind its end.
LEMMA ChainAscends ==
    ASSUME NEW kind, NEW n \in Nat, NEW at \in [0 .. n -> Nat],
           \A m \in 1 .. n : IsSystem(kind, at[m - 1], at[m])
    PROVE  \A m \in 0 .. n : at[m] <= at[n]
<1> DEFINE S == {d \in 0 .. n : ~ at[n - d] <= at[n]}
<1>1. SUFFICES ASSUME S # {}
               PROVE  FALSE
  <2> SUFFICES ASSUME S = {}, NEW m \in 0 .. n
               PROVE  at[m] <= at[n]
    OBVIOUS
  <2>1. n - m \in 0 .. n /\ n - (n - m) = m  OBVIOUS
  <2>2. QED  BY <2>1
<1>2. S \in SUBSET Nat  OBVIOUS
<1>3. PICK d \in S : \A m \in S : d <= m  BY <1>1, <1>2, Smallest
<1>4. d \in 0 .. n /\ ~ at[n - d] <= at[n]  BY <1>3
<1>5. d # 0
  <2>1. at[n] <= at[n] /\ n - 0 = n  OBVIOUS
  <2>2. QED  BY <1>4, <2>1
<1>6. d - 1 \in 0 .. n /\ ~ d <= d - 1  BY <1>4, <1>5
<1>7. at[n - (d - 1)] <= at[n]  BY <1>3, <1>6
<1>8. n - (d - 1) \in 1 .. n /\ n - (d - 1) - 1 = n - d  BY <1>4, <1>5
<1>9. IsSystem(kind, at[n - d], at[n - (d - 1)])  BY <1>8
<1>10. at[n - d] \in Nat /\ at[n - (d - 1)] \in Nat /\ at[n] \in Nat  BY <1>4, <1>8
<1>11. at[n - d] < at[n - (d - 1)]  BY <1>9, <1>10, SystemIsAhead
<1>12. QED  BY <1>4, <1>7, <1>10, <1>11

LEMMA LastSystem ==
    ASSUME NEW kind, NEW n \in Nat \ {0}, NEW i \in Nat, NEW j \in Nat, IsChain(kind, n, i, j)
    PROVE  \E k \in 0 .. j : IsChain(kind, n - 1, i, k) /\ IsSystem(kind, k, j)
<1>1. PICK at \in [0 .. n -> 0 .. j] :
          at[0] = i /\ at[n] = j /\ \A m \in 1 .. n : IsSystem(kind, at[m - 1], at[m])
  BY DEF IsChain
<1> DEFINE front == [m \in 0 .. n - 1 |-> at[m]]
           k == at[n - 1]
<1>2. k \in 0 .. j /\ IsSystem(kind, k, j)
  <2>1. n - 1 \in 0 .. n /\ n \in 1 .. n  OBVIOUS
  <2>2. QED  BY <1>1, <2>1
<1>3. front \in [0 .. n - 1 -> Nat] /\ front[0] = i /\ front[n - 1] = k  BY <1>1
<1>4. ASSUME NEW m \in 1 .. n - 1
      PROVE  IsSystem(kind, front[m - 1], front[m])
  <2>1. m \in 1 .. n /\ front[m - 1] = at[m - 1] /\ front[m] = at[m]  OBVIOUS
  <2>2. QED  BY <1>1, <2>1
<1> HIDE DEF front, k
<1>5. \A m \in 0 .. n - 1 : front[m] <= k
  <2>1. n - 1 \in Nat  OBVIOUS
  <2>2. QED  BY <1>3, <1>4, <2>1, ChainAscends
<1>6. front \in [0 .. n - 1 -> 0 .. k]  BY <1>2, <1>3, <1>5
<1>7. IsChain(kind, n - 1, i, k)  BY <1>3, <1>4, <1>6 DEF IsChain
<1>8. QED  BY <1>2, <1>7

\* The function that AreSystems defines by recursion.
AreEnds(f, kind, n, i, j) ==
    f = [m \in 0 .. n |->
             IF m = 0 THEN {i}
             ELSE UNION {{k \in l + 1 .. j : IsSystem(kind, l, k)} : l \in f[m - 1]}]

ChainEnds(kind, n, i, j) ==
    [m \in 0 .. n |-> IF m = 0 THEN {i} ELSE {k \in 0 .. j : IsChain(kind, m, i, k)}]

LEMMA ChainEndsAreEnds ==
    ASSUME NEW kind, NEW n \in Nat, NEW i \in Nat, NEW j \in Nat
    PROVE  AreEnds(ChainEnds(kind, n, i, j), kind, n, i, j)
<1> DEFINE f == ChainEnds(kind, n, i, j)
<1>1. /\ f = [m \in 0 .. n |-> f[m]] /\ f[0] = {i}
      /\ \A m \in 1 .. n : f[m] = {k \in 0 .. j : IsChain(kind, m, i, k)}
  BY DEF ChainEnds
<1> HIDE DEF f
<1>2. ASSUME NEW m \in 1 .. n
      PROVE  f[m] = UNION {{k \in l + 1 .. j : IsSystem(kind, l, k)} : l \in f[m - 1]}
  <2>1. \A l \in f[m - 1] : l \in Nat /\ IsChain(kind, m - 1, i, l)
    <3>1. CASE m = 1
      <4>1. m - 1 = 0 /\ f[m - 1] = {i}  BY <1>1, <3>1
      <4>2. QED  BY <4>1, NoSystems
    <3>2. CASE m # 1
      <4>1. m - 1 \in 1 .. n  BY <3>2
      <4>2. f[m - 1] = {k \in 0 .. j : IsChain(kind, m - 1, i, k)}  BY <1>1, <4>1
      <4>3. QED  BY <4>2
    <3>3. QED  BY <3>1, <3>2
  <2>2. ASSUME NEW l \in 0 .. j, IsChain(kind, m - 1, i, l)
        PROVE  l \in f[m - 1]
    <3>1. CASE m = 1
      <4>1. m - 1 = 0 /\ f[m - 1] = {i}  BY <1>1, <3>1
      <4>2. l \in Nat  OBVIOUS
      <4>3. l = i  BY <2>2, <4>1, <4>2, NoSystems
      <4>4. QED  BY <4>1, <4>3
    <3>2. CASE m # 1
      <4>1. m - 1 \in 1 .. n  BY <3>2
      <4>2. f[m - 1] = {k \in 0 .. j : IsChain(kind, m - 1, i, k)}  BY <1>1, <4>1
      <4>3. QED  BY <2>2, <4>2
    <3>3. QED  BY <3>1, <3>2
  <2>3. ASSUME NEW k \in f[m]
        PROVE  \E l \in f[m - 1] : k \in l + 1 .. j /\ IsSystem(kind, l, k)
    <3>1. k \in 0 .. j /\ IsChain(kind, m, i, k)  BY <1>1
    <3>2. m \in Nat \ {0} /\ k \in Nat  BY <3>1
    <3>3. PICK l \in 0 .. k : IsChain(kind, m - 1, i, l) /\ IsSystem(kind, l, k)
      BY <3>1, <3>2, LastSystem
    <3>4. l \in Nat /\ l \in 0 .. j  BY <3>1
    <3>5. l < k  BY <3>2, <3>3, <3>4, SystemIsAhead
    <3>6. k \in l + 1 .. j  BY <3>1, <3>4, <3>5
    <3>7. QED  BY <2>2, <3>3, <3>4, <3>6
  <2>4. ASSUME NEW l \in f[m - 1], NEW k \in l + 1 .. j, IsSystem(kind, l, k)
        PROVE  k \in f[m]
    <3>1. l \in Nat /\ IsChain(kind, m - 1, i, l)  BY <2>1
    <3>2. k \in Nat /\ k \in 0 .. j /\ l <= k  BY <3>1
    <3>3. m - 1 \in Nat /\ m - 1 + 1 = m  OBVIOUS
    <3>4. IsChain(kind, m - 1 + 1, i, k)  BY <2>4, <3>1, <3>2, <3>3, OneSystemMore
    <3>5. IsChain(kind, m, i, k)  BY <3>3, <3>4
    <3>6. QED  BY <1>1, <3>2, <3>5
  <2>5. QED  BY <2>3, <2>4
<1>3. \A m \in 0 .. n : f[m] = IF m = 0 THEN {i}
          ELSE UNION {{k \in l + 1 .. j : IsSystem(kind, l, k)} : l \in f[m - 1]}
  <2> TAKE m \in 0 .. n
  <2>1. CASE m = 0  BY <1>1, <2>1
  <2>2. CASE m # 0
    <3>1. m \in 1 .. n  BY <2>2
    <3>2. QED  BY <1>2, <2>2, <3>1
  <2>3. QED  BY <2>1, <2>2
<1>4. AreEnds(f, kind, n, i, j)  BY <1>1, <1>3, Zenon DEF AreEnds
<1>5. QED  BY <1>4 DEF f

LEMMA EndsAreUnique ==
    ASSUME NEW kind, NEW n \in Nat, NEW i, NEW j,
           NEW f, AreEnds(f, kind, n, i, j), NEW g, AreEnds(g, kind, n, i, j)
    PROVE  f = g
<1> DEFINE Behind(h, m) == UNION {{k \in l + 1 .. j : IsSystem(kind, l, k)} : l \in h[m - 1]}
<1>1. /\ f = [m \in 0 .. n |-> IF m = 0 THEN {i} ELSE Behind(f, m)]
      /\ g = [m \in 0 .. n |-> IF m = 0 THEN {i} ELSE Behind(g, m)]
  BY DEF AreEnds
<1>2. \A m : f[m - 1] = g[m - 1] => Behind(f, m) = Behind(g, m)  OBVIOUS
<1> HIDE DEF Behind
<1> DEFINE S == {m \in 0 .. n : f[m] # g[m]}
<1>3. ASSUME S # {}
      PROVE  FALSE
  <2>1. S \in SUBSET Nat  OBVIOUS
  <2>2. PICK m \in S : \A l \in S : m <= l  BY <1>3, <2>1, Smallest
  <2>3. m \in 0 .. n /\ f[m] # g[m]  BY <2>2
  <2>4. m # 0  BY <1>1, <2>3
  <2>5. m - 1 \in 0 .. n /\ ~ m <= m - 1  BY <2>3, <2>4
  <2>6. f[m - 1] = g[m - 1]  BY <2>2, <2>5
  <2>7. f[m] = Behind(f, m) /\ g[m] = Behind(g, m)  BY <1>1, <2>3, <2>4
  <2>8. QED  BY <1>2, <2>3, <2>6, <2>7
<1>4. \A m \in 0 .. n : f[m] = g[m]  BY <1>3
<1>5. f = [m \in 0 .. n |-> f[m]] /\ g = [m \in 0 .. n |-> g[m]]  BY <1>1
<1>6. QED  BY <1>4, <1>5

LEMMA SystemsAreChains ==
    ASSUME NEW kind, NEW n \in Nat, NEW i \in Nat, NEW j \in Nat
    PROVE  AreSystems(kind, n, i, j) <=> IsChain(kind, n, i, j)
<1> DEFINE Is(f) == f = [m \in 0 .. n |->
                             IF m = 0 THEN {i}
                             ELSE UNION {{k \in l + 1 .. j : IsSystem(kind, l, k)} :
                                             l \in f[m - 1]}]
           ends == CHOOSE f : Is(f)
           known == ChainEnds(kind, n, i, j)
<1>1. \A f : Is(f) <=> AreEnds(f, kind, n, i, j)  BY DEF AreEnds
<1>2. AreSystems(kind, n, i, j) <=> j \in ends[n]  BY DEF AreSystems
<1> HIDE DEF Is
<1>3. AreEnds(known, kind, n, i, j)  BY ChainEndsAreEnds
<1>4. Is(known)  BY <1>1, <1>3
<1>5. Is(ends)  BY <1>4
<1>6. AreEnds(ends, kind, n, i, j)  BY <1>1, <1>5
<1> HIDE DEF ends, known
<1>7. ends = known  BY <1>3, <1>6, EndsAreUnique
<1>8. j \in known[n] <=> IsChain(kind, n, i, j)
  <2>1. known[n] = IF n = 0 THEN {i} ELSE {k \in 0 .. j : IsChain(kind, n, i, k)}
    BY DEF known, ChainEnds
  <2>2. CASE n = 0  BY <2>1, <2>2, NoSystems
  <2>3. CASE n # 0  BY <2>1, <2>3
  <2>4. QED  BY <2>2, <2>3
<1>9. QED  BY <1>2, <1>7, <1>8

LEMMA InformationIsPiece ==
    ASSUME NEW i \in Nat, NEW j \in Nat
    PROVE  IsInformation(i, j) <=> IsPiece(i, j)
<1> DEFINE n == Listed(unit[i + 1])
<1>1. ASSUME AnnouncesSystems(i)
      PROVE  AreSystems(unit[i], n, i + 2, j) <=> IsChain(unit[i], n, i + 2, j)
  <2>1. PICK b : b = unit[i + 1]  OBVIOUS
  <2>2. b \in 1 .. 250 \cup Abnormal  BY <1>1, <2>1 DEF AnnouncesSystems
  <2>3. Listed(b) \in Nat
    <3>1. CASE b \in Abnormal  BY <3>1 DEF Listed
    <3>2. CASE b \notin Abnormal
      <4>1. b \in Nat  BY <2>2, <3>2
      <4>2. QED  BY <3>2, <4>1 DEF Listed
    <3>3. QED  BY <3>1, <3>2
  <2>4. n \in Nat /\ i + 2 \in Nat  BY <2>1, <2>3
  <2> HIDE DEF n
  <2>5. QED  BY <2>4, SystemsAreChains
<1>2. QED  BY <1>1 DEF IsInformation, IsPiece

\* The function that Readings is.
AreReadings(f) ==
    f = [i \in 1 .. Len(unit) |->
             IF i = Len(unit) THEN {<<i>>}
             ELSE UNION {{<<i>> \o r : r \in f[j]} :
                             j \in {k \in i + 1 .. Len(unit) : IsInformation(i, k)}}]

IsReadingFrom(i, cuts) ==
    /\ cuts \in Seq(1 .. Len(unit)) /\ cuts # <<>>
    /\ cuts[1] = i /\ cuts[Len(cuts)] = Len(unit)
    /\ \A k \in 1 .. Len(cuts) - 1 : IsPiece(cuts[k], cuts[k + 1])

ReadingsFrom(i) == {cuts \in Seq(1 .. Len(unit)) : IsReadingFrom(i, cuts)}

LEMMA ReadingLonger ==
    ASSUME unit \in Seq(Byte), NEW i \in 1 .. Len(unit), NEW j \in 1 .. Len(unit), IsPiece(i, j),
           NEW r, IsReadingFrom(j, r)
    PROVE  IsReadingFrom(i, <<i>> \o r)
<1> DEFINE s == <<i>> \o r
           n == Len(r)
<1>1. /\ r \in Seq(1 .. Len(unit)) /\ n \in Nat \ {0} /\ r[1] = j /\ r[n] = Len(unit)
      /\ \A k \in 1 .. n - 1 : IsPiece(r[k], r[k + 1])
  BY LenProperties, EmptySeq DEF IsReadingFrom
<1>2. <<i>> \in Seq(1 .. Len(unit)) /\ Len(<<i>>) = 1 /\ <<i>>[1] = i  OBVIOUS
<1>3. /\ s \in Seq(1 .. Len(unit)) /\ Len(s) = 1 + n
      /\ \A k \in 1 .. 1 + n : s[k] = IF k <= 1 THEN <<i>>[k] ELSE r[k - 1]
  BY <1>1, <1>2, ConcatProperties
<1> HIDE DEF s, n
<1>4. s[1] = i /\ \A k \in 2 .. 1 + n : s[k] = r[k - 1]
  <2>1. 1 \in 1 .. 1 + n  BY <1>1
  <2>2. \A k \in 2 .. 1 + n : k \in 1 .. 1 + n /\ ~ k <= 1  BY <1>1
  <2>3. QED  BY <1>2, <1>3, <2>1, <2>2
<1>5. s[1 + n] = Len(unit)
  <2>1. 1 + n \in 2 .. 1 + n /\ 1 + n - 1 = n  BY <1>1
  <2>2. QED  BY <1>1, <1>4, <2>1
<1>6. ASSUME NEW k \in 1 .. n
      PROVE  IsPiece(s[k], s[k + 1])
  <2>1. k + 1 \in 2 .. 1 + n /\ k + 1 - 1 = k  BY <1>1
  <2>2. s[k + 1] = r[k]  BY <1>4, <2>1
  <2>3. CASE k = 1  BY <1>1, <1>4, <2>2, <2>3
  <2>4. CASE k # 1
    <3>1. k \in 2 .. 1 + n /\ k - 1 \in 1 .. n - 1 /\ k - 1 + 1 = k  BY <1>1, <2>4
    <3>2. IsPiece(r[k - 1], r[k - 1 + 1])  BY <1>1, <3>1
    <3>3. s[k] = r[k - 1]  BY <1>4, <3>1
    <3>4. QED  BY <2>2, <3>1, <3>2, <3>3
  <2>5. QED  BY <2>3, <2>4
<1>7. Len(s) - 1 = n /\ s # <<>>  BY <1>1, <1>3, EmptySeq
<1>8. IsReadingFrom(i, s)  BY <1>3, <1>4, <1>5, <1>6, <1>7 DEF IsReadingFrom
<1>9. QED  BY <1>8 DEF s

LEMMA ReadingShorter ==
    ASSUME unit \in Seq(Byte), NEW i \in 1 .. Len(unit), i # Len(unit), NEW s, IsReadingFrom(i, s)
    PROVE  \E j \in i + 1 .. Len(unit), r \in Seq(1 .. Len(unit)) :
               IsPiece(i, j) /\ IsReadingFrom(j, r) /\ s = <<i>> \o r
<1> DEFINE r == Tail(s)
           n == Len(s)
<1>1. /\ s \in Seq(1 .. Len(unit)) /\ n \in Nat \ {0} /\ s[1] = i /\ s[n] = Len(unit) /\ s # <<>>
      /\ \A k \in 1 .. n - 1 : IsPiece(s[k], s[k + 1])
      /\ \A k \in 1 .. n : s[k] \in 1 .. Len(unit)
      /\ s = [k \in 1 .. n |-> s[k]]
  BY LenProperties, EmptySeq, ElementOfSeq DEF IsReadingFrom
<1>2. n # 1  BY <1>1
<1>3. /\ r \in Seq(1 .. Len(unit)) /\ Len(r) = n - 1
      /\ \A k \in 1 .. n - 1 : r[k] = s[k + 1]
  BY <1>1, HeadTailProperties
<1> HIDE DEF r, n
<1>4. 1 \in 1 .. n - 1 /\ 2 \in 1 .. n /\ n - 1 \in Nat \ {0}  BY <1>1, <1>2
<1>5. IsPiece(i, s[2]) /\ s[2] \in 1 .. Len(unit)
  <2>1. \A k \in 1 .. n - 1 : IsPiece(s[k], s[k + 1])  BY <1>1
  <2>2. IsPiece(s[1], s[1 + 1])  BY <1>4, <2>1
  <2>3. s[1] = i /\ s[1 + 1] = s[2]  BY <1>1
  <2>4. \A k \in 1 .. n : s[k] \in 1 .. Len(unit)  BY <1>1
  <2>5. s[2] \in 1 .. Len(unit)  BY <1>4, <2>4
  <2>6. QED  BY <2>2, <2>3, <2>5
<1>6. PICK j \in 1 .. Len(unit) : j = s[2]  BY <1>5
<1>7. Len(unit) \in Nat  BY LenProperties
<1>8. i < j
  <2>1. i \in Nat /\ j \in Nat  OBVIOUS
  <2>2. QED  BY <1>5, <1>6, <2>1, InformationIsAhead
<1>9. j \in i + 1 .. Len(unit)  BY <1>7, <1>8
<1>10. IsReadingFrom(j, r)
  <2>1. r[1] = j
    <3>1. r[1] = s[1 + 1]  BY <1>3, <1>4
    <3>2. QED  BY <1>6, <3>1
  <2>2. r[n - 1] = Len(unit)
    <3>1. n - 1 \in 1 .. n - 1 /\ n - 1 + 1 = n  BY <1>1, <1>4
    <3>2. r[n - 1] = s[n - 1 + 1]  BY <1>3, <3>1
    <3>3. QED  BY <1>1, <3>1, <3>2
  <2>3. ASSUME NEW k \in 1 .. n - 1 - 1
        PROVE  IsPiece(r[k], r[k + 1])
    <3>1. k \in 1 .. n - 1 /\ k + 1 \in 1 .. n - 1  BY <1>4
    <3>2. r[k] = s[k + 1] /\ r[k + 1] = s[k + 1 + 1]  BY <1>3, <3>1
    <3>3. QED  BY <1>1, <3>1, <3>2
  <2>4. r # <<>>  BY <1>3, <1>4, EmptySeq
  <2>5. QED  BY <1>3, <2>1, <2>2, <2>3, <2>4 DEF IsReadingFrom
<1>11. s = <<i>> \o r
  <2>1. <<i>> \in Seq(1 .. Len(unit)) /\ Len(<<i>>) = 1 /\ <<i>>[1] = i  OBVIOUS
  <2> DEFINE t == <<i>> \o r
  <2>2. /\ t \in Seq(1 .. Len(unit)) /\ Len(t) = 1 + (n - 1)
        /\ \A k \in 1 .. 1 + (n - 1) : t[k] = IF k <= 1 THEN <<i>>[k] ELSE r[k - 1]
    BY <1>3, <2>1, ConcatProperties
  <2> HIDE DEF t
  <2>3. Len(t) = n  BY <1>1, <2>2
  <2>4. ASSUME NEW k \in 1 .. n
        PROVE  t[k] = s[k]
    <3>1. k \in 1 .. 1 + (n - 1)  BY <1>1
    <3>2. CASE k = 1
      <4>1. \A l \in 1 .. 1 + (n - 1) : t[l] = IF l <= 1 THEN <<i>>[l] ELSE r[l - 1]  BY <2>2
      <4>2. t[k] = <<i>>[1]  BY <3>1, <3>2, <4>1
      <4>3. s[k] = i  BY <1>1, <3>2
      <4>4. QED  BY <2>1, <4>2, <4>3
    <3>3. CASE k # 1
      <4>1. ~ k <= 1 /\ k - 1 \in 1 .. n - 1 /\ k - 1 + 1 = k  BY <1>1, <3>3
      <4>2. QED  BY <1>3, <2>2, <3>1, <4>1
    <3>4. QED  BY <3>2, <3>3
  <2>5. t = [k \in 1 .. n |-> t[k]]  BY <2>2, <2>3, LenProperties
  <2>6. t = s  BY <1>1, <2>4, <2>5
  <2>7. QED  BY <2>6 DEF t
<1>12. QED  BY <1>3, <1>5, <1>6, <1>9, <1>10, <1>11

LEMMA ReadingsFromAreReadings ==
    ASSUME unit \in Seq(Byte)
    PROVE  AreReadings([i \in 1 .. Len(unit) |-> ReadingsFrom(i)])
<1> DEFINE f == [i \in 1 .. Len(unit) |-> ReadingsFrom(i)]
           Behind(i) == {k \in i + 1 .. Len(unit) : IsInformation(i, k)}
<1>1. Len(unit) \in Nat  BY LenProperties
<1>2. ASSUME NEW i \in 1 .. Len(unit), i = Len(unit)
      PROVE  ReadingsFrom(i) = {<<i>>}
  <2>1. <<i>> \in ReadingsFrom(i)
    <3> DEFINE one == <<i>>
    <3>1. one \in Seq(1 .. Len(unit)) /\ Len(one) = 1 /\ one[1] = i  OBVIOUS
    <3> HIDE DEF one
    <3>2. one # <<>> /\ \A k \in 1 .. Len(one) - 1 : FALSE
      <4>1. Len(one) - 1 = 0  BY <3>1
      <4>2. \A k \in 1 .. 0 : FALSE  OBVIOUS
      <4>3. Len(<<>>) = 0  BY EmptySeq
      <4>4. one # <<>>
        <5> SUFFICES ASSUME one = <<>>
                     PROVE  FALSE
          OBVIOUS
        <5>1. Len(one) = Len(<<>>)  OBVIOUS
        <5>2. QED  BY <3>1, <4>3, <5>1
      <4>5. QED  BY <4>1, <4>2, <4>4
    <3>3. one \in ReadingsFrom(i)  BY <1>2, <3>1, <3>2 DEF IsReadingFrom, ReadingsFrom
    <3>4. QED  BY <3>3 DEF one
  <2>2. ASSUME NEW s \in ReadingsFrom(i)
        PROVE  s = <<i>>
    <3> DEFINE n == Len(s)
    <3>1. /\ s \in Seq(1 .. Len(unit)) /\ n \in Nat \ {0} /\ s[1] = i
          /\ \A k \in 1 .. n - 1 : IsPiece(s[k], s[k + 1])
          /\ \A k \in 1 .. n : s[k] \in 1 .. Len(unit)
          /\ s = [k \in 1 .. n |-> s[k]]
      BY LenProperties, EmptySeq, ElementOfSeq DEF IsReadingFrom, ReadingsFrom
    <3> HIDE DEF n
    <3>2. ASSUME n # 1
          PROVE  FALSE
      <4>1. 1 \in 1 .. n - 1 /\ 1 + 1 \in 1 .. n  BY <3>1, <3>2
      <4>2. PICK j \in 1 .. Len(unit) : j = s[1 + 1]  BY <3>1, <4>1
      <4>3. IsPiece(i, j)  BY <3>1, <4>1, <4>2
      <4>4. i \in Nat /\ j \in Nat  OBVIOUS
      <4>5. i < j  BY <4>3, <4>4, InformationIsAhead
      <4>6. QED  BY <1>1, <1>2, <4>5
    <3>3. n = 1  BY <3>2
    <3>4. s = [k \in 1 .. 1 |-> i]  BY <3>1, <3>3
    <3>5. <<i>> = [k \in 1 .. 1 |-> i]  OBVIOUS
    <3>6. QED  BY <3>4, <3>5
  <2>3. QED  BY <2>1, <2>2
<1>3. ASSUME NEW i \in 1 .. Len(unit), i # Len(unit)
      PROVE  ReadingsFrom(i) = UNION {{<<i>> \o r : r \in f[j]} : j \in Behind(i)}
  <2>1. \A j \in Behind(i) : j \in 1 .. Len(unit) /\ f[j] = ReadingsFrom(j)  BY <1>1
  <2>2. i \in Nat /\ \A j \in i + 1 .. Len(unit) : j \in Nat  BY <1>1
  <2>3. \A j \in i + 1 .. Len(unit) : j \in Behind(i) <=> IsPiece(i, j)
    BY <2>2, InformationIsPiece
  <2>4. \A j \in Behind(i) : j \in i + 1 .. Len(unit)  OBVIOUS
  <2> HIDE DEF f, Behind
  <2>5. ASSUME NEW s \in ReadingsFrom(i)
        PROVE  \E j \in Behind(i) : \E r \in f[j] : s = <<i>> \o r
    <3>1. IsReadingFrom(i, s)  BY DEF ReadingsFrom
    <3>2. PICK j \in i + 1 .. Len(unit), r \in Seq(1 .. Len(unit)) :
              IsPiece(i, j) /\ IsReadingFrom(j, r) /\ s = <<i>> \o r
      BY <1>3, <3>1, ReadingShorter
    <3>3. r \in ReadingsFrom(j)  BY <3>2 DEF ReadingsFrom
    <3>4. j \in Behind(i) /\ r \in f[j]  BY <2>1, <2>3, <3>2, <3>3
    <3>5. QED  BY <3>2, <3>4
  <2>6. ASSUME NEW j \in Behind(i), NEW r \in f[j]
        PROVE  <<i>> \o r \in ReadingsFrom(i)
    <3>1. j \in 1 .. Len(unit) /\ IsPiece(i, j)  BY <2>1, <2>3, <2>4
    <3>2. IsReadingFrom(j, r)  BY <2>1 DEF ReadingsFrom
    <3>3. IsReadingFrom(i, <<i>> \o r)  BY <3>1, <3>2, ReadingLonger
    <3>4. QED  BY <3>3 DEF ReadingsFrom, IsReadingFrom
  <2> DEFINE all == UNION {{<<i>> \o r : r \in f[j]} : j \in Behind(i)}
  <2>7. \A s : s \in all <=> \E j \in Behind(i) : \E r \in f[j] : s = <<i>> \o r  OBVIOUS
  <2> HIDE DEF all
  <2>8. ASSUME NEW s \in all
        PROVE  s \in ReadingsFrom(i)
    <3>1. PICK j \in Behind(i) : \E r \in f[j] : s = <<i>> \o r  BY <2>7
    <3>2. PICK r \in f[j] : s = <<i>> \o r  BY <3>1
    <3>3. QED  BY <2>6, <3>2
  <2>9. \A s \in ReadingsFrom(i) : s \in all  BY <2>5, <2>7
  <2>10. ReadingsFrom(i) = all  BY <2>8, <2>9
  <2>11. QED  BY <2>10 DEF all
<1>4. \A i \in 1 .. Len(unit) :
          f[i] = IF i = Len(unit) THEN {<<i>>}
                 ELSE UNION {{<<i>> \o r : r \in f[j]} : j \in Behind(i)}
  <2> TAKE i \in 1 .. Len(unit)
  <2>1. f[i] = ReadingsFrom(i)  OBVIOUS
  <2> DEFINE all == UNION {{<<i>> \o r : r \in f[j]} : j \in Behind(i)}
  <2>2. i # Len(unit) => ReadingsFrom(i) = all  BY <1>3
  <2>3. i = Len(unit) => ReadingsFrom(i) = {<<i>>}  BY <1>2
  <2> HIDE DEF f, Behind, all
  <2>4. f[i] = IF i = Len(unit) THEN {<<i>>} ELSE all  BY <2>1, <2>2, <2>3
  <2>5. QED  BY <2>4 DEF all
<1>5. f = [i \in 1 .. Len(unit) |-> f[i]]  OBVIOUS
<1> HIDE DEF f
<1>6. AreReadings(f)  BY <1>4, <1>5, Zenon DEF AreReadings
<1>7. QED  BY <1>6 DEF f

LEMMA ReadingsAreUnique ==
    ASSUME unit \in Seq(Byte), NEW f, AreReadings(f), NEW g, AreReadings(g)
    PROVE  f = g
<1> DEFINE n == Len(unit)
           Longer(i, h, j) == {<<i>> \o r : r \in h[j]}
           Behind(i) == {k \in i + 1 .. n : IsInformation(i, k)}
           All(i, h) == UNION {Longer(i, h, j) : j \in Behind(i)}
<1>1. n \in Nat  BY LenProperties
<1>2. /\ f = [i \in 1 .. n |-> IF i = n THEN {<<i>>} ELSE All(i, f)]
      /\ g = [i \in 1 .. n |-> IF i = n THEN {<<i>>} ELSE All(i, g)]
  BY DEF AreReadings
<1>3. ASSUME NEW i, \A j \in i + 1 .. n : f[j] = g[j]
      PROVE  All(i, f) = All(i, g)
  <2>1. \A j \in Behind(i) : Longer(i, f, j) = Longer(i, g, j)  BY <1>3
  <2> HIDE DEF Longer, Behind
  <2>2. QED  BY <2>1
<1> HIDE DEF n, All
<1> DEFINE S == {d \in 0 .. n - 1 : f[n - d] # g[n - d]}
<1>4. ASSUME S # {}
      PROVE  FALSE
  <2>1. S \in SUBSET Nat  BY <1>1
  <2>2. PICK d \in S : \A m \in S : d <= m  BY <1>4, <2>1, Smallest
  <2>3. d \in 0 .. n - 1 /\ f[n - d] # g[n - d]  BY <2>2
  <2>4. n - d \in 1 .. n  BY <1>1, <2>3
  <2>5. \A j \in n - d + 1 .. n : f[j] = g[j]
    <3> TAKE j \in n - d + 1 .. n
    <3>1. n - j \in 0 .. n - 1 /\ ~ d <= n - j /\ n - (n - j) = j  BY <1>1, <2>3
    <3>2. n - j \notin S  BY <2>2, <3>1
    <3>3. f[n - (n - j)] = g[n - (n - j)]  BY <3>1, <3>2
    <3>4. QED  BY <3>1, <3>3
  <2>6. All(n - d, f) = All(n - d, g)  BY <1>3, <2>5
  <2>7. f[n - d] = g[n - d]  BY <1>2, <2>4, <2>6
  <2>8. QED  BY <2>3, <2>7
<1>5. ASSUME NEW i \in 1 .. n
      PROVE  f[i] = g[i]
  <2>1. n - i \in 0 .. n - 1 /\ n - (n - i) = i  BY <1>1
  <2>2. n - i \notin S  BY <1>4
  <2>3. f[n - (n - i)] = g[n - (n - i)]  BY <2>1, <2>2
  <2>4. QED  BY <2>1, <2>3
<1>6. f = [i \in 1 .. n |-> f[i]] /\ g = [i \in 1 .. n |-> g[i]]  BY <1>2
<1>7. QED  BY <1>5, <1>6

LEMMA ReadingsExist ==
    ASSUME unit \in Seq(Byte)
    PROVE  Readings = [i \in 1 .. Len(unit) |-> ReadingsFrom(i)]
<1> DEFINE Is(f) == f = [i \in 1 .. Len(unit) |->
                             IF i = Len(unit) THEN {<<i>>}
                             ELSE UNION {{<<i>> \o r : r \in f[j]} :
                                             j \in {k \in i + 1 .. Len(unit) :
                                                        IsInformation(i, k)}}]
           known == [i \in 1 .. Len(unit) |-> ReadingsFrom(i)]
<1>1. \A f : Is(f) <=> AreReadings(f)  BY DEF AreReadings
<1>2. Readings = CHOOSE f : Is(f)  BY DEF Readings
<1> HIDE DEF Is
<1>3. AreReadings(known)  BY ReadingsFromAreReadings
<1> HIDE DEF known
<1>4. Is(Readings)  BY <1>1, <1>2, <1>3
<1>5. AreReadings(Readings)  BY <1>1, <1>4
<1>6. Readings = known  BY <1>3, <1>5, ReadingsAreUnique
<1>7. QED  BY <1>6 DEF known

LEMMA UnitReadingsExist ==
    ASSUME unit \in Seq(Byte)
    PROVE  \A cuts : cuts \in UnitReadings <=> cuts \in Seq(Nat) /\ IsReading(cuts, Len(unit))
<1> TAKE cuts
<1>1. Len(unit) \in Nat /\ TimeSize \in Nat  BY LenProperties DEF TimeSize
<1>2. IsReading(cuts, Len(unit)) <=> IsReadingFrom(TimeSize + 1, cuts)
  BY DEF IsReading, IsReadingFrom
<1>3. cuts \in Seq(1 .. Len(unit)) => cuts \in Seq(Nat)
  <2>1. 1 .. Len(unit) \subseteq Nat  OBVIOUS
  <2>2. QED  BY <2>1, SeqMonotonic
<1>4. IsReading(cuts, Len(unit)) => cuts \in Seq(Nat) /\ Len(unit) > TimeSize
  BY <1>1, <1>3, KeptIsBefore DEF IsReading
<1>5. CASE Len(unit) > TimeSize
  <2>1. TimeSize + 1 \in 1 .. Len(unit)  BY <1>1, <1>5
  <2>2. UnitReadings = ReadingsFrom(TimeSize + 1)  BY <1>5, <2>1, ReadingsExist DEF UnitReadings
  <2>3. QED  BY <1>2, <1>4, <2>2 DEF ReadingsFrom, IsReadingFrom
<1>6. CASE ~ Len(unit) > TimeSize
  BY <1>4, <1>6 DEF UnitReadings
<1>7. QED  BY <1>5, <1>6

LEMMA SelectionIsJust ==
    ASSUME NEW out \in Seq(Byte), NEW K \in SUBSET Nat, IsSelection(out, K)
    PROVE  HasJust(out, K)
<1> DEFINE n == Len(out)
<1>1. PICK at \in [1 .. n -> K] :
          /\ \A l, m \in 1 .. n : l < m => at[l] < at[m]
          /\ \A p \in K : \E m \in 1 .. n : at[m] = p
          /\ \A m \in 1 .. n : out[m] = unit[at[m]]
  BY DEF IsSelection
<1>2. n \in Nat  BY LenProperties
<1> HIDE DEF n
<1>3. \A m \in 1 .. n : at[m] \in Nat  BY <1>1
<1>4. \A l, m \in 1 .. n : at[l] <= at[m] <=> l <= m
  <2> TAKE l \in 1 .. n, m \in 1 .. n
  <2>1. at[l] \in Nat /\ at[m] \in Nat /\ l \in Nat /\ m \in Nat  BY <1>3
  <2>2. (l < m => at[l] < at[m]) /\ (m < l => at[m] < at[l])  BY <1>1
  <2>3. l = m => at[l] = at[m]  OBVIOUS
  <2>4. QED  BY <2>1, <2>2, <2>3
<1>5. ASSUME NEW m \in 0 .. n, NEW L, L = {at[l] : l \in 1 .. m}
      PROVE  Cardinality(L) = m
  <2> DEFINE part == [l \in 1 .. m |-> at[l]]
  <2>1. \A l \in 1 .. m : l \in 1 .. n  BY <1>2
  <2>2. part \in [1 .. m -> L]  BY <1>5
  <2>3. \A k, l \in 1 .. m : part[k] = part[l] => k = l
    <3> TAKE k \in 1 .. m, l \in 1 .. m
    <3>1. part[k] = at[k] /\ part[l] = at[l] /\ k \in 1 .. n /\ l \in 1 .. n  BY <2>1
    <3>2. at[k] \in Nat /\ at[l] \in Nat /\ k \in Nat /\ l \in Nat  BY <1>3, <3>1
    <3>3. at[k] = at[l] => at[k] <= at[l] /\ at[l] <= at[k]  BY <3>2
    <3>4. at[k] = at[l] => k <= l /\ l <= k  BY <1>4, <3>1, <3>3
    <3>5. QED  BY <3>1, <3>2, <3>4
  <2>4. \A p \in L : \E l \in 1 .. m : part[l] = p  BY <1>5
  <2> HIDE DEF part
  <2>5. part \in Bijection(1 .. m, L)
    BY <2>2, <2>3, <2>4 DEF Bijection, Injection, Surjection, IsInjective
  <2>6. ExistsBijection(1 .. m, L)  BY <2>5 DEF ExistsBijection
  <2>7. 0 \in Int /\ 1 \in Int /\ m \in Int  OBVIOUS
  <2>8. IsFiniteSet(1 .. m) /\ Cardinality(1 .. m) = IF 1 > m THEN 0 ELSE m - 1 + 1
    BY <2>7, FS_Interval
  <2>9. Cardinality(1 .. m) = m  BY <2>8
  <2>10. QED  BY <2>6, <2>8, <2>9, FS_Bijection
<1>6. Cardinality(K) = n
  <2>1. K = {at[l] : l \in 1 .. n}  BY <1>1
  <2>2. n \in 0 .. n  BY <1>2
  <2>3. QED  BY <1>5, <2>1, <2>2
<1>7. ASSUME NEW p \in K
      PROVE  out[Cardinality({q \in K : q <= p})] = unit[p]
  <2>1. PICK m \in 1 .. n : at[m] = p  BY <1>1
  <2> DEFINE L == {q \in K : q <= p}
  <2>2. ASSUME NEW q \in L
        PROVE  \E l \in 1 .. m : q = at[l]
    <3>1. PICK l \in 1 .. n : at[l] = q  BY <1>1
    <3>2. l <= m  BY <1>4, <2>1, <3>1
    <3>3. l \in 1 .. m  BY <1>2, <3>2
    <3>4. QED  BY <3>1, <3>3
  <2>3. ASSUME NEW l \in 1 .. m
        PROVE  at[l] \in L
    <3>1. l \in 1 .. n /\ l <= m  BY <1>2
    <3>2. at[l] <= p /\ at[l] \in K  BY <1>1, <1>4, <2>1, <3>1
    <3>3. QED  BY <3>2
  <2>4. L = {at[l] : l \in 1 .. m}
    <3> HIDE DEF L
    <3>1. QED  BY <2>2, <2>3
  <2>5. m \in 0 .. n  BY <1>2
  <2> HIDE DEF L
  <2>6. Cardinality(L) = m  BY <1>5, <2>4, <2>5
  <2>7. QED  BY <1>1, <2>1, <2>6 DEF L
<1>8. QED  BY <1>6, <1>7 DEF HasJust, n

LEMMA ParsedIsFormat ==
    ASSUME TypeOK, ReadInv, LeadInv
    PROVE  AcceptsTheFormat
<1>1. unit \in Seq(Byte) /\ Len(unit) \in Nat /\ packet.data \in Seq(Byte)
  <2>1. unit \in Seq(Byte) /\ Len(unit) \in Nat  BY TypePositions
  <2>2. packet \in PacketType  BY DEF TypeOK, PacketType
  <2>3. QED  BY <2>1, <2>2 DEF PacketType
<1>2. \A cuts : cuts \in UnitReadings <=> cuts \in Seq(Nat) /\ IsReading(cuts, Len(unit))
  BY <1>1, UnitReadingsExist
<1>3. where = "refused" => UnitReadings = {}  BY <1>2 DEF LeadInv
<1>4. ASSUME where \notin {"socket", "overrun", "parsing", "refused"}
      PROVE  \E cuts \in UnitReadings : HasJust(packet.data, Kept(cuts))
  <2>1. PICK cuts \in Seq(Nat) :
            IsReading(cuts, Len(unit)) /\ IsSelection(packet.data, Kept(cuts))
    BY <1>4 DEF ReadInv
  <2>2. Kept(cuts) \subseteq 1 .. Len(unit) - 1  BY <1>1, <2>1, KeptIsBefore
  <2>3. Kept(cuts) \in SUBSET Nat
    <3>1. 1 .. Len(unit) - 1 \subseteq Nat  OBVIOUS
    <3>2. QED  BY <2>2, <3>1
  <2>4. HasJust(packet.data, Kept(cuts))  BY <1>1, <2>1, <2>3, SelectionIsJust
  <2>5. QED  BY <1>2, <2>1, <2>4
<1>5. QED  BY <1>3, <1>4 DEF AcceptsTheFormat

\* parseDataUnit (TcpSession.cpp:208) refuses a unit only if nothing of the format fits it, and
\* a unit it lets through is a time, pieces of information and one byte more; what it hands on
\* has just the bytes of the time and of the pieces that are kept, in their order.  It holds
\* for units of every length that fits m_packetRef, and whatever the counts in them say.
THEOREM ParserAcceptsTheFormat == Spec => []AcceptsTheFormat
<1>1. Init => TypeOK /\ ReadInv /\ LeadInv  BY TypeInit, ReadInit, LeadInit
<1>2. TypeOK /\ ReadInv /\ LeadInv /\ [Next]_vars => (TypeOK /\ ReadInv /\ LeadInv)'
  BY TypeStep, ReadStep, LeadStep
<1>3. TypeOK /\ ReadInv /\ LeadInv => AcceptsTheFormat  BY ParsedIsFormat
<1>4. QED  BY <1>1, <1>2, <1>3, PTL DEF Spec
=============================================================================
