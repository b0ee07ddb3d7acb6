------------------------ MODULE VehicleSessionsProofs ------------------------
(***************************************************************************)
(* What holds of VehicleSessions for any number of sessions, vehicles and  *)
(* packets.                                                                *)
(***************************************************************************)
EXTENDS VehicleSessions, SequenceTheorems, TLAPS

\* A step, by the action it is of.
LEMMA NextCases ==
    ASSUME [Next]_vars
    PROVE  \/ \E s \in Sessions :
                  \/ Accept(s) \/ Arrive(s) \/ Expire(s) \/ ReadFails(s) \/ HeaderRead(s)
                  \/ DataRead(s) \/ Malformed(s) \/ LoginRead(s) \/ LogoutRead(s)
                  \/ HeartbeatRead(s) \/ TimeoutHandler(s) \/ WriteFails(s) \/ Transmit(s)
           \/ ReadAnswer \/ Find \/ Write \/ Crash
           \/ UNCHANGED vars
BY DEF Next, Step, Handler

LEMMA TypeInit == Init => TypeOK
<1> SUFFICES ASSUME Init
             PROVE  TypeOK
  OBVIOUS
<1> USE SessionAssumption DEF Init, TypeOK, Reading, Ended, Answers
<1>1. /\ arrived \in [Sessions -> BOOLEAN] /\ due \in [Sessions -> BOOLEAN]
      /\ open \in [Sessions -> BOOLEAN] /\ quit \in [Sessions -> BOOLEAN]
  OBVIOUS
<1>2. writes \in [Sessions -> Seq(Writes)]  OBVIOUS
<1>3. received \in [Sessions -> SUBSET [got : Answers, meant : Answers]]  OBVIOUS
<1>4. dangling \in BOOLEAN /\ ~dangling  OBVIOUS
<1>5. /\ table \in [Vins -> Sessions \cup {NoSession}]
      /\ pos \in [Sessions -> {"unaccepted"} \cup Reading \cup Ended]
      /\ vin \in [Sessions -> Vins \cup {NoVin}] /\ unanswered \in [Vins -> Nat]
      /\ buf \in Answers /\ packets \in 0 .. MaxPackets
  OBVIOUS
<1>6. /\ \A s \in Sessions : arrived[s] => pos[s] \in Reading
      /\ \A s \in Sessions : pos[s] \in {"unit", "loggedOut", "ignored", "malformed", "timedOut"}
                                => vin[s] # NoVin
  OBVIOUS
<1>7. rpc = "reading" /\ iter = NoSession /\ answers = 0  OBVIOUS
<1> QED  BY <1>1, <1>2, <1>3, <1>4, <1>5, <1>6, <1>7

LEMMA ReadTypes ==
    ASSUME TypeOK, NEW s \in Sessions,
           \/ Accept(s) \/ Arrive(s) \/ Expire(s) \/ ReadFails(s) \/ HeaderRead(s)
           \/ DataRead(s) \/ Malformed(s) \/ LoginRead(s) \/ LogoutRead(s) \/ TimeoutHandler(s)
    PROVE  TypeOK'
<1> USE SessionAssumption
    DEF TypeOK, Reading, Ended, readVars, readerVars, historyVars, UnitRead, ReadOn, Erase,
        Forwarded
<1>1. CASE Accept(s)  BY <1>1 DEF Accept
<1>2. CASE Arrive(s)  BY <1>2 DEF Arrive
<1>3. CASE Expire(s)  BY <1>3 DEF Expire
<1>4. CASE ReadFails(s)  BY <1>4 DEF ReadFails
<1>5. CASE HeaderRead(s)  BY <1>5 DEF HeaderRead
<1>6. CASE DataRead(s)  BY <1>6 DEF DataRead
<1>7. CASE Malformed(s)  BY <1>7 DEF Malformed
<1>8. CASE LoginRead(s)
  <2>1. vin[s] \in Vins  BY <1>8 DEF LoginRead
  <2>2. table' \in [Vins -> Sessions \cup {NoSession}]
    <3>1. table' = table \/ table' = [table EXCEPT ![vin[s]] = s]
      BY <1>8 DEF LoginRead, Insert
    <3>2. QED  BY <3>1
  <2>3. iter' \in Sessions \cup {NoSession} /\ (iter' # NoSession <=> iter # NoSession)
    <3>1. iter' = iter \/ (dangling /\ iter' \in {iter, s})  BY <1>8 DEF LoginRead, Insert
    <3>2. QED  BY <3>1
  <2>4. UNCHANGED <<dangling, rpc, buf, writes>>  BY <1>8 DEF LoginRead
  <2>5. /\ arrived' \in [Sessions -> BOOLEAN]
        /\ pos' \in [Sessions -> {"unaccepted"} \cup Reading \cup Ended]
        /\ \A r \in Sessions : arrived'[r] => pos'[r] \in Reading
        /\ unanswered' \in [Vins -> Nat]
    BY <1>8, <2>1 DEF LoginRead
  <2>6. UNCHANGED <<due, open, quit, vin, received, packets, answers>>  BY <1>8 DEF LoginRead
  <2>7. \A r \in Sessions : pos'[r] \in {"unit", "loggedOut", "ignored", "malformed", "timedOut"}
                                => vin'[r] # NoVin
    BY <1>8, <2>1, <2>6 DEF LoginRead
  <2>8. QED  BY <2>2, <2>3, <2>4, <2>5, <2>6, <2>7
<1>9. CASE LogoutRead(s)  BY <1>9 DEF LogoutRead
<1>10. CASE TimeoutHandler(s)  BY <1>10 DEF TimeoutHandler
<1>11. QED  BY <1>1, <1>2, <1>3, <1>4, <1>5, <1>6, <1>7, <1>8, <1>9, <1>10

LEMMA WriteTypes ==
    ASSUME TypeOK, NEW s \in Sessions, HeartbeatRead(s) \/ WriteFails(s) \/ Transmit(s)
    PROVE  TypeOK'
<1> USE SessionAssumption
    DEF TypeOK, Reading, Ended, readVars, readerVars, historyVars, UnitRead, ReadOn, Erase
<1>1. CASE HeartbeatRead(s)
  <2>1. [from |-> "m_packetRef"] \in Writes  BY DEF Writes
  <2>2. Append(writes[s], [from |-> "m_packetRef"]) \in Seq(Writes)  BY <2>1, AppendProperties
  <2>3. writes' \in [Sessions -> Seq(Writes)]  BY <1>1, <2>2 DEF HeartbeatRead
  <2>4. QED  BY <1>1, <2>3 DEF HeartbeatRead
<1>2. CASE WriteFails(s)
  <2>1. Tail(writes[s]) \in Seq(Writes)  BY <1>2, HeadTailProperties DEF WriteFails
  <2>2. writes' \in [Sessions -> Seq(Writes)]  BY <1>2, <2>1 DEF WriteFails
  <2>3. QED  BY <1>2, <2>2 DEF WriteFails
<1>3. CASE Transmit(s)
  <2>1. Tail(writes[s]) \in Seq(Writes) /\ Head(writes[s]) \in Writes
    BY <1>3, HeadTailProperties DEF Transmit
  <2>2. writes' \in [Sessions -> Seq(Writes)]  BY <1>3, <2>1 DEF Transmit
  <2>3. Head(writes[s]).from = "m_responseBuf" => Head(writes[s]).meant \in Answers
    BY <2>1 DEF Writes
  <2>4. received' \in [Sessions -> SUBSET [got : Answers, meant : Answers]]
    BY <1>3, <2>3 DEF Transmit
  <2>5. QED  BY <1>3, <2>2, <2>4 DEF Transmit
<1>4. QED  BY <1>1, <1>2, <1>3

LEMMA ReaderTypes == ASSUME TypeOK, ReadAnswer \/ Find \/ Write \/ Crash
                     PROVE  TypeOK'
<1> USE SessionAssumption DEF TypeOK, readVars, readerVars, historyVars
<1>1. CASE ReadAnswer
  <2>1. PICK v \in Vins :
            /\ unanswered[v] > 0
            /\ unanswered' = [unanswered EXCEPT ![v] = @ - 1]
            /\ buf' = [vin |-> v, no |-> answers + 1]
    BY <1>1 DEF ReadAnswer
  <2>2. unanswered' \in [Vins -> Nat]  BY <2>1
  <2>3. buf' \in Answers /\ buf'.vin # NoVin  BY <2>1 DEF Answers
  <2>4. QED  BY <1>1, <2>2, <2>3 DEF ReadAnswer
<1>2. CASE Find
  <2>1. buf.vin \in Vins  BY <1>2 DEF Find, Answers
  <2>2. QED  BY <1>2, <2>1 DEF Find
<1>3. CASE Write
  <2>1. iter \in Sessions  BY <1>3 DEF Write
  <2> DEFINE w == [from |-> "m_responseBuf", meant |-> buf, astray |-> dangling]
  <2>2. w \in Writes  BY DEF Writes
  <2>3. Append(writes[iter], w) \in Seq(Writes)  BY <2>1, <2>2, AppendProperties
  <2>4. writes' \in [Sessions -> Seq(Writes)]  BY <1>3, <2>1, <2>3 DEF Write
  <2>5. QED  BY <1>3, <2>4 DEF Write
<1>4. CASE Crash  BY <1>4 DEF Crash
<1>5. QED  BY <1>1, <1>2, <1>3, <1>4

LEMMA TypeStep == TypeOK /\ [Next]_vars => TypeOK'
<1>1. TypeOK /\ UNCHANGED vars => TypeOK'
  BY DEF TypeOK, vars, readVars, readerVars, historyVars
<1>2. QED  BY <1>1, NextCases, ReadTypes, WriteTypes, ReaderTypes

\* Every variable keeps its type; a read is never awaited by a session that has ended, and the
\* reader writes only when it has found a session, and keeps no erased entry but then.
THEOREM TypeCorrect == Spec => []TypeOK
BY TypeInit, TypeStep, PTL DEF Spec
-----------------------------------------------------------------------------
\* A data unit is read only for a VIN that is allowed, so whoever logs in is.
EntryInv ==
    /\ EntryHasItsSession
    /\ \A s \in Sessions : pos[s] = "unit" => vin[s] \in Allowed

\* The steps after which everybody reads as before and no entry is new.
LEMMA EntriesKept ==
    ASSUME TypeOK, EntryInv, UNCHANGED <<pos, vin>>,
           \A v \in Vins : table'[v] = table[v] \/ table'[v] = NoSession
    PROVE  EntryInv'
BY DEF EntryInv, EntryHasItsSession

LEMMA EntryStep == TypeOK /\ EntryInv /\ [Next]_vars => EntryInv'
<1> SUFFICES ASSUME TypeOK, EntryInv, [Next]_vars
             PROVE  EntryInv'
  OBVIOUS
<1>1. ASSUME NEW s \in Sessions,
             Arrive(s) \/ Expire(s) \/ TimeoutHandler(s) \/ WriteFails(s) \/ Transmit(s)
      PROVE  EntryInv'
  <2>1. UNCHANGED <<pos, vin>>
    BY <1>1 DEF Arrive, Expire, TimeoutHandler, WriteFails, Transmit, readVars
  <2>2. table' = table \/ Erase(vin[s])
    BY <1>1 DEF Arrive, Expire, TimeoutHandler, WriteFails, Transmit
  <2>3. \A v \in Vins : table'[v] = table[v] \/ table'[v] = NoSession
    BY <2>2 DEF Erase, TypeOK
  <2>4. QED  BY <2>1, <2>3, EntriesKept
<1>2. ASSUME ReadAnswer \/ Find \/ Write \/ Crash \/ UNCHANGED vars
      PROVE  EntryInv'
  <2>1. UNCHANGED <<pos, vin, table>>
    BY <1>2 DEF ReadAnswer, Find, Write, Crash, vars, readVars
  <2>2. QED  BY <2>1, EntriesKept
<1>3. ASSUME NEW s \in Sessions,
             \/ Accept(s) \/ ReadFails(s) \/ HeaderRead(s) \/ DataRead(s) \/ Malformed(s)
             \/ LoginRead(s) \/ LogoutRead(s) \/ HeartbeatRead(s)
      PROVE  EntryInv'
  <2> USE SessionAssumption
      DEF TypeOK, EntryInv, EntryHasItsSession, Reading, Ended, UnitRead, ReadOn, Erase,
          Insert
  <2>1. CASE Accept(s)  BY <2>1 DEF Accept
  <2>2. CASE ReadFails(s)  BY <2>2 DEF ReadFails
  <2>3. CASE HeaderRead(s)  BY <2>3 DEF HeaderRead
  <2>4. CASE DataRead(s)  BY <2>4 DEF DataRead
  <2>5. CASE Malformed(s)  BY <2>5 DEF Malformed
  <2>6. CASE LoginRead(s)  BY <2>6 DEF LoginRead
  <2>7. CASE LogoutRead(s)  BY <2>7 DEF LogoutRead
  <2>8. CASE HeartbeatRead(s)  BY <2>8 DEF HeartbeatRead
  <2>9. QED  BY <1>3, <2>1, <2>2, <2>3, <2>4, <2>5, <2>6, <2>7, <2>8
<1>4. QED  BY <1>1, <1>2, <1>3, NextCases

LEMMA EntryInit == Init => EntryInv
BY DEF Init, EntryInv, EntryHasItsSession

\* An entry of the table names a session of its vehicle that reads, or stopped reading at a
\* malformed packet or at one it had read when it timed out.
THEOREM EntriesHaveTheirSessions == Spec => []EntryHasItsSession
<1>1. EntryInv => EntryHasItsSession  BY DEF EntryInv
<1>2. QED  BY <1>1, EntryInit, EntryStep, TypeCorrect, PTL DEF Spec
-----------------------------------------------------------------------------
\* Until it is erased, the entry the reader found is in the table and has the session it had.
\* A session that was found, or is written to, has its VIN for good.
AnswerInv ==
    /\ AnswersGoToTheirVehicle
    /\ rpc = "write" /\ ~dangling => iter = table[buf.vin]
    /\ iter # NoSession => vin[iter] # NoVin
    /\ \A s \in Sessions : writes[s] # <<>> => vin[s] # NoVin

\* The steps that leave VINs and writes alone, or give a VIN to a session that has none.
LEMMA NamedStay ==
    ASSUME TypeOK, AnswerInv, UNCHANGED <<writes, rpc, buf, iter>>,
           \A r \in Sessions : vin[r] # NoVin => vin'[r] = vin[r],
           rpc = "write" /\ ~dangling' => ~dangling /\ iter = table'[buf.vin]
    PROVE  AnswerInv'
<1>1. iter # NoSession => vin'[iter] # NoVin  BY DEF TypeOK, AnswerInv
<1>2. \A r \in Sessions : writes[r] # <<>> => vin'[r] = vin[r] /\ vin'[r] # NoVin
  BY DEF AnswerInv
<1>3. \A r \in Sessions : \A k \in DOMAIN writes[r] : writes[r] # <<>>
  BY DEF TypeOK
<1>4. QED  BY <1>1, <1>2, <1>3 DEF AnswerInv, AnswersGoToTheirVehicle

LEMMA EraseKeepsFound ==
    ASSUME TypeOK, AnswerInv, NEW v, Erase(v)
    PROVE  rpc = "write" /\ ~dangling' => ~dangling /\ iter = table'[buf.vin]
<1> SUFFICES ASSUME rpc = "write", ~dangling'
             PROVE  ~dangling /\ iter = table'[buf.vin]
  OBVIOUS
<1>1. ~dangling /\ buf.vin # v  BY DEF Erase, TypeOK
<1>2. buf.vin \in Vins  BY DEF TypeOK, Answers
<1>3. table'[buf.vin] = table[buf.vin]  BY <1>1, <1>2 DEF Erase, TypeOK
<1>4. QED  BY <1>1, <1>3 DEF AnswerInv

LEMMA AnswerStep == TypeOK /\ EntryInv /\ AnswerInv /\ [Next]_vars => AnswerInv'
<1> SUFFICES ASSUME TypeOK, EntryInv, AnswerInv, [Next]_vars
             PROVE  AnswerInv'
  OBVIOUS
<1>1. ASSUME NEW s \in Sessions,
             \/ Accept(s) \/ Arrive(s) \/ Expire(s) \/ HeaderRead(s) \/ DataRead(s)
             \/ Malformed(s) \/ TimeoutHandler(s)
      PROVE  AnswerInv'
  <2>1. UNCHANGED <<writes, rpc, buf, iter, dangling, table>>
    BY <1>1 DEF Accept, Arrive, Expire, HeaderRead, DataRead, Malformed, TimeoutHandler,
         readerVars
  <2>2. \A r \in Sessions : vin[r] # NoVin => vin'[r] = vin[r]
    BY <1>1 DEF Accept, Arrive, Expire, HeaderRead, DataRead, Malformed, TimeoutHandler, TypeOK
  <2>3. rpc = "write" /\ ~dangling' => ~dangling /\ iter = table'[buf.vin]
    BY <2>1 DEF AnswerInv
  <2>4. QED  BY <2>1, <2>2, <2>3, NamedStay
<1>2. ASSUME NEW s \in Sessions, ReadFails(s) \/ LogoutRead(s)
      PROVE  AnswerInv'
  <2>1. UNCHANGED <<vin, writes, rpc, buf, iter>> /\ Erase(vin[s])
    BY <1>2 DEF ReadFails, LogoutRead, Erase
  <2>2. QED  BY <2>1, EraseKeepsFound, NamedStay
<1>3. ASSUME NEW s \in Sessions, HeartbeatRead(s)
      PROVE  AnswerInv'
  <2>1. UNCHANGED <<vin, rpc, buf, iter, dangling, table>>  BY <1>3 DEF HeartbeatRead, readerVars
  <2>2. writes' = [writes EXCEPT ![s] = Append(@, [from |-> "m_packetRef"])]
    BY <1>3 DEF HeartbeatRead
  <2>3. vin[s] # NoVin  BY <1>3 DEF HeartbeatRead, UnitRead, TypeOK
  <2>4. \A k \in DOMAIN writes'[s] :
            \/ k \in DOMAIN writes[s] /\ writes'[s][k] = writes[s][k]
            \/ writes'[s][k] = [from |-> "m_packetRef"]
    BY <2>2, AppendProperties DEF TypeOK
  <2>5. \A r \in Sessions \ {s} : writes'[r] = writes[r]  BY <2>2 DEF TypeOK
  <2>6. QED  BY <2>1, <2>3, <2>4, <2>5 DEF AnswerInv, AnswersGoToTheirVehicle
<1>4. ASSUME NEW s \in Sessions, WriteFails(s) \/ Transmit(s)
      PROVE  AnswerInv'
  <2>1. UNCHANGED <<vin, rpc, buf, iter>>
    BY <1>4 DEF WriteFails, Transmit, readerVars, readVars, Erase
  <2>2. writes[s] # <<>> /\ writes' = [writes EXCEPT ![s] = Tail(@)]
    BY <1>4 DEF WriteFails, Transmit
  <2>3. \A k \in DOMAIN writes'[s] :
            k + 1 \in DOMAIN writes[s] /\ writes'[s][k] = writes[s][k + 1]
    BY <2>2, HeadTailProperties, LenProperties DEF TypeOK
  <2>4. \A r \in Sessions \ {s} : writes'[r] = writes[r]  BY <2>2 DEF TypeOK
  <2>5. rpc = "write" /\ ~dangling' => ~dangling /\ iter = table'[buf.vin]
    <3>1. CASE WriteFails(s)  BY <3>1, EraseKeepsFound DEF WriteFails
    <3>2. CASE Transmit(s)  BY <3>2 DEF Transmit, readerVars, AnswerInv
    <3>3. QED  BY <1>4, <3>1, <3>2
  <2>6. QED  BY <2>1, <2>2, <2>3, <2>4, <2>5 DEF AnswerInv, AnswersGoToTheirVehicle
<1>10. ASSUME NEW s \in Sessions, LoginRead(s)
       PROVE  AnswerInv'
  <2>1. UNCHANGED <<vin, writes, rpc, buf, dangling>>  BY <1>10 DEF LoginRead
  <2>2. vin[s] # NoVin  BY <1>10 DEF LoginRead, UnitRead, TypeOK
  <2>3. iter' # NoSession => vin[iter'] # NoVin
    BY <1>10, <2>2 DEF LoginRead, Insert, AnswerInv
  <2>4. ASSUME rpc = "write", ~dangling
        PROVE  iter' = table'[buf.vin]
    <3>1. iter' = iter /\ iter = table[buf.vin] /\ table[buf.vin] # NoSession
      BY <1>10, <2>4 DEF LoginRead, Insert, AnswerInv, TypeOK
    <3>2. table' = table \/ (table[vin[s]] = NoSession /\ table' = [table EXCEPT ![vin[s]] = s])
      BY <1>10 DEF LoginRead, Insert
    <3>3. buf.vin \in Vins  BY <2>4 DEF TypeOK, Answers
    <3>4. table'[buf.vin] = table[buf.vin]  BY <3>1, <3>2, <3>3 DEF TypeOK
    <3>5. QED  BY <3>1, <3>4
  <2>5. QED  BY <2>1, <2>3, <2>4 DEF AnswerInv, AnswersGoToTheirVehicle
<1>5. CASE ReadAnswer
  <2>1. UNCHANGED <<vin, writes, iter>> /\ rpc' # "write"  BY <1>5 DEF ReadAnswer, readVars
  <2>2. QED  BY <2>1 DEF AnswerInv, AnswersGoToTheirVehicle
<1>6. CASE Find
  <2>1. UNCHANGED <<vin, writes, buf, table>> /\ iter' = table[buf.vin]
    BY <1>6 DEF Find, readVars
  <2>2. buf.vin \in Vins  BY <1>6 DEF Find, TypeOK, Answers
  <2>3. iter' # NoSession => vin[iter'] # NoVin
    BY <2>1, <2>2, SessionAssumption DEF EntryInv, EntryHasItsSession
  <2>4. QED  BY <2>1, <2>3 DEF AnswerInv, AnswersGoToTheirVehicle
<1>7. CASE Write
  <2> DEFINE w == [from |-> "m_responseBuf", meant |-> buf, astray |-> dangling]
  <2>1. UNCHANGED <<vin, buf>> /\ rpc' # "write" /\ iter' = NoSession
    BY <1>7 DEF Write, readVars
  <2>2. writes' = [writes EXCEPT ![iter] = Append(@, w)]  BY <1>7 DEF Write
  <2>3. iter \in Sessions /\ vin[iter] # NoVin /\ (~dangling => vin[iter] = buf.vin)
    <3>1. iter \in Sessions /\ buf.vin \in Vins  BY <1>7 DEF Write, TypeOK, Answers
    <3>2. ~dangling => iter = table[buf.vin]  BY <1>7 DEF Write, AnswerInv
    <3>3. iter # NoSession  BY <1>7 DEF Write, TypeOK
    <3>4. QED  BY <3>1, <3>2, <3>3 DEF AnswerInv, EntryInv, EntryHasItsSession
  <2>4. \A k \in DOMAIN writes'[iter] :
            \/ k \in DOMAIN writes[iter] /\ writes'[iter][k] = writes[iter][k]
            \/ writes'[iter][k] = w
    BY <2>2, <2>3, AppendProperties DEF TypeOK
  <2>5. \A r \in Sessions \ {iter} : writes'[r] = writes[r]  BY <2>2 DEF TypeOK
  <2>6. w.meant = buf /\ w.astray = dangling  OBVIOUS
  <2> HIDE DEF w
  <2>7. AnswersGoToTheirVehicle'
    BY <2>1, <2>3, <2>4, <2>5, <2>6 DEF AnswerInv, AnswersGoToTheirVehicle
  <2>8. \A r \in Sessions : writes'[r] # <<>> => vin'[r] # NoVin
    BY <2>1, <2>3, <2>5 DEF AnswerInv
  <2>9. QED  BY <2>1, <2>7, <2>8 DEF AnswerInv
<1>8. CASE Crash
  <2>1. UNCHANGED <<vin, writes, iter>> /\ rpc' # "write"  BY <1>8 DEF Crash, readVars
  <2>2. QED  BY <2>1 DEF AnswerInv, AnswersGoToTheirVehicle
<1>9. CASE UNCHANGED vars  BY <1>9 DEF vars, readVars, readerVars, AnswerInv, AnswersGoToTheirVehicle
<1>11. QED  BY <1>1, <1>2, <1>3, <1>4, <1>5, <1>6, <1>7, <1>8, <1>9, <1>10, NextCases

\* Whatever is erased and inserted between the reader's find and its write, an answer written
\* by an entry that was not erased itself is handed to a session of the vehicle it is for.
\* The iterator of an erased entry is invalid (ResponseReader.cpp:67, 80), and nothing is
\* said of what is written by it.
THEOREM AnswersAreForTheirVehicle == Spec => []AnswersGoToTheirVehicle
<1>1. Init => AnswerInv  BY DEF Init, AnswerInv, AnswersGoToTheirVehicle
<1>2. AnswerInv => AnswersGoToTheirVehicle  BY DEF AnswerInv
<1>3. QED  BY <1>1, <1>2, AnswerStep, EntryInit, EntryStep, TypeCorrect, PTL DEF Spec
=============================================================================
