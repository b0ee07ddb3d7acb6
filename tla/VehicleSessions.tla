--------------------------- MODULE VehicleSessions ---------------------------
(***************************************************************************)
(* The vehicles' connections and the way of an answer back to a vehicle:   *)
(* the handlers of TcpServer and TcpSession, which the TCP thread runs one *)
(* after the other, a ResponseReader that looks up the session of the      *)
(* answer's vehicle and writes to it, and between them the table           *)
(* vechicleSessionTable.                                                   *)
(*                                                                         *)
(* The reader reads the table without the mutex; here it finds the entry   *)
(* as it is before or after an insertion or deletion, and uses it in a     *)
(* later step.  If the entry is erased in between, its iterator is         *)
(* invalid: the reader then uses what the freed memory shows, which may be *)
(* another entry by then, or the process crashes.  What a torn read of the *)
(* map would do is left out.                                               *)
(*                                                                         *)
(* boost::asio is external.  A read that has ended, or a timer that has    *)
(* expired, has its handler queued, and neither cancel nor close changes   *)
(* with what result it runs.  A write is done at once or when the          *)
(* connection can take it, from the memory it was given, and reads on a    *)
(* closed socket fail.                                                     *)
(***************************************************************************)
EXTENDS Naturals, Sequences

CONSTANTS
    Sessions,       \* the objects of class TcpSession
    Vins,
    Allowed,        \* the VINs whose packets are let through: all of them in release mode
    NoSession,      \* no entry in the table
    NoVin,          \* Constant::vinInital
    MaxPackets      \* bound of the model: packets that vehicles send

ASSUME SessionAssumption ==
    /\ Allowed \subseteq Vins
    /\ NoSession \notin Sessions
    /\ NoVin \notin Vins
    /\ MaxPackets \in Nat

VARIABLES
    table,      \* vechicleSessionTable
    pos,        \* pos[s]: the read of s that is under way, or why there is none
    arrived,    \* arrived[s]: that read has what it waited for, its handler is queued
    due,        \* due[s]: readTimeoutHandler of s is queued without an error
    open,       \* open[s]: m_socket is open
    quit,       \* quit[s]: m_quit
    vin,        \* vin[s]: m_vin
    writes,     \* writes[s]: what async_write has still to send
    rpc,        \* where the reader is
    buf,        \* m_responseBuf, after readResponse
    iter,       \* the session in the entry the reader found, as its memory shows it
    dangling,   \* that entry has been erased
    received,   \* history: what each session's vehicle got from the platform, and should have
    packets,    \* how many packets vehicles sent
    unanswered, \* unanswered[v]: packets of v forwarded, to which an answer may come
    answers     \* how many answers came

readVars   == <<pos, arrived, due, open, quit, vin>>
readerVars == <<rpc, buf, iter, dangling>>
historyVars == <<received, packets, unanswered, answers>>
vars == <<table, readVars, writes, readerVars, historyVars>>

\* The read under way, or the end of reading: the socket failed, the vehicle logged out, its
\* VIN is not allowed, a packet was malformed, or m_quit was set when a packet was done.
Reading == {"header", "unit"}
Ended   == {"failed", "loggedOut", "ignored", "malformed", "timedOut"}

\* An answer, or the empty buffer.
Answers == [vin : Vins \cup {NoVin}, no : Nat]

\* What is written is the reader's m_responseBuf, or the heartbeat in m_packetRef; meant is
\* what it held when it was handed to write, astray that an erased entry was used for it.
Writes == [from : {"m_responseBuf"}, meant : Answers, astray : BOOLEAN]
              \cup [from : {"m_packetRef"}]

Init ==
    /\ table = [v \in Vins |-> NoSession]
    /\ pos = [s \in Sessions |-> "unaccepted"]
    /\ arrived = [s \in Sessions |-> FALSE]
    /\ due = [s \in Sessions |-> FALSE]
    /\ open = [s \in Sessions |-> FALSE]
    /\ quit = [s \in Sessions |-> FALSE]
    /\ vin = [s \in Sessions |-> NoVin]
    /\ writes = [s \in Sessions |-> <<>>]
    /\ rpc = "reading"
    /\ buf = [vin |-> NoVin, no |-> 0]
    /\ iter = NoSession
    /\ dangling = FALSE
    /\ received = [s \in Sessions |-> {}]
    /\ packets = 0
    /\ unanswered = [v \in Vins |-> 0]
    /\ answers = 0

\* An operator named Operation_Defect is a mistaken variant of Operation, used only to check
\* that the properties would notice it.
-----------------------------------------------------------------------------
(* The network and the clock.                                              *)

\* acceptHandler: the connection starts with readHeader.
Accept(s) ==
    /\ pos[s] = "unaccepted"
    /\ pos' = [pos EXCEPT ![s] = "header"]
    /\ open' = [open EXCEPT ![s] = TRUE]
    /\ UNCHANGED <<table, arrived, due, quit, vin, writes, readerVars, historyVars>>

Arrive(s) ==
    /\ pos[s] \in Reading
    /\ open[s]
    /\ ~arrived[s]
    /\ pos[s] = "header" => packets < MaxPackets
    /\ packets' = IF pos[s] = "header" THEN packets + 1 ELSE packets
    /\ arrived' = [arrived EXCEPT ![s] = TRUE]
    /\ UNCHANGED <<table, pos, due, open, quit, vin, writes, readerVars, received, unanswered,
                   answers>>

\* m_timer, which every read sets anew.
Expire(s) ==
    /\ pos[s] \in Reading
    /\ open[s]
    /\ ~due[s]
    /\ due' = [due EXCEPT ![s] = TRUE]
    /\ UNCHANGED <<table, pos, arrived, open, quit, vin, writes, readerVars, historyVars>>

-----------------------------------------------------------------------------
(* The handlers of a session.                                              *)

\* vechicleSessionTable.erase, which invalidates the iterator of the entry erased.
Erase(v) ==
    /\ table' = IF v = NoVin THEN table ELSE [table EXCEPT ![v] = NoSession]
    /\ dangling' = (dangling \/ (rpc = "write" /\ buf.vin = v))
    /\ UNCHANGED <<rpc, buf, iter>>

\* Both read handlers on an error: peer closed, or the socket was closed here.
ReadFails(s) ==
    /\ pos[s] \in Reading
    /\ ~arrived[s]
    /\ Erase(vin[s])
    /\ pos' = [pos EXCEPT ![s] = "failed"]
    /\ UNCHANGED <<arrived, due, open, quit, vin, writes, historyVars>>

HeaderRead_VinOfEachPacket(s) ==
    /\ pos[s] = "header"
    /\ arrived[s]
    /\ arrived' = [arrived EXCEPT ![s] = FALSE]
    /\ \E v \in Vins :
           /\ vin' = [vin EXCEPT ![s] = v]
           /\ pos' = [pos EXCEPT ![s] = IF v \in Allowed THEN "unit" ELSE "ignored"]
    /\ UNCHANGED <<table, due, open, quit, writes, readerVars, historyVars>>

\* readHeaderHandler: the first header names the vehicle.
HeaderRead(s) ==
    /\ pos[s] = "header"
    /\ arrived[s]
    /\ arrived' = [arrived EXCEPT ![s] = FALSE]
    /\ \E v \in IF vin[s] = NoVin THEN Vins ELSE {vin[s]} :
           /\ vin' = [vin EXCEPT ![s] = v]
           /\ pos' = [pos EXCEPT ![s] = IF v \in Allowed THEN "unit" ELSE "ignored"]
    /\ UNCHANGED <<table, due, open, quit, writes, readerVars, historyVars>>

\* readDataUnitHandler goes on with the next packet, unless m_quit is set.
ReadOn(s) == pos' = [pos EXCEPT ![s] = IF quit[s] THEN "timedOut" ELSE "header"]

\* The packet goes to the queues, and from there to the platform.
Forwarded(s) ==
    /\ unanswered' = [unanswered EXCEPT ![vin[s]] = @ + 1]
    /\ UNCHANGED <<received, packets, answers>>

UnitRead(s) ==
    /\ pos[s] = "unit"
    /\ arrived[s]
    /\ arrived' = [arrived EXCEPT ![s] = FALSE]

DataRead(s) ==
    /\ UnitRead(s)
    /\ ReadOn(s)
    /\ Forwarded(s)
    /\ UNCHANGED <<table, due, open, quit, vin, writes, readerVars>>

\* parseDataUnit throws: the handler catches it and nothing is read any more.
Malformed(s) ==
    /\ UnitRead(s)
    /\ pos' = [pos EXCEPT ![s] = "malformed"]
    /\ UNCHANGED <<table, due, open, quit, vin, writes, readerVars, historyVars>>

\* insert leaves an entry that is there alone.  A new one may get the memory of the one that
\* was erased while the reader held it.
Insert(s) ==
    /\ table[vin[s]] = NoSession
    /\ table' = [table EXCEPT ![vin[s]] = s]
    /\ iter' \in IF dangling THEN {iter, s} ELSE {iter}

LoginRead(s) ==
    /\ UnitRead(s)
    /\ \/ Insert(s)
       \/ table[vin[s]] # NoSession /\ UNCHANGED <<table, iter>>
    /\ ReadOn(s)
    /\ Forwarded(s)
    /\ UNCHANGED <<due, open, quit, vin, writes, rpc, buf, dangling>>

LogoutRead_EntryKept(s) ==
    /\ UnitRead(s)
    /\ quit' = [quit EXCEPT ![s] = TRUE]
    /\ pos' = [pos EXCEPT ![s] = "loggedOut"]
    /\ Forwarded(s)
    /\ UNCHANGED <<table, due, open, vin, writes, readerVars>>

LogoutRead(s) ==
    /\ UnitRead(s)
    /\ Erase(vin[s])
    /\ quit' = [quit EXCEPT ![s] = TRUE]
    /\ pos' = [pos EXCEPT ![s] = "loggedOut"]
    /\ Forwarded(s)
    /\ UNCHANGED <<due, open, vin, writes>>

HeartbeatRead(s) ==
    /\ UnitRead(s)
    /\ ReadOn(s)
    /\ writes' = [writes EXCEPT ![s] = Append(@, [from |-> "m_packetRef"])]
    /\ UNCHANGED <<table, due, open, quit, vin, readerVars, historyVars>>

TimeoutHandler_SocketKept(s) ==
    /\ due[s]
    /\ due' = [due EXCEPT ![s] = FALSE]
    /\ quit' = [quit EXCEPT ![s] = TRUE]
    /\ UNCHANGED <<table, pos, arrived, open, vin, writes, readerVars, historyVars>>

TimeoutHandler(s) ==
    /\ due[s]
    /\ due' = [due EXCEPT ![s] = FALSE]
    /\ quit' = [quit EXCEPT ![s] = TRUE]
    /\ open' = [open EXCEPT ![s] = FALSE]
    /\ UNCHANGED <<table, pos, arrived, vin, writes, readerVars, historyVars>>

WriteFails_EntryKept(s) ==
    /\ writes[s] # <<>>
    /\ writes' = [writes EXCEPT ![s] = Tail(@)]
    /\ UNCHANGED <<table, readVars, readerVars, historyVars>>

\* writeHandler with an error.
WriteFails(s) ==
    /\ writes[s] # <<>>
    /\ Erase(vin[s])
    /\ writes' = [writes EXCEPT ![s] = Tail(@)]
    /\ UNCHANGED <<readVars, historyVars>>

\* The connection takes what is written, as it is then in m_responseBuf.  (What a heartbeat's
\* answer is by then is not looked at: readHeader has released the buffer.)
Transmit(s) ==
    /\ writes[s] # <<>>
    /\ open[s]
    /\ LET w == Head(writes[s])
       IN received' = [received EXCEPT ![s] =
              IF w.from = "m_responseBuf" THEN @ \cup {[got |-> buf, meant |-> w.meant]} ELSE @]
    /\ writes' = [writes EXCEPT ![s] = Tail(@)]
    /\ UNCHANGED <<table, readVars, readerVars, packets, unanswered, answers>>

-----------------------------------------------------------------------------
(* A ResponseReader.                                                       *)

\* readResponse overwrites m_responseBuf with an answer to some vehicle's packet; a vehicle's
\* login that succeeded and everything that did not is forwarded.
ReadAnswer ==
    /\ rpc = "reading"
    /\ \E v \in Vins :
           /\ unanswered[v] > 0
           /\ unanswered' = [unanswered EXCEPT ![v] = @ - 1]
           /\ buf' = [vin |-> v, no |-> answers + 1]
    /\ answers' = answers + 1
    /\ rpc' \in {"reading", "find"}
    /\ UNCHANGED <<table, readVars, writes, iter, dangling, received, packets>>

Find_WithoutEnd ==
    /\ rpc = "find"
    /\ iter' = table[buf.vin]
    /\ rpc' = "write"
    /\ UNCHANGED <<table, readVars, writes, buf, dangling, historyVars>>

Find ==
    /\ rpc = "find"
    /\ iter' = table[buf.vin]
    /\ rpc' = IF table[buf.vin] = NoSession THEN "reading" ELSE "write"
    /\ UNCHANGED <<table, readVars, writes, buf, dangling, historyVars>>

\* iter->second->write
Write ==
    /\ rpc = "write"
    /\ writes' = [writes EXCEPT ![iter] =
           Append(@, [from |-> "m_responseBuf", meant |-> buf, astray |-> dangling])]
    /\ iter' = NoSession
    /\ dangling' = FALSE
    /\ rpc' = "reading"
    /\ UNCHANGED <<table, readVars, buf, historyVars>>

\* The same, if the memory of the erased entry, or of its session, shows nothing of use.
Crash ==
    /\ rpc = "write"
    /\ dangling
    /\ rpc' = "crashed"
    /\ UNCHANGED <<table, readVars, writes, buf, iter, dangling, historyVars>>

-----------------------------------------------------------------------------
Handler(s) ==
    \/ ReadFails(s) \/ HeaderRead(s)
    \/ DataRead(s) \/ Malformed(s) \/ LoginRead(s) \/ LogoutRead(s) \/ HeartbeatRead(s)

Running == rpc # "crashed"

Step ==
    \/ \E s \in Sessions :
           \/ Accept(s) \/ Arrive(s) \/ Expire(s)
           \/ Handler(s) \/ TimeoutHandler(s) \/ WriteFails(s) \/ Transmit(s)
    \/ ReadAnswer \/ Find \/ Write \/ Crash

\* A crash ends all threads.
Next == Running /\ Step

Spec == Init /\ [][Next]_vars

\* The TCP thread runs the handlers that are queued (it must not wait for a full queue for
\* ever, see Forwarding): those of timers and writes, and the one of a read that has ended,
\* by an arrival or with its socket.
FairSpec ==
    /\ Spec
    /\ \A s \in Sessions :
           /\ WF_vars(Running /\ (arrived[s] \/ ~open[s]) /\ Handler(s))
           /\ WF_vars(Running /\ TimeoutHandler(s))
           /\ WF_vars(Running /\ (WriteFails(s) \/ Transmit(s)))
-----------------------------------------------------------------------------
TypeOK ==
    /\ table \in [Vins -> Sessions \cup {NoSession}]
    /\ pos \in [Sessions -> {"unaccepted"} \cup Reading \cup Ended]
    /\ arrived \in [Sessions -> BOOLEAN]
    /\ \A s \in Sessions : arrived[s] => pos[s] \in Reading
    /\ due \in [Sessions -> BOOLEAN]
    /\ open \in [Sessions -> BOOLEAN]
    /\ quit \in [Sessions -> BOOLEAN]
    /\ vin \in [Sessions -> Vins \cup {NoVin}]
    /\ \A s \in Sessions : pos[s] \in {"unit", "loggedOut", "ignored", "malformed", "timedOut"}
                               => vin[s] # NoVin
    /\ writes \in [Sessions -> Seq(Writes)]
    /\ rpc \in {"reading", "find", "write", "crashed"}
    /\ buf \in Answers
    /\ iter \in Sessions \cup {NoSession}
    /\ rpc \in {"write", "crashed"} <=> iter # NoSession
    /\ dangling \in BOOLEAN
    /\ dangling => iter # NoSession
    /\ rpc # "reading" => buf.vin # NoVin
    /\ received \in [Sessions -> SUBSET [got : Answers, meant : Answers]]
    /\ packets \in 0 .. MaxPackets
    /\ unanswered \in [Vins -> Nat]
    /\ answers \in Nat

\* An entry names a session of its vehicle, one whose reading neither failed nor ended with a
\* logout, whatever entry was erased meanwhile by another session of the same VIN.  It may
\* outlive the reading in two ways only: a malformed packet, and a packet that was already
\* read when its session timed out.  Then the socket may be closed and the entry stays.
EntryHasItsSession ==
    \A v \in Vins : table[v] # NoSession =>
        /\ vin[table[v]] = v
        /\ v \in Allowed
        /\ pos[table[v]] \in Reading \cup {"malformed", "timedOut"}

\* The reader hands an answer only to a session of the vehicle it is for, although it may be
\* another session of that vehicle than it was read for, and although the session may end
\* before the answer is sent; unless the entry was erased between the reader's find and its
\* write (ResponseReader.cpp:62-67), when the answer may go to any vehicle.
AnswersGoToTheirVehicle ==
    \A s \in Sessions : \A k \in DOMAIN writes[s] :
        writes[s][k].from = "m_responseBuf" /\ ~writes[s][k].astray =>
            writes[s][k].meant.vin = vin[s]

\* An entry whose socket is closed does not last once something is written to it: the failing
\* write erases it, and the vehicle's next login is entered again (unless the process ends).
DeadEntryIsCleared ==
    \A s \in Sessions :
        writes[s] # <<>> /\ ~open[s] ~> (\A v \in Vins : table[v] # s) \/ ~Running

\* When its timer has expired a session stops reading, also if packets go on arriving (unless
\* the process ends).
TimedOutSessionEnds == \A s \in Sessions : due[s] ~> pos[s] \notin Reading \/ ~Running
-----------------------------------------------------------------------------
(* What the comments of the code say and the code does not do.             *)

\* ResponseReader.cpp:105: successful logins and all failures are forwarded.  What the vehicle
\* gets is the answer that was forwarded.
ForwardedAnswersArrive == \A s \in Sessions : \A r \in received[s] : r.got = r.meant
=============================================================================
