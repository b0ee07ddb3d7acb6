----------------------------- MODULE Forwarding -----------------------------
(***************************************************************************)
(* The way of a vehicle packet through the program: the thread of the      *)
(* io_service (TcpSession::readDataUnitHandler) puts it into the realtime  *)
(* or the reissue queue, and the uploaders (Uploader::run) take it from    *)
(* there and write it to the public platform, each over its own            *)
(* connection.                                                             *)
(*                                                                         *)
(* put and take of the queues are atomic here: module BlockQueue shows     *)
(* that the class makes them so.  isEmpty and is_connected take no lock    *)
(* and are steps of their own, so what they returned may be stale when it  *)
(* is used.  Logging in is one step or several rounds of it, in which the  *)
(* public platform accepts, refuses or never answers.                      *)
(*                                                                         *)
(* gsocket is external: reading from or writing to a broken connection     *)
(* leaves it not connected, as lines 42 of ResponseReader.cpp and 117 of   *)
(* Uploader.cpp rely on, and a failed write leaves the packet as it was.   *)
(***************************************************************************)
EXTENDS Naturals, Sequences

CONSTANTS
    N,              \* the uploaders that are ever started: UploadChannelNumber, more after
                    \* a second SIGUSR2
    Capacity,       \* MaxVehicleDataQueueSize, of each queue
    NPackets,       \* bound of the model: packets that arrive
    Mode,           \* EnumRunMode
    Rounds,         \* loginTimes of Uploader::run: practice logins of the compliance modes
    Cmds,           \* the commands of the packets that parseDataUnit lets through
    realtimeUpload,
    reissueUpload,
    NoPacket        \* a null boost_bytebuf_sptr

ASSUME ForwardingAssumption ==
    /\ N \in Nat \ {0}
    /\ Capacity \in Nat
    /\ NPackets \in Nat
    /\ Mode \in {"release", "vehicleCompliance", "platformCompliance"}
    /\ Rounds \in Nat
    /\ {realtimeUpload, reissueUpload} \subseteq Cmds
    /\ NoPacket \notin [id : Nat \ {0}, cmd : Cmds]

VARIABLES
    realtime_queue,
    reissue_queue,
    offline,        \* the flag SIGUSR1 sets
    pool,           \* how many uploaders uploader_pool holds; uploader u is its u-th
    connected,      \* connected[u]: m_publicServer.is_connected()
    loggedIn,       \* loggedIn[u]: setupConnAndLogin returned on this connection
    upc,            \* upc[u]: where uploader u is
    logins,         \* logins[u]: platform logins the preamble of run still has to do
    carData,        \* carData[u]: m_carData, while it is not sent
    tpc,            \* where the TCP thread is in readDataUnitHandler
    scanned,        \* the uploader is_connected_with_public_server looks at,
    scanEnd,        \* and the end of the pool as its loop found it at the start
    packet,         \* what parseDataUnit returned
    moving,         \* between realtime_queue.take() and reissue_queue.put of line 151
    arrived, late, sent, \* the packets' history, see Relay
    seen            \* history: seen[u], the first packet of the reissue queue when isEmpty
                    \* found it not empty, until u takes one; 0 if there is none

queueVars    == <<realtime_queue, reissue_queue>>
scanVars     == <<scanned, scanEnd>>
tcpVars      == <<tpc, scanVars, packet, moving>>
linkVars     == <<connected, loggedIn>>
uploaderVars == <<upc, logins, carData>>
historyVars  == <<arrived, late, sent, seen>>
vars == <<queueVars, offline, pool, linkVars, uploaderVars, tcpVars, historyVars>>

Uploaders == 0 .. N - 1
Packets   == [id : Nat \ {0}, cmd : Cmds]

Init ==
    /\ realtime_queue = <<>>
    /\ reissue_queue = <<>>
    /\ offline = FALSE
    /\ pool = 1
    /\ connected = [u \in Uploaders |-> FALSE]
    /\ loggedIn = [u \in Uploaders |-> FALSE]
    /\ upc = [u \in Uploaders |-> IF u > 0 THEN "unstarted"
                                  ELSE IF Mode = "release" THEN "top" ELSE "setup"]
    /\ logins = [u \in Uploaders |-> IF Mode = "release" THEN 0 ELSE Rounds + 1]
    /\ carData = [u \in Uploaders |-> NoPacket]
    /\ tpc = "idle"
    /\ scanned = 0
    /\ scanEnd = 1
    /\ packet = NoPacket
    /\ moving = NoPacket
    /\ arrived = <<>>
    /\ late = {}
    /\ sent = <<>>
    /\ seen = [u \in Uploaders |-> 0]

\* An operator named Operation_Defect is a mistaken variant of Operation, used only to check
\* that the properties would notice it.
-----------------------------------------------------------------------------
(* The signal handlers: SIGUSR1 and, uploader by uploader, SIGUSR2.        *)

Sigusr1 ==
    /\ Mode = "platformCompliance"
    /\ offline' = TRUE
    /\ UNCHANGED <<queueVars, pool, linkVars, uploaderVars, tcpVars, historyVars>>

\* The new uploader runs before it is in the pool.
StartUploader ==
    /\ Mode = "platformCompliance"
    /\ pool < N
    /\ upc[pool] = "unstarted"
    /\ upc' = [upc EXCEPT ![pool] = "setup"]
    /\ UNCHANGED <<queueVars, offline, pool, linkVars, logins, carData, tcpVars, historyVars>>

PushUploader ==
    /\ pool < N
    /\ upc[pool] # "unstarted"
    /\ pool' = pool + 1
    /\ UNCHANGED <<queueVars, offline, linkVars, uploaderVars, tcpVars, historyVars>>

-----------------------------------------------------------------------------
(* The TCP thread.                                                         *)

\* A whole packet of a vehicle was read and parseDataUnit returned it.
Receive ==
    /\ tpc = "idle"
    /\ Len(arrived) < NPackets
    /\ \E c \in Cmds :
           /\ packet' = [id |-> Len(arrived) + 1, cmd |-> c]
           /\ arrived' = Append(arrived, c)
    /\ tpc' = "scan"
    /\ scanned' = 0
    /\ scanEnd' = pool
    /\ UNCHANGED <<queueVars, offline, pool, linkVars, uploaderVars, moving, late, sent, seen>>

\* is_connected_with_public_server asks one uploader after the other.  A push_back in the
\* meantime may reallocate the vector under the loop: here it goes on over the old elements.
ScanFindsConnection ==
    /\ tpc = "scan"
    /\ connected[scanned]
    /\ tpc' = "putRealtime"
    /\ UNCHANGED <<queueVars, offline, pool, linkVars, uploaderVars, scanVars, packet, moving,
                   historyVars>>

ScanGoesOn ==
    /\ tpc = "scan"
    /\ ~connected[scanned]
    /\ IF scanned + 1 < scanEnd THEN scanned' = scanned + 1 /\ UNCHANGED tpc
                                ELSE tpc' = "drainTest" /\ UNCHANGED scanned
    /\ UNCHANGED <<queueVars, offline, pool, linkVars, uploaderVars, scanEnd, packet, moving,
                   historyVars>>

\* The loop of line 151 moves the realtime queue into the reissue queue.
DrainTest ==
    /\ tpc = "drainTest"
    /\ tpc' = IF realtime_queue = <<>> THEN "putReissue" ELSE "drainTake"
    /\ UNCHANGED <<queueVars, offline, pool, linkVars, uploaderVars, scanVars, packet, moving,
                   historyVars>>

DrainTake ==
    /\ tpc = "drainTake"
    /\ realtime_queue # <<>>
    /\ moving' = Head(realtime_queue)
    /\ realtime_queue' = Tail(realtime_queue)
    /\ tpc' = "drainPut"
    /\ UNCHANGED <<reissue_queue, offline, pool, linkVars, uploaderVars, scanVars, packet,
                   historyVars>>

DrainPut ==
    /\ tpc = "drainPut"
    /\ Len(reissue_queue) < Capacity
    /\ reissue_queue' = Append(reissue_queue, moving)
    /\ late' = late \cup {moving.id}
    /\ moving' = NoPacket
    /\ tpc' = "drainTest"
    /\ UNCHANGED <<realtime_queue, offline, pool, linkVars, uploaderVars, scanVars, packet,
                   arrived, sent, seen>>

PutReissue ==
    /\ tpc = "putReissue"
    /\ Len(reissue_queue) < Capacity
    /\ reissue_queue' = Append(reissue_queue, packet)
    /\ late' = late \cup {packet.id}
    /\ packet' = NoPacket
    /\ tpc' = "idle"
    /\ UNCHANGED <<realtime_queue, offline, pool, linkVars, uploaderVars, scanVars, moving,
                   arrived, sent, seen>>

PutRealtime_AtTheFront ==
    /\ tpc = "putRealtime"
    /\ Len(realtime_queue) < Capacity
    /\ realtime_queue' = <<packet>> \o realtime_queue
    /\ packet' = NoPacket
    /\ tpc' = "idle"
    /\ UNCHANGED <<reissue_queue, offline, pool, linkVars, uploaderVars, scanVars, moving,
                   historyVars>>

PutRealtime ==
    /\ tpc = "putRealtime"
    /\ Len(realtime_queue) < Capacity
    /\ realtime_queue' = Append(realtime_queue, packet)
    /\ packet' = NoPacket
    /\ tpc' = "idle"
    /\ UNCHANGED <<reissue_queue, offline, pool, linkVars, uploaderVars, scanVars, moving,
                   historyVars>>

TcpStep ==
    \/ ScanFindsConnection \/ ScanGoesOn
    \/ DrainTest \/ DrainTake \/ DrainPut
    \/ PutReissue \/ PutRealtime
-----------------------------------------------------------------------------
(* The uploaders.                                                          *)

\* platformCompliance and offline: close the connection and sleep for ten minutes.
GoOffline(u) ==
    /\ upc[u] = "top"
    /\ Mode = "platformCompliance"
    /\ offline
    /\ connected' = [connected EXCEPT ![u] = FALSE]
    /\ loggedIn' = [loggedIn EXCEPT ![u] = FALSE]
    /\ upc' = [upc EXCEPT ![u] = "asleep"]
    /\ UNCHANGED <<queueVars, offline, pool, logins, carData, tcpVars, historyVars>>

\* The connection it closed is still closed when it asks for it after waking up.
WakeUp(u) ==
    /\ upc[u] = "asleep"
    /\ offline' = FALSE
    /\ upc' = [upc EXCEPT ![u] = "login"]
    /\ UNCHANGED <<queueVars, pool, linkVars, logins, carData, tcpVars, historyVars>>

CheckConnection(u) ==
    /\ upc[u] = "top"
    /\ ~(Mode = "platformCompliance" /\ offline)
    /\ upc' = [upc EXCEPT ![u] = IF connected[u] THEN "choose" ELSE "login"]
    /\ UNCHANGED <<queueVars, offline, pool, linkVars, logins, carData, tcpVars, historyVars>>

Connect_WithoutLogin(u) ==
    /\ upc[u] = "setup"
    /\ connected' = [connected EXCEPT ![u] = TRUE]
    /\ upc' = [upc EXCEPT ![u] = "choose"]
    /\ UNCHANGED <<queueVars, offline, pool, loggedIn, logins, carData, tcpVars, historyVars>>

\* setupConnection: it tries for ever while the platform refuses the connection.
Connect(u) ==
    /\ upc[u] = "setup"
    /\ connected' = [connected EXCEPT ![u] = TRUE]
    /\ upc' = [upc EXCEPT ![u] = "login"]
    /\ UNCHANGED <<queueVars, offline, pool, loggedIn, logins, carData, tcpVars, historyVars>>

\* The loop of setupConnAndLogin finds that it has no connection.
NeedsConnection(u) ==
    /\ upc[u] = "login"
    /\ ~connected[u]
    /\ upc' = [upc EXCEPT ![u] = "setup"]
    /\ UNCHANGED <<queueVars, offline, pool, linkVars, logins, carData, tcpVars, historyVars>>

\* The platform accepted the login: setupConnAndLogin returns, to the practice loop of the
\* preamble, to the end of the preamble or to the place in the main loop it was called from.
\* The connection may have broken after the answer came.
LoginOk(u) ==
    /\ upc[u] = "login"
    /\ loggedIn' = [loggedIn EXCEPT ![u] = connected[u]]
    /\ upc' = [upc EXCEPT ![u] = IF logins[u] = 0 THEN "choose"
                                 ELSE IF logins[u] = 1 THEN "top" ELSE "logout"]
    /\ logins' = [logins EXCEPT ![u] = IF @ = 1 THEN 0 ELSE @]
    /\ UNCHANGED <<queueVars, offline, pool, connected, carData, tcpVars, historyVars>>

LogoutOk_LastLoginForgotten(u) ==
    /\ upc[u] = "logout"
    /\ loggedIn' = [loggedIn EXCEPT ![u] = FALSE]
    /\ logins' = [logins EXCEPT ![u] = IF @ = 2 THEN 0 ELSE @ - 1]
    /\ upc' = [upc EXCEPT ![u] = IF logins[u] = 2 THEN "top" ELSE "login"]
    /\ UNCHANGED <<queueVars, offline, pool, connected, carData, tcpVars, historyVars>>

LogoutOk(u) ==
    /\ upc[u] = "logout"
    /\ loggedIn' = [loggedIn EXCEPT ![u] = FALSE]
    /\ logins' = [logins EXCEPT ![u] = @ - 1]
    /\ upc' = [upc EXCEPT ![u] = "login"]
    /\ UNCHANGED <<queueVars, offline, pool, connected, carData, tcpVars, historyVars>>

\* connect fails otherwise than by a refusal, the platform rejects the login or does not
\* acknowledge the logout, or outputMsg fails after a packet was written: an exception ends
\* run, and the connection is closed.
Quit(u) ==
    /\ upc[u] \in {"setup", "login", "logout", "top"}
    /\ connected' = [connected EXCEPT ![u] = FALSE]
    /\ loggedIn' = [loggedIn EXCEPT ![u] = FALSE]
    /\ upc' = [upc EXCEPT ![u] = "stopped"]
    /\ UNCHANGED <<queueVars, offline, pool, logins, carData, tcpVars, historyVars>>

ChooseQueue_Inverted(u) ==
    /\ upc[u] = "choose"
    /\ IF reissue_queue = <<>>
       THEN upc' = [upc EXCEPT ![u] = "takeReissue"]
       ELSE upc' = [upc EXCEPT ![u] = "takeRealtime"]
    /\ UNCHANGED <<queueVars, offline, pool, linkVars, logins, carData, tcpVars, historyVars>>

ChooseQueue_RealtimeOnly(u) ==
    /\ upc[u] = "choose"
    /\ upc' = [upc EXCEPT ![u] = "takeRealtime"]
    /\ UNCHANGED <<queueVars, offline, pool, linkVars, logins, carData, tcpVars, historyVars>>

\* The isEmpty of line 123.
ChooseQueue(u) ==
    /\ upc[u] = "choose"
    /\ IF reissue_queue = <<>>
       THEN upc' = [upc EXCEPT ![u] = "takeRealtime"] /\ UNCHANGED seen
       ELSE /\ upc' = [upc EXCEPT ![u] = "takeReissue"]
            /\ seen' = [seen EXCEPT ![u] = Head(reissue_queue).id]
    /\ UNCHANGED <<queueVars, offline, pool, linkVars, logins, carData, tcpVars, arrived, late, sent>>

TakeRealtime(u) ==
    /\ upc[u] = "takeRealtime"
    /\ realtime_queue # <<>>
    /\ carData' = [carData EXCEPT ![u] = Head(realtime_queue)]
    /\ realtime_queue' = Tail(realtime_queue)
    /\ upc' = [upc EXCEPT ![u] = "send"]
    /\ UNCHANGED <<reissue_queue, offline, pool, linkVars, logins, tcpVars, historyVars>>

AsReissue_CommandKept(p) == p

\* A realtime upload that goes out late is made a reissue upload.
AsReissue(p) == IF p.cmd = realtimeUpload THEN [p EXCEPT !.cmd = reissueUpload] ELSE p

TakeReissue_WithoutPop(u) ==
    /\ upc[u] = "takeReissue"
    /\ reissue_queue # <<>>
    /\ carData' = [carData EXCEPT ![u] = AsReissue(Head(reissue_queue))]
    /\ upc' = [upc EXCEPT ![u] = "send"]
    /\ seen' = [seen EXCEPT ![u] = 0]
    /\ UNCHANGED <<queueVars, offline, pool, linkVars, logins, tcpVars, arrived, late, sent>>

TakeReissue(u) ==
    /\ upc[u] = "takeReissue"
    /\ reissue_queue # <<>>
    /\ carData' = [carData EXCEPT ![u] = AsReissue(Head(reissue_queue))]
    /\ reissue_queue' = Tail(reissue_queue)
    /\ upc' = [upc EXCEPT ![u] = "send"]
    /\ seen' = [seen EXCEPT ![u] = 0]
    /\ UNCHANGED <<realtime_queue, offline, pool, linkVars, logins, tcpVars, arrived, late, sent>>

SendOk(u) ==
    /\ upc[u] = "send"
    /\ connected[u]
    /\ sent' = Append(sent, [id |-> carData[u].id, cmd |-> carData[u].cmd, by |-> u])
    /\ carData' = [carData EXCEPT ![u] = NoPacket]
    /\ upc' = [upc EXCEPT ![u] = "top"]
    /\ UNCHANGED <<queueVars, offline, pool, linkVars, logins, tcpVars, arrived, late, seen>>

SendFails_PacketDropped(u) ==
    /\ upc[u] = "send"
    /\ connected' = [connected EXCEPT ![u] = FALSE]
    /\ loggedIn' = [loggedIn EXCEPT ![u] = FALSE]
    /\ carData' = [carData EXCEPT ![u] = NoPacket]
    /\ upc' = [upc EXCEPT ![u] = "top"]
    /\ UNCHANGED <<queueVars, offline, pool, logins, tcpVars, historyVars>>

\* tcpSendData catches the SocketException and leaves the status connectionClosed.
SendFails(u) ==
    /\ upc[u] = "send"
    /\ connected' = [connected EXCEPT ![u] = FALSE]
    /\ loggedIn' = [loggedIn EXCEPT ![u] = FALSE]
    /\ upc' = [upc EXCEPT ![u] = "putBack"]
    /\ UNCHANGED <<queueVars, offline, pool, logins, carData, tcpVars, historyVars>>

\* Any other exception ends run, which closes the connection; the packet stays in m_carData,
\* and there it ends with the uploader.
SendThrows(u) ==
    /\ upc[u] = "send"
    /\ connected' = [connected EXCEPT ![u] = FALSE]
    /\ loggedIn' = [loggedIn EXCEPT ![u] = FALSE]
    /\ upc' = [upc EXCEPT ![u] = "stopped"]
    /\ UNCHANGED <<queueVars, offline, pool, logins, carData, tcpVars, historyVars>>

PutBack_WithoutWaiting(u) ==
    /\ upc[u] = "putBack"
    /\ reissue_queue' = <<carData[u]>> \o reissue_queue
    /\ late' = late \cup {carData[u].id}
    /\ carData' = [carData EXCEPT ![u] = NoPacket]
    /\ upc' = [upc EXCEPT ![u] = "top"]
    /\ UNCHANGED <<realtime_queue, offline, pool, linkVars, logins, tcpVars, arrived, sent, seen>>

\* forwardCarData puts the packet at the front of the reissue queue.
PutBack(u) ==
    /\ upc[u] = "putBack"
    /\ Len(reissue_queue) < Capacity
    /\ reissue_queue' = <<carData[u]>> \o reissue_queue
    /\ late' = late \cup {carData[u].id}
    /\ carData' = [carData EXCEPT ![u] = NoPacket]
    /\ upc' = [upc EXCEPT ![u] = "top"]
    /\ UNCHANGED <<realtime_queue, offline, pool, linkVars, logins, tcpVars, arrived, sent, seen>>

\* The connection breaks, and the ResponseReader blocked in read finds it out.
Drop(u) ==
    /\ connected[u]
    /\ connected' = [connected EXCEPT ![u] = FALSE]
    /\ loggedIn' = [loggedIn EXCEPT ![u] = FALSE]
    /\ UNCHANGED <<queueVars, offline, pool, uploaderVars, tcpVars, historyVars>>

\* What the uploader's thread does by itself, once it is scheduled.
UploaderStep(u) ==
    \/ GoOffline(u) \/ WakeUp(u) \/ CheckConnection(u) \/ NeedsConnection(u)
    \/ ChooseQueue(u) \/ TakeRealtime(u) \/ TakeReissue(u)
    \/ SendOk(u) \/ SendFails(u) \/ PutBack(u)

\* What the public platform and the network decide, and what goes wrong.
PlatformStep(u) ==
    Connect(u) \/ LoginOk(u) \/ LogoutOk(u) \/ Quit(u) \/ SendThrows(u) \/ Drop(u)

-----------------------------------------------------------------------------
Next ==
    \/ Receive
    \/ TcpStep
    \/ \E u \in Uploaders : UploaderStep(u) \/ PlatformStep(u)
    \/ Sigusr1
    \/ StartUploader
    \/ PushUploader

Spec == Init /\ [][Next]_vars

\* Threads run, and with a single uploader a take or put that stays possible is done: no
\* other thread waits for the same condition (NoLostWakeup of BlockQueue).  The platform
\* need not accept a connection or a login, and vehicles need not send.
FairSpec == Spec /\ WF_vars(TcpStep) /\ \A u \in Uploaders : WF_vars(UploaderStep(u))

-----------------------------------------------------------------------------
TypeOK ==
    /\ realtime_queue \in Seq(Packets) /\ Len(realtime_queue) <= Capacity
    /\ reissue_queue \in Seq(Packets) /\ Len(reissue_queue) <= Capacity
    /\ offline \in BOOLEAN
    /\ pool \in 1 .. N
    /\ connected \in [Uploaders -> BOOLEAN]
    /\ loggedIn \in [Uploaders -> BOOLEAN]
    /\ upc \in [Uploaders -> {"unstarted", "top", "asleep", "setup", "login", "logout", "choose",
                              "takeRealtime", "takeReissue", "send", "putBack", "stopped"}]
    /\ logins \in [Uploaders -> 0 .. Rounds + 1]
    /\ \A u \in Uploaders : upc[u] = "logout" => logins[u] > 1
    /\ carData \in [Uploaders -> Packets \cup {NoPacket}]
    /\ \A u \in Uploaders :
           /\ upc[u] \in {"send", "putBack"} => carData[u] # NoPacket
           /\ carData[u] # NoPacket => upc[u] \in {"send", "putBack", "stopped"}
    /\ tpc \in {"idle", "scan", "drainTest", "drainTake", "drainPut", "putReissue", "putRealtime"}
    /\ scanEnd \in 1 .. pool
    /\ scanned \in 0 .. scanEnd - 1
    /\ packet \in Packets \cup {NoPacket} /\ (packet = NoPacket <=> tpc = "idle")
    /\ moving \in Packets \cup {NoPacket} /\ (moving = NoPacket <=> tpc # "drainPut")
    /\ arrived \in Seq(Cmds)
    /\ late \subseteq Nat \ {0}
    /\ sent \in Seq([id : Nat \ {0}, cmd : Cmds, by : Uploaders])
    /\ seen \in [Uploaders -> Nat]

\* Where a packet can be, and what is there.
Holders == {<<"realtime", 0>>, <<"reissue", 0>>, <<"packet", 0>>, <<"moving", 0>>, <<"sent", 0>>}
           \cup {"carData"} \X Uploaders

OneOrNone(p) == IF p = NoPacket THEN <<>> ELSE <<p>>

Content(h) == CASE h[1] = "realtime" -> realtime_queue
                [] h[1] = "reissue"  -> reissue_queue
                [] h[1] = "packet"   -> OneOrNone(packet)
                [] h[1] = "moving"   -> OneOrNone(moving)
                [] h[1] = "sent"     -> sent
                [] h[1] = "carData"  -> OneOrNone(carData[h[2]])

Held == [h \in Holders |-> Content(h)]

\* Every packet a vehicle was relieved of is in exactly one place: it waits in a queue, is
\* in the hands of one thread, or was written to the platform.  Drops, drains, put-backs
\* and the ends of uploaders neither lose nor double one.  (In the hands of an uploader that
\* has ended it is of no use: nobody looks there.)
NothingLost ==
    \A i \in 1 .. Len(arrived) : \E h \in Holders : \E k \in DOMAIN Held[h] : Held[h][k].id = i

NothingDoubled ==
    \A g, h \in Holders : \A j \in DOMAIN Held[g], k \in DOMAIN Held[h] :
        Held[g][j].id = Held[h][k].id => g = h /\ j = k

Conservation == NothingLost /\ NothingDoubled

\* No data goes out on a connection on which setupConnAndLogin has not returned, whatever
\* drops and logins happen between the check of the connection and the write.
DataFollowsLogin ==
    [][sent' # sent => loggedIn[sent'[Len(sent')].by]]_vars

\* Seen from outside, the threads relay: each packet at most once, with the reissue command
\* if it is late, and in order of arrival on its channel if it is not.
R == INSTANCE Relay WITH Uploaders <- Uploaders, arrived <- arrived, late <- late, sent <- sent

RefinesRelay == R!Spec

\* Where u is in the eyes of Uplink: the main loop is all that is not setup, login or logout.
Phase(u) == CASE upc[u] \in {"unstarted", "setup", "login"} -> "login"
              [] upc[u] \in {"logout", "stopped"}             -> upc[u]
              [] OTHER                                        -> "in"

\* logins counts the last login, after which there is no logout.
RoundsLeft(u) == IF logins[u] = 0 THEN 0 ELSE logins[u] - 1

L == INSTANCE Uplink WITH
        Uploaders <- Uploaders, Rounds <- Rounds, connected <- connected,
        phase <- [u \in Uploaders |-> Phase(u)], rounds <- [u \in Uploaders |-> RoundsLeft(u)]

\* Among signals, drops, refusals and failed writes, each uploader uses its connection as
\* Uplink says: none is set up but to log in, and none carries data before that is done.
RefinesUplink == L!Spec

Serving(u) == connected[u] /\ loggedIn[u] /\ logins[u] = 0

InRealtime(i) == \E k \in DOMAIN realtime_queue : realtime_queue[k].id = i

\* While the connection lasts, with its login done, no packet stays in the realtime queue.
RealtimeIsServed ==
    <>[](\A u \in Uploaders : Serving(u)) =>
        \A i \in 1 .. NPackets : InRealtime(i) ~> ~InRealtime(i)

InReissue(i) == \E k \in DOMAIN reissue_queue : reissue_queue[k].id = i

TakenBy(v, i) ==
    \/ carData[v] # NoPacket /\ carData[v].id = i
    \/ \E k \in DOMAIN sent : sent[k].id = i /\ sent[k].by = v

\* Between isEmpty and take a packet that was seen in the reissue queue can go only one way:
\* another uploader took it, and has it in hand or wrote it.  It is never lost in between, and
\* with the only uploader of the release mode it is still there: the take does not block.
SeenIsTaken ==
    \A u \in Uploaders :
        upc[u] = "takeReissue" =>
            InReissue(seen[u]) \/ \E v \in Uploaders \ {u} : TakenBy(v, seen[u])

\* While the connection lasts, with its login done, late data is forwarded too, unless the
\* uploader already waits for realtime data when it comes: all of it goes out before the
\* uploader looks at the realtime queue again.
ReissueIsServed ==
    <>[](\A u \in Uploaders : Serving(u)) =>
        \A i \in 1 .. NPackets :
            InReissue(i) /\ (\A u \in Uploaders : upc[u] # "takeRealtime") ~> ~InReissue(i)

-----------------------------------------------------------------------------
(* What the comments of the code say and the code does not do.             *)

\* TcpSession.cpp:149: all data received while offline goes to the reissue queue.  (Let
\* Capacity be at least NPackets, so that no queue is ever full.)
OfflineDataIsReissued ==
    \A i \in 1 .. NPackets :
        tpc = "drainTest" /\ packet.id = i ~> tpc \notin {"drainTest", "drainTake", "drainPut"}

\* configurtion.ini:43: a broken connection is set up again after some seconds.  While
\* vehicles go on sending, an uploader that waits for a packet and has lost its connection
\* at least leaves the wait, for only then it can connect again.  (The bound lets enough
\* packets come to fill both queues.)
BusySpec == FairSpec /\ WF_vars(Receive)

WaitingUploaderReconnects ==
    \A u \in Uploaders :
        upc[u] = "takeRealtime" /\ ~connected[u] /\ Len(arrived) + Capacity + 2 <= NPackets
            ~> upc[u] # "takeRealtime"
=============================================================================
