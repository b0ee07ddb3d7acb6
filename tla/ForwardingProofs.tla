-------------------------- MODULE ForwardingProofs --------------------------
(***************************************************************************)
(* What holds of Forwarding for every number of uploaders, capacity,       *)
(* number of packets, mode and set of commands.                            *)
(***************************************************************************)
EXTENDS Forwarding, SequenceTheorems, TLAPS

USE ForwardingAssumption

\* The steps that touch no queue and no packet: they move program counters, flags and
\* connections, and ChooseQueue notes the packet it saw.
ControlStep(u) ==
    \/ GoOffline(u) \/ WakeUp(u) \/ CheckConnection(u) \/ Connect(u) \/ NeedsConnection(u)
    \/ LoginOk(u) \/ LogoutOk(u) \/ Quit(u) \/ ChooseQueue(u)
    \/ SendFails(u) \/ SendThrows(u) \/ Drop(u)

LEMMA NextCases ==
    ASSUME [Next]_vars
    PROVE  \/ Sigusr1 \/ StartUploader \/ PushUploader
           \/ Receive
           \/ ScanFindsConnection \/ ScanGoesOn \/ DrainTest
           \/ DrainTake \/ DrainPut \/ PutReissue \/ PutRealtime
           \/ \E u \in Uploaders : \/ ControlStep(u)
                                   \/ TakeRealtime(u) \/ TakeReissue(u)
                                   \/ SendOk(u) \/ PutBack(u)
           \/ UNCHANGED vars
BY DEF Next, TcpStep, UploaderStep, PlatformStep, ControlStep

\* A queue with room takes one more packet at either end, and gives up its first.
LEMMA QueueAppend ==
    ASSUME NEW q \in Seq(Packets), NEW p \in Packets, Len(q) < Capacity
    PROVE  Append(q, p) \in Seq(Packets) /\ Len(Append(q, p)) <= Capacity
BY AppendProperties, LenProperties

LEMMA QueuePutFront ==
    ASSUME NEW q \in Seq(Packets), NEW p \in Packets, Len(q) < Capacity
    PROVE  <<p>> \o q \in Seq(Packets) /\ Len(<<p>> \o q) <= Capacity
<1>1. <<p>> \in Seq(Packets) /\ Len(<<p>>) = 1  OBVIOUS
<1>2. <<p>> \o q \in Seq(Packets) /\ Len(<<p>> \o q) = 1 + Len(q)
  BY <1>1, ConcatProperties
<1>3. Len(q) \in Nat  BY LenProperties
<1>4. QED  BY <1>2, <1>3

LEMMA QueueTake ==
    ASSUME NEW q \in Seq(Packets), q # <<>>, Len(q) <= Capacity
    PROVE  Head(q) \in Packets /\ Tail(q) \in Seq(Packets) /\ Len(Tail(q)) <= Capacity
<1>1. Head(q) \in Packets /\ Tail(q) \in Seq(Packets) /\ Len(Tail(q)) = Len(q) - 1
  BY HeadTailProperties
<1>2. Len(q) \in Nat  BY LenProperties
<1>3. QED  BY <1>1, <1>2

LEMMA AsReissueType ==
    ASSUME NEW p \in Packets
    PROVE  AsReissue(p) \in Packets /\ AsReissue(p).id = p.id
BY DEF AsReissue, Packets

-----------------------------------------------------------------------------
LEMMA TypeInit == Init => TypeOK
<1> SUFFICES ASSUME Init
             PROVE  TypeOK
  OBVIOUS
<1>1. /\ realtime_queue \in Seq(Packets) /\ Len(realtime_queue) <= Capacity
      /\ reissue_queue \in Seq(Packets) /\ Len(reissue_queue) <= Capacity
      /\ arrived \in Seq(Cmds)
      /\ sent \in Seq([id : Nat \ {0}, cmd : Cmds, by : Uploaders])
  BY DEF Init
<1>2. /\ connected \in [Uploaders -> BOOLEAN] /\ loggedIn \in [Uploaders -> BOOLEAN]
      /\ carData \in [Uploaders -> Packets \cup {NoPacket}]
      /\ seen \in [Uploaders -> Nat]
  BY DEF Init
<1>3. \A u \in Uploaders : /\ upc[u] \in {"unstarted", "top", "setup"}
                           /\ logins[u] \in 0 .. Rounds + 1
                           /\ carData[u] = NoPacket
  BY DEF Init
<1>4. /\ upc = [u \in Uploaders |-> upc[u]]
      /\ logins = [u \in Uploaders |-> logins[u]]
  BY DEF Init
<1>5. /\ upc \in [Uploaders -> {"unstarted", "top", "setup"}]
      /\ logins \in [Uploaders -> 0 .. Rounds + 1]
  BY <1>3, <1>4, Zenon
<1>6. /\ upc \in [Uploaders -> {"unstarted", "top", "asleep", "setup", "login", "logout",
                             "choose", "takeRealtime", "takeReissue", "send", "putBack",
                             "stopped"}]
      /\ \A u \in Uploaders : upc[u] = "logout" => logins[u] > 1
      /\ \A u \in Uploaders :
             /\ upc[u] \in {"send", "putBack"} => carData[u] # NoPacket
             /\ carData[u] # NoPacket => upc[u] \in {"send", "putBack", "stopped"}
  BY <1>3, <1>5
<1>7. /\ offline = FALSE /\ pool = 1 /\ scanned = 0 /\ scanEnd = 1
      /\ tpc = "idle" /\ packet = NoPacket /\ moving = NoPacket /\ late = {}
  BY DEF Init
<1>8. offline \in BOOLEAN  BY <1>7, Zenon
<1>9. pool \in 1 .. N /\ scanEnd \in 1 .. pool /\ scanned \in 0 .. scanEnd - 1  BY <1>7
<1>10. QED  BY <1>1, <1>2, <1>5, <1>6, <1>7, <1>8, <1>9 DEF TypeOK

LEMMA TypeStep == TypeOK /\ [Next]_vars => TypeOK'
<1> SUFFICES ASSUME TypeOK, [Next]_vars
             PROVE  TypeOK'
  OBVIOUS
<1> USE DEF TypeOK, queueVars, tcpVars, scanVars, linkVars, uploaderVars, historyVars
<1>1. ASSUME Sigusr1
      PROVE  TypeOK'
  BY <1>1 DEF Sigusr1
<1>2. ASSUME StartUploader
      PROVE  TypeOK'
  BY <1>2 DEF StartUploader
<1>3. ASSUME PushUploader
      PROVE  TypeOK'
  <2>1. pool' \in 1 .. N /\ scanEnd \in 1 .. pool'  BY <1>3 DEF PushUploader
  <2>2. QED  BY <1>3, <2>1 DEF PushUploader
<1>4. ASSUME Receive
      PROVE  TypeOK'
  <2>1. PICK c \in Cmds : /\ packet' = [id |-> Len(arrived) + 1, cmd |-> c]
                          /\ arrived' = Append(arrived, c)
    BY <1>4 DEF Receive
  <2>2. Len(arrived) + 1 \in Nat \ {0}  BY LenProperties
  <2>3. packet' \in Packets /\ packet' # NoPacket  BY <2>1, <2>2 DEF Packets
  <2>4. arrived' \in Seq(Cmds)  BY <2>1, AppendProperties
  <2>5. QED  BY <1>4, <2>3, <2>4 DEF Receive
<1>5. ASSUME ScanFindsConnection
      PROVE  TypeOK'
  BY <1>5 DEF ScanFindsConnection
<1>6. ASSUME ScanGoesOn
      PROVE  TypeOK'
  BY <1>6 DEF ScanGoesOn
<1>7. ASSUME DrainTest
      PROVE  TypeOK'
  BY <1>7 DEF DrainTest
<1>8. ASSUME DrainTake
      PROVE  TypeOK'
  <2>1. /\ Head(realtime_queue) \in Packets
        /\ Tail(realtime_queue) \in Seq(Packets)
        /\ Len(Tail(realtime_queue)) <= Capacity
    BY <1>8, QueueTake DEF DrainTake
  <2>2. Head(realtime_queue) # NoPacket  BY <2>1 DEF Packets
  <2>3. QED  BY <1>8, <2>1, <2>2 DEF DrainTake
<1>9. ASSUME DrainPut
      PROVE  TypeOK'
  <2>1. moving \in Packets /\ moving.id \in Nat \ {0}  BY <1>9 DEF DrainPut, Packets
  <2>2. /\ Append(reissue_queue, moving) \in Seq(Packets)
        /\ Len(Append(reissue_queue, moving)) <= Capacity
    BY <1>9, <2>1, QueueAppend DEF DrainPut
  <2>3. QED  BY <1>9, <2>1, <2>2 DEF DrainPut
<1>10. ASSUME PutReissue
       PROVE  TypeOK'
  <2>1. packet \in Packets /\ packet.id \in Nat \ {0}  BY <1>10 DEF PutReissue, Packets
  <2>2. /\ Append(reissue_queue, packet) \in Seq(Packets)
        /\ Len(Append(reissue_queue, packet)) <= Capacity
    BY <1>10, <2>1, QueueAppend DEF PutReissue
  <2>3. QED  BY <1>10, <2>1, <2>2 DEF PutReissue
<1>11. ASSUME PutRealtime
       PROVE  TypeOK'
  <2>1. packet \in Packets  BY <1>11 DEF PutRealtime
  <2>2. /\ Append(realtime_queue, packet) \in Seq(Packets)
        /\ Len(Append(realtime_queue, packet)) <= Capacity
    BY <1>11, <2>1, QueueAppend DEF PutRealtime
  <2>3. QED  BY <1>11, <2>1, <2>2 DEF PutRealtime
<1>12. ASSUME NEW u \in Uploaders, ControlStep(u)
       PROVE  TypeOK'
  <2>1. CASE GoOffline(u)  BY <2>1 DEF GoOffline
  <2>2. CASE WakeUp(u)  BY <2>2 DEF WakeUp
  <2>3. CASE CheckConnection(u)  BY <2>3 DEF CheckConnection
  <2>4. CASE Connect(u)  BY <2>4 DEF Connect
  <2>5. CASE NeedsConnection(u)  BY <2>5 DEF NeedsConnection
  <2>6. CASE LoginOk(u)
    <3>1. logins[u] \in 0 .. Rounds + 1 /\ carData[u] = NoPacket  BY <2>6 DEF LoginOk
    <3>2. /\ \A v \in Uploaders : logins'[v] \in 0 .. Rounds + 1
          /\ logins' \in [Uploaders -> 0 .. Rounds + 1]
      BY <2>6, <3>1 DEF LoginOk
    <3>3. upc'[u] = "logout" => logins'[u] > 1
      <4>1. upc'[u] = "logout" => logins[u] # 0 /\ logins[u] # 1  BY <2>6 DEF LoginOk
      <4>2. logins[u] # 1 => logins'[u] = logins[u]  BY <2>6 DEF LoginOk
      <4>3. \A n \in 0 .. Rounds + 1 : n # 0 /\ n # 1 => n > 1  OBVIOUS
      <4>4. QED  BY <3>1, <4>1, <4>2, <4>3, Zenon
    <3>4. upc'[u] \in {"choose", "top", "logout"}  BY <2>6 DEF LoginOk
    <3>5. QED  BY <2>6, <3>1, <3>2, <3>3, <3>4 DEF LoginOk
  <2>7. CASE LogoutOk(u)  BY <2>7 DEF LogoutOk
  <2>8. CASE Quit(u)  BY <2>8 DEF Quit
  <2>9. CASE ChooseQueue(u)
    <3>1. CASE reissue_queue = <<>>  BY <2>9, <3>1 DEF ChooseQueue
    <3>2. CASE reissue_queue # <<>>
      <4>1. Head(reissue_queue).id \in Nat  BY <3>2, QueueTake DEF Packets
      <4>2. QED  BY <2>9, <3>2, <4>1 DEF ChooseQueue
    <3>3. QED  BY <3>1, <3>2
  <2>10. CASE SendFails(u)  BY <2>10 DEF SendFails
  <2>11. CASE SendThrows(u)  BY <2>11 DEF SendThrows
  <2>12. CASE Drop(u)  BY <2>12 DEF Drop
  <2>13. QED
    BY <1>12, <2>1, <2>2, <2>3, <2>4, <2>5, <2>6, <2>7, <2>8, <2>9, <2>10, <2>11, <2>12
    DEF ControlStep
<1>13. ASSUME NEW u \in Uploaders, TakeRealtime(u)
       PROVE  TypeOK'
  <2>1. /\ Head(realtime_queue) \in Packets
        /\ Tail(realtime_queue) \in Seq(Packets)
        /\ Len(Tail(realtime_queue)) <= Capacity
    BY <1>13, QueueTake DEF TakeRealtime
  <2>2. Head(realtime_queue) # NoPacket  BY <2>1 DEF Packets
  <2>3. QED  BY <1>13, <2>1, <2>2 DEF TakeRealtime
<1>14. ASSUME NEW u \in Uploaders, TakeReissue(u)
       PROVE  TypeOK'
  <2>1. /\ Head(reissue_queue) \in Packets
        /\ Tail(reissue_queue) \in Seq(Packets)
        /\ Len(Tail(reissue_queue)) <= Capacity
    BY <1>14, QueueTake DEF TakeReissue
  <2>2. AsReissue(Head(reissue_queue)) \in Packets  BY <2>1, AsReissueType
  <2>3. AsReissue(Head(reissue_queue)) # NoPacket  BY <2>2 DEF Packets
  <2>4. QED  BY <1>14, <2>1, <2>2, <2>3 DEF TakeReissue
<1>15. ASSUME NEW u \in Uploaders, SendOk(u)
       PROVE  TypeOK'
  <2>1. carData[u] \in Packets  BY <1>15 DEF SendOk
  <2>2. [id |-> carData[u].id, cmd |-> carData[u].cmd, by |-> u]
            \in [id : Nat \ {0}, cmd : Cmds, by : Uploaders]
    BY <2>1 DEF Packets
  <2>3. sent' \in Seq([id : Nat \ {0}, cmd : Cmds, by : Uploaders])
    BY <1>15, <2>2, AppendProperties DEF SendOk
  <2>4. QED  BY <1>15, <2>3 DEF SendOk
<1>16. ASSUME NEW u \in Uploaders, PutBack(u)
       PROVE  TypeOK'
  <2>1. carData[u] \in Packets /\ carData[u].id \in Nat \ {0}  BY <1>16 DEF PutBack, Packets
  <2>2. /\ <<carData[u]>> \o reissue_queue \in Seq(Packets)
        /\ Len(<<carData[u]>> \o reissue_queue) <= Capacity
    BY <1>16, <2>1, QueuePutFront DEF PutBack
  <2>3. QED  BY <1>16, <2>1, <2>2 DEF PutBack
<1>17. ASSUME UNCHANGED vars
       PROVE  TypeOK'
  BY <1>17 DEF vars
<1>18. QED
  BY <1>1, <1>2, <1>3, <1>4, <1>5, <1>6, <1>7, <1>8, <1>9, <1>10, <1>11, <1>12, <1>13, <1>14,
     <1>15, <1>16, <1>17, NextCases

\* Every variable keeps its type, no queue outgrows its capacity, and a thread holds a packet
\* exactly while it is between taking it over and handing it on.
THEOREM TypeCorrect == Spec => []TypeOK
BY TypeInit, TypeStep, PTL DEF Spec
-----------------------------------------------------------------------------
\* Past the login, an uploader that has its connection has logged in on it: a connection that
\* breaks is only set up again by setupConnAndLogin.
LoginInv ==
    \A u \in Uploaders :
        upc[u] \notin {"unstarted", "setup", "login", "logout", "stopped"} /\ connected[u]
            => loggedIn[u]

LEMMA LoginStep == TypeOK /\ LoginInv /\ [Next]_vars => LoginInv'
<1> SUFFICES ASSUME TypeOK, LoginInv, [Next]_vars
             PROVE  LoginInv'
  OBVIOUS
<1> USE DEF TypeOK, LoginInv, queueVars, tcpVars, scanVars, linkVars, uploaderVars, historyVars
<1>1. CASE UNCHANGED <<upc, connected, loggedIn>>
  BY <1>1
<1>2. ASSUME StartUploader
      PROVE  LoginInv'
  BY <1>2 DEF StartUploader
<1>3. ASSUME NEW u \in Uploaders, ControlStep(u)
      PROVE  LoginInv'
  BY <1>3 DEF ControlStep, GoOffline, WakeUp, CheckConnection, Connect, NeedsConnection, LoginOk,
              LogoutOk, Quit, ChooseQueue, SendFails, SendThrows, Drop
<1>4. ASSUME NEW u \in Uploaders, TakeRealtime(u) \/ TakeReissue(u) \/ SendOk(u) \/ PutBack(u)
      PROVE  LoginInv'
  BY <1>4 DEF TakeRealtime, TakeReissue, SendOk, PutBack
<1>5. QED
  BY <1>1, <1>2, <1>3, <1>4, NextCases
  DEF Sigusr1, PushUploader, Receive, ScanFindsConnection, ScanGoesOn, DrainTest, DrainTake,
      DrainPut, PutReissue, PutRealtime, vars

\* Only SendOk writes, and it writes where it is connected.
LEMMA WritesOnItsConnection ==
    ASSUME TypeOK, [Next]_vars, sent' # sent
    PROVE  \E u \in Uploaders : SendOk(u) /\ sent'[Len(sent')].by = u
<1>1. PICK u \in Uploaders : SendOk(u)
  BY NextCases
  DEF Sigusr1, StartUploader, PushUploader, Receive, ScanFindsConnection, ScanGoesOn, DrainTest,
      DrainTake, DrainPut, PutReissue, PutRealtime, ControlStep, GoOffline, WakeUp,
      CheckConnection, Connect, NeedsConnection, LoginOk, LogoutOk, Quit, ChooseQueue, SendFails,
      SendThrows, Drop, TakeRealtime, TakeReissue, PutBack, vars, historyVars
<1>2. carData[u] \in Packets  BY <1>1 DEF SendOk, TypeOK
<1>3. [id |-> carData[u].id, cmd |-> carData[u].cmd, by |-> u]
          \in [id : Nat \ {0}, cmd : Cmds, by : Uploaders]
  BY <1>2 DEF Packets
<1>4. sent'[Len(sent')] = [id |-> carData[u].id, cmd |-> carData[u].cmd, by |-> u]
  BY <1>1, <1>3, AppendProperties DEF SendOk, TypeOK
<1>5. QED  BY <1>1, <1>4

\* No data goes out before the login, for any number of uploaders and signals: whatever drops
\* between the check of the connection and the write, a connection that is there when the
\* packet is written is one setupConnAndLogin has returned from.
THEOREM DataOnlyAfterLogin == Spec => DataFollowsLogin
<1>1. Init => LoginInv
  <2> SUFFICES ASSUME Init
               PROVE  LoginInv
    OBVIOUS
  <2>1. \A u \in Uploaders : connected[u] = FALSE  BY DEF Init
  <2>2. QED  BY <2>1 DEF LoginInv
<1>2. TypeOK /\ LoginInv /\ [Next]_vars => [sent' # sent => loggedIn[sent'[Len(sent')].by]]_vars
  <2> SUFFICES ASSUME TypeOK, LoginInv, [Next]_vars, sent' # sent
               PROVE  loggedIn[sent'[Len(sent')].by]
    OBVIOUS
  <2>1. PICK u \in Uploaders : SendOk(u) /\ sent'[Len(sent')].by = u
    BY WritesOnItsConnection
  <2>2. loggedIn[u]  BY <2>1 DEF SendOk, LoginInv
  <2>3. QED  BY <2>1, <2>2
<1>3. QED  BY <1>1, <1>2, TypeCorrect, LoginStep, PTL DEF Spec, DataFollowsLogin
-----------------------------------------------------------------------------
\* An uploader that sleeps closed its connection before, and nobody else sets it up.
AsleepInv == \A u \in Uploaders : upc[u] = "asleep" => ~connected[u]

LEMMA AsleepStep == TypeOK /\ AsleepInv /\ [Next]_vars => AsleepInv'
<1> SUFFICES ASSUME TypeOK, AsleepInv, [Next]_vars
             PROVE  AsleepInv'
  OBVIOUS
<1> USE DEF TypeOK, AsleepInv, queueVars, tcpVars, scanVars, linkVars, uploaderVars, historyVars
<1>1. CASE UNCHANGED <<upc, connected>>
  BY <1>1
<1>2. ASSUME StartUploader
      PROVE  AsleepInv'
  BY <1>2 DEF StartUploader
<1>3. ASSUME NEW u \in Uploaders, ControlStep(u)
      PROVE  AsleepInv'
  <2>1. CASE GoOffline(u)
    <3>1. /\ connected'[u] = FALSE
          /\ \A v \in Uploaders \ {u} : upc'[v] = upc[v] /\ connected'[v] = connected[v]
      BY <2>1 DEF GoOffline
    <3>2. QED  BY <3>1
  <2>2. CASE WakeUp(u) \/ Connect(u)  BY <2>2 DEF WakeUp, Connect
  <2>3. CASE CheckConnection(u) \/ NeedsConnection(u) \/ LoginOk(u) \/ LogoutOk(u)
    <3>1. /\ upc'[u] # "asleep" /\ UNCHANGED connected
          /\ \A v \in Uploaders \ {u} : upc'[v] = upc[v]
      BY <2>3 DEF CheckConnection, NeedsConnection, LoginOk, LogoutOk
    <3>2. QED  BY <3>1
  <2>4. CASE Quit(u) \/ ChooseQueue(u) \/ SendFails(u) \/ SendThrows(u) \/ Drop(u)
    BY <2>4 DEF Quit, ChooseQueue, SendFails, SendThrows, Drop
  <2>5. QED  BY <1>3, <2>1, <2>2, <2>3, <2>4 DEF ControlStep
<1>4. ASSUME NEW u \in Uploaders, TakeRealtime(u) \/ TakeReissue(u) \/ SendOk(u) \/ PutBack(u)
      PROVE  AsleepInv'
  BY <1>4 DEF TakeRealtime, TakeReissue, SendOk, PutBack
<1>5. QED
  BY <1>1, <1>2, <1>3, <1>4, NextCases
  DEF Sigusr1, PushUploader, Receive, ScanFindsConnection, ScanGoesOn, DrainTest, DrainTake,
      DrainPut, PutReissue, PutRealtime, vars

LEMMA UplinkSame ==
    ASSUME UNCHANGED connected, UNCHANGED logins,
           \A u \in Uploaders : Phase(u)' = Phase(u)
    PROVE  UNCHANGED L!vars
BY DEF L!vars, RoundsLeft

LEMMA UplinkControl ==
    ASSUME TypeOK, AsleepInv, NEW u \in Uploaders, ControlStep(u)
    PROVE  [L!Next]_L!vars
<1> USE DEF TypeOK, queueVars, linkVars, uploaderVars, tcpVars, historyVars
<1>1. CASE GoOffline(u) \/ SendFails(u) \/ Drop(u)
  <2>1. /\ connected' = [connected EXCEPT ![u] = FALSE]
        /\ \A v \in Uploaders : Phase(v)' = Phase(v)
        /\ UNCHANGED logins
    BY <1>1 DEF GoOffline, SendFails, SendThrows, Drop, Phase
  <2>2. CASE connected[u]
    <3>1. L!Drop(u)  BY <2>1, <2>2 DEF L!Drop, RoundsLeft
    <3>2. QED  BY <3>1 DEF L!Next
  <2>3. CASE ~connected[u]
    <3>1. UNCHANGED connected  BY <2>1, <2>3
    <3>2. QED  BY <2>1, <3>1, UplinkSame
  <2>4. QED  BY <2>2, <2>3
<1>2. CASE WakeUp(u) \/ (CheckConnection(u) /\ ~connected[u])
  <2>1. L!Relogin(u)
    BY <1>2 DEF WakeUp, CheckConnection, AsleepInv, Phase, RoundsLeft, L!Relogin
  <2>2. QED  BY <2>1 DEF L!Next
<1>3. CASE (CheckConnection(u) /\ connected[u]) \/ NeedsConnection(u) \/ ChooseQueue(u)
  <2>1. /\ UNCHANGED <<connected, logins>>
        /\ \A v \in Uploaders : Phase(v)' = Phase(v)
    BY <1>3 DEF CheckConnection, NeedsConnection, ChooseQueue, Phase
  <2>2. QED  BY <2>1, UplinkSame
<1>4. CASE Connect(u)
  <2>1. CASE ~connected[u]
    <3>1. L!Connect(u)  BY <1>4, <2>1 DEF Connect, Phase, RoundsLeft, L!Connect
    <3>2. QED  BY <3>1 DEF L!Next
  <2>2. CASE connected[u]
    <3>1. /\ UNCHANGED <<connected, logins>>
          /\ \A v \in Uploaders : Phase(v)' = Phase(v)
      BY <1>4, <2>2 DEF Connect, Phase
    <3>2. QED  BY <3>1, UplinkSame
  <2>3. QED  BY <2>1, <2>2
<1>5. CASE LoginOk(u)
  <2>1. /\ Phase(u) = "login"
        /\ \A v \in Uploaders \ {u} : Phase(v)' = Phase(v)
    BY <1>5 DEF LoginOk, Phase
  <2>2. \A v \in Uploaders : RoundsLeft(v)' = RoundsLeft(v)
    BY <1>5 DEF LoginOk, RoundsLeft
  <2>3. Phase(u)' = IF RoundsLeft(u) > 0 THEN "logout" ELSE "in"
    <3>1. logins[u] \in Nat  OBVIOUS
    <3>2. upc'[u] = IF logins[u] = 0 THEN "choose" ELSE IF logins[u] = 1 THEN "top" ELSE "logout"
      BY <1>5 DEF LoginOk
    <3>3. RoundsLeft(u) > 0 <=> logins[u] # 0 /\ logins[u] # 1  BY <3>1 DEF RoundsLeft
    <3>4. QED  BY <3>2, <3>3 DEF Phase
  <2>4. UNCHANGED connected  BY <1>5 DEF LoginOk
  <2>5. L!LoginOk(u)  BY <2>1, <2>2, <2>3, <2>4 DEF L!LoginOk
  <2>6. QED  BY <2>5 DEF L!Next
<1>6. CASE LogoutOk(u)
  <2>1. /\ Phase(u) = "logout" /\ Phase(u)' = "login"
        /\ \A v \in Uploaders \ {u} : Phase(v)' = Phase(v)
    BY <1>6 DEF LogoutOk, Phase
  <2>2. RoundsLeft(u)' = RoundsLeft(u) - 1
    <3>1. logins[u] \in Nat /\ logins[u] > 1  BY <1>6 DEF LogoutOk
    <3>2. logins'[u] = logins[u] - 1  BY <1>6 DEF LogoutOk
    <3>3. QED  BY <3>1, <3>2 DEF RoundsLeft
  <2>3. \A v \in Uploaders \ {u} : RoundsLeft(v)' = RoundsLeft(v)
    BY <1>6 DEF LogoutOk, RoundsLeft
  <2>4. UNCHANGED connected  BY <1>6 DEF LogoutOk
  <2>5. L!LogoutOk(u)  BY <2>1, <2>2, <2>3, <2>4 DEF L!LogoutOk
  <2>6. QED  BY <2>5 DEF L!Next
<1>7. CASE Quit(u) \/ SendThrows(u)
  <2>1. /\ Phase(u) # "stopped" /\ Phase(u)' = "stopped"
        /\ \A v \in Uploaders \ {u} : Phase(v)' = Phase(v)
        /\ connected' = [connected EXCEPT ![u] = FALSE]
        /\ UNCHANGED logins
    BY <1>7 DEF Quit, SendThrows, Phase
  <2>2. L!Quit(u)  BY <2>1 DEF RoundsLeft, L!Quit
  <2>3. QED  BY <2>2 DEF L!Next
<1>8. QED
  BY <1>1, <1>2, <1>3, <1>4, <1>5, <1>6, <1>7 DEF ControlStep

LEMMA UplinkStep == TypeOK /\ AsleepInv /\ [Next]_vars => [L!Next]_L!vars
<1> SUFFICES ASSUME TypeOK, AsleepInv, [Next]_vars
             PROVE  [L!Next]_L!vars
  OBVIOUS
<1> USE DEF TypeOK, queueVars, tcpVars, scanVars, linkVars, uploaderVars, historyVars
<1>1. CASE UNCHANGED <<upc, connected, logins>>
  BY <1>1, UplinkSame DEF Phase
<1>2. CASE StartUploader
  BY <1>2, UplinkSame DEF StartUploader, Phase
<1>3. ASSUME NEW u \in Uploaders, ControlStep(u)
      PROVE  [L!Next]_L!vars
  BY <1>3, UplinkControl
<1>4. ASSUME NEW u \in Uploaders, TakeRealtime(u) \/ TakeReissue(u) \/ SendOk(u) \/ PutBack(u)
      PROVE  [L!Next]_L!vars
  BY <1>4, UplinkSame DEF TakeRealtime, TakeReissue, SendOk, PutBack, Phase
<1>5. QED
  BY <1>1, <1>2, <1>3, <1>4, NextCases
  DEF Sigusr1, PushUploader, Receive, ScanFindsConnection, ScanGoesOn, DrainTest, DrainTake,
      DrainPut, PutReissue, PutRealtime, vars

\* For any number of uploaders, practice rounds and signals, and any drops and failed writes:
\* each uploader uses its connection as Uplink says, and as PlatformLogin does with the
\* inside of a login.
THEOREM ImplementsUplink == Spec => RefinesUplink
<1>1. Init => L!Init
  <2> SUFFICES ASSUME Init
               PROVE  L!Init
    OBVIOUS
  <2>1. \A u \in Uploaders : /\ Phase(u) \in {"login", "in"}
                             /\ RoundsLeft(u) \in {0, Rounds}
                             /\ Phase(u) = "in" => RoundsLeft(u) = 0
    BY DEF Init, Phase, RoundsLeft
  <2>2. QED  BY <2>1 DEF Init, L!Init
<1>2. Init => AsleepInv  BY DEF Init, AsleepInv
<1>3. QED
  BY <1>1, <1>2, AsleepStep, UplinkStep, TypeCorrect, PTL DEF Spec, L!Spec, RefinesUplink
=============================================================================
