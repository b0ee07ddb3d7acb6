---------------------------- MODULE ServiceProofs ----------------------------
(***************************************************************************)
(* What the start and the end of the process leave of the invariants of    *)
(* Forwarding, for every value of the constants: all of them until the     *)
(* exit, and after it all but the conservation of packets.                 *)
(*                                                                         *)
(* A step of the process is a step of Forwarding, a step of main alone, or *)
(* the exit, which breaks all connections and forgets all packets at once. *)
(***************************************************************************)
EXTENDS Service, ForwardingPackets

USE ForwardingAssumption

LEMMA ServiceCases ==
    ASSUME [ServiceNext]_serviceVars
    PROVE  [Next]_vars \/ Exit
BY DEF ServiceNext, MainStep, InstallHandlers, StartWaiting, Woken, StopIoService, JoinTcpThread,
       SigtermKills, AcceptFails, WhileAlive, serviceVars

\* Before the exit the process takes steps of Forwarding or exits; after it, none.
LEMMA ExitIsFinal ==
    ASSUME [ServiceNext]_serviceVars
    PROVE  /\ main = "exited" => main' = "exited" /\ UNCHANGED vars
           /\ main' # "exited" => [Next]_vars
BY DEF ServiceNext, MainStep, InstallHandlers, StartWaiting, Woken, StopIoService, JoinTcpThread,
       SigtermKills, AcceptFails, WhileAlive, Exit, serviceVars

LEMMA ExitChanges ==
    ASSUME Exit
    PROVE  /\ realtime_queue' = <<>> /\ reissue_queue' = <<>>
           /\ upc' = [u \in Uploaders |-> "stopped"]
           /\ carData' = [u \in Uploaders |-> NoPacket]
           /\ tpc' = "idle" /\ packet' = NoPacket /\ moving' = NoPacket
           /\ connected' = [u \in Uploaders |-> FALSE]
           /\ loggedIn' = [u \in Uploaders |-> FALSE]
           /\ UNCHANGED <<offline, pool, logins, scanned, scanEnd, arrived, late, sent, seen>>
BY DEF Exit, scanVars, historyVars

LEMMA ExitKeepsTypes == TypeOK /\ Exit => TypeOK'
<1> SUFFICES ASSUME TypeOK, Exit
             PROVE  TypeOK'
  OBVIOUS
<1>1. /\ <<>> \in Seq(Packets) /\ Len(<<>>) <= Capacity  OBVIOUS
<1>2. /\ connected' \in [Uploaders -> BOOLEAN] /\ loggedIn' \in [Uploaders -> BOOLEAN]
      /\ carData' \in [Uploaders -> Packets \cup {NoPacket}]
      /\ \A u \in Uploaders : carData'[u] = NoPacket
  BY ExitChanges
<1>3. /\ upc' \in [Uploaders -> {"unstarted", "top", "asleep", "setup", "login", "logout",
                              "choose", "takeRealtime", "takeReissue", "send", "putBack",
                              "stopped"}]
      /\ \A u \in Uploaders : upc'[u] = "stopped"
  BY ExitChanges
<1>4. QED  BY <1>1, <1>2, <1>3, ExitChanges DEF TypeOK

LEMMA ExitKeepsLogins == Exit => LoginInv'
BY ExitChanges DEF LoginInv

LEMMA ExitKeepsSeen == Exit => SeenIsTaken'
BY ExitChanges DEF SeenIsTaken

-----------------------------------------------------------------------------
\* Types hold from the start of the process to its exit.
THEOREM ServiceTypeCorrect == ServiceSpec => []TypeOK
<1>1. ServiceInit => TypeOK  BY TypeInit DEF ServiceInit
<1>2. TypeOK /\ [ServiceNext]_serviceVars => TypeOK'
  BY ServiceCases, TypeStep, ExitKeepsTypes
<1>3. QED  BY <1>1, <1>2, PTL DEF ServiceSpec

ConservationUntilExit == main # "exited" => ConservationInv

LEMMA ConservedStep ==
    TypeOK /\ ConservationUntilExit /\ [ServiceNext]_serviceVars => ConservationUntilExit'
BY ExitIsFinal, ConservationStep DEF ConservationUntilExit

\* Until the exit, signals, a failing accept and the stop, in the middle of whatever the threads
\* do, neither lose nor double a packet.
THEOREM StoppingConserves == ServiceSpec => []ConservedUntilExit
<1>1. ServiceInit => ConservationUntilExit
  BY ConservationInit DEF ServiceInit, ConservationUntilExit
<1>2. ConservationUntilExit => ConservedUntilExit
  BY DEF ConservationUntilExit, ConservedUntilExit, ConservationInv, Conservation, NothingLost,
         NothingDoubled, Complete, Distinct
<1>3. QED  BY <1>1, <1>2, ConservedStep, ServiceTypeCorrect, PTL DEF ServiceSpec

\* In the running process too, what an uploader saw in the reissue queue is there when it takes,
\* or another uploader took it.
THEOREM ServiceSeenIsTaken == ServiceSpec => []SeenIsTaken
<1>1. ServiceInit => SeenIsTaken
  <2> SUFFICES ASSUME ServiceInit
               PROVE  SeenIsTaken
    OBVIOUS
  <2>1. \A u \in Uploaders : upc[u] # "takeReissue"  BY DEF ServiceInit, Init
  <2>2. QED  BY <2>1 DEF SeenIsTaken
<1>2. TypeOK /\ SeenIsTaken /\ [ServiceNext]_serviceVars => SeenIsTaken'
  BY ServiceCases, SeenStep, ExitKeepsSeen
<1>3. QED  BY <1>1, <1>2, ServiceTypeCorrect, PTL DEF ServiceSpec

\* Until the exit and in it, no vehicle data goes out on a connection without a login.
THEOREM ServiceDataAfterLogin == ServiceSpec => DataFollowsLogin
<1>1. ServiceInit => LoginInv
  <2> SUFFICES ASSUME ServiceInit
               PROVE  LoginInv
    OBVIOUS
  <2>1. \A u \in Uploaders : connected[u] = FALSE  BY DEF ServiceInit, Init
  <2>2. QED  BY <2>1 DEF LoginInv
<1>2. TypeOK /\ LoginInv /\ [ServiceNext]_serviceVars => LoginInv'
  BY ServiceCases, LoginStep, ExitKeepsLogins
<1>3. TypeOK /\ LoginInv /\ [ServiceNext]_serviceVars
          => [sent' # sent => loggedIn[sent'[Len(sent')].by]]_vars
  <2> SUFFICES ASSUME TypeOK, LoginInv, [ServiceNext]_serviceVars, sent' # sent
               PROVE  loggedIn[sent'[Len(sent')].by]
    OBVIOUS
  <2>1. [Next]_vars  BY ServiceCases, ExitChanges
  <2>2. PICK u \in Uploaders : SendOk(u) /\ sent'[Len(sent')].by = u
    BY <2>1, WritesOnItsConnection
  <2>3. loggedIn[u]  BY <2>2 DEF SendOk, LoginInv
  <2>4. QED  BY <2>2, <2>3
<1>4. QED  BY <1>1, <1>2, <1>3, ServiceTypeCorrect, PTL DEF ServiceSpec, DataFollowsLogin

\* What the relay rests on, until the exit takes the packets away.
RelayUntilExit == main # "exited" => ConservationInv /\ StampInv /\ OrderInv

LEMMA RelayUntilExitStep ==
    TypeOK /\ RelayUntilExit /\ [ServiceNext]_serviceVars => RelayUntilExit'
BY ExitIsFinal, ConservationStep, StampStep, OrderStep DEF RelayUntilExit

\* From start to exit, whatever of the threads is left running meanwhile, the process relays;
\* and the exit forwards nothing.
THEOREM ServiceRelays == ServiceSpec => RefinesRelay
<1>1. ServiceInit => RelayUntilExit /\ R!Init
  BY ConservationInit, RelayInit DEF ServiceInit, RelayUntilExit
<1>2. TypeOK /\ RelayUntilExit /\ [ServiceNext]_serviceVars => [R!Next]_R!vars
  <2> SUFFICES ASSUME TypeOK, RelayUntilExit, [ServiceNext]_serviceVars
               PROVE  [R!Next]_R!vars
    OBVIOUS
  <2>1. CASE main = "exited"  BY <2>1, ExitIsFinal DEF vars, historyVars, R!vars
  <2>2. CASE main # "exited" /\ [Next]_vars
    BY <2>2, RelayStep DEF RelayUntilExit
  <2>3. CASE Exit  BY <2>3, ExitChanges DEF R!vars
  <2>4. QED  BY <2>1, <2>2, <2>3, ServiceCases
<1>3. QED
  BY <1>1, <1>2, RelayUntilExitStep, ServiceTypeCorrect, PTL
  DEF ServiceSpec, RefinesRelay, R!Spec
=============================================================================
