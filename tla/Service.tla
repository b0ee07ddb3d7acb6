------------------------------- MODULE Service -------------------------------
(***************************************************************************)
(* The life of the process around the forwarding of vehicle packets: main  *)
(* installs the signal handlers, waits on the condition variable quit,     *)
(* stops the io_service, joins the TCP thread and returns.  What main does *)
(* before it creates the TCP thread, start one uploader and put it into    *)
(* the pool, is the initial state of Forwarding: nobody else looks at the  *)
(* pool until then.                                                        *)
(*                                                                         *)
(* SIGINT and SIGTERM end the process while their handler is not installed *)
(* and wake main while it waits.  In between notify_all finds nobody to    *)
(* wake, and nothing remembers it: no step at all.  A signal handler that  *)
(* interrupts a thread inside malloc or the condition variable is outside  *)
(* the model.                                                              *)
(***************************************************************************)
EXTENDS Forwarding

VARIABLES
    main,       \* where main is
    stopped     \* the io_service runs no further handler

serviceVars == <<vars, main, stopped>>

ServiceInit ==
    /\ Init
    /\ main = "installing"
    /\ stopped = FALSE

-----------------------------------------------------------------------------
InstallHandlers ==
    /\ main = "installing"
    /\ main' = "installed"
    /\ UNCHANGED <<vars, stopped>>

\* GINFO, the mutex, and quit.wait.
StartWaiting ==
    /\ main = "installed"
    /\ main' = "waiting"
    /\ UNCHANGED <<vars, stopped>>

\* signal_handler with SIGINT or SIGTERM; and, for wait has no predicate, nothing at all.
Woken ==
    /\ main = "waiting"
    /\ main' = "woken"
    /\ UNCHANGED <<vars, stopped>>

StopIoService_Forgotten ==
    /\ main = "woken"
    /\ main' = "joining"
    /\ UNCHANGED <<vars, stopped>>

StopIoService ==
    /\ main = "woken"
    /\ stopped' = TRUE
    /\ main' = "joining"
    /\ UNCHANGED vars

\* All threads end with the process, and with its memory go the queues and every packet that
\* some thread has in hand: the program keeps nothing but what it has written.
Exit ==
    /\ main' = "exited"
    /\ realtime_queue' = <<>> /\ reissue_queue' = <<>>
    /\ connected' = [u \in Uploaders |-> FALSE]
    /\ loggedIn' = [u \in Uploaders |-> FALSE]
    /\ upc' = [u \in Uploaders |-> "stopped"]
    /\ carData' = [u \in Uploaders |-> NoPacket]
    /\ tpc' = "idle" /\ packet' = NoPacket /\ moving' = NoPacket
    /\ UNCHANGED <<offline, pool, logins, scanVars, historyVars, stopped>>

SigtermKills ==
    /\ main = "installing"
    /\ Exit

\* ioService.run() returns between two handlers, so a handler that runs is waited for.
JoinTcpThread ==
    /\ main = "joining"
    /\ stopped
    /\ tpc = "idle"
    /\ Exit

\* acceptHandler is called with an error, or the acceptor cannot be opened: no further vehicle
\* packet is read, and main is not told.
AcceptFails ==
    /\ main # "exited"
    /\ tpc = "idle"
    /\ ~stopped
    /\ stopped' = TRUE
    /\ UNCHANGED <<vars, main>>

MainStep == InstallHandlers \/ StartWaiting \/ StopIoService \/ JoinTcpThread

\* The threads of Forwarding go on while the process lives, and the TCP thread reads packets
\* while its io_service runs.
WhileAlive(A) == main # "exited" /\ A /\ UNCHANGED <<main, stopped>>

ServiceNext ==
    \/ MainStep \/ Woken \/ SigtermKills \/ AcceptFails
    \/ WhileAlive(Next /\ (stopped => UNCHANGED arrived))

ServiceSpec == ServiceInit /\ [][ServiceNext]_serviceVars

\* As in Forwarding; and main is scheduled.  Nobody has to send a signal.
FairService ==
    /\ ServiceSpec
    /\ WF_serviceVars(MainStep)
    /\ WF_serviceVars(WhileAlive(TcpStep))
    /\ \A u \in Uploaders : WF_serviceVars(WhileAlive(UploaderStep(u)))

-----------------------------------------------------------------------------
\* Up to the exit, signals, a failing accept and the stop of the io_service, in the middle of
\* whatever the threads do, neither lose nor double a packet.  The exit does: what waits in the
\* queues is gone.
ConservedUntilExit == main # "exited" => Conservation

\* An uploader that takes nothing from the full queue the TCP thread waits at: it has not been
\* started or has ended, tries to connect or to log in, waits at an empty queue, or waits for
\* room as the TCP thread does.
TakesNothing(u) ==
    \/ upc[u] \in {"unstarted", "stopped", "setup", "login", "logout"}
    \/ upc[u] = "takeRealtime" /\ realtime_queue = <<>>
    \/ upc[u] = "takeReissue" /\ reissue_queue = <<>>
    \/ upc[u] = "putBack" /\ Len(reissue_queue) = Capacity

\* What a stop can wait for: the take of the drain loop, in which the TCP thread waits for
\* itself, and a put into a full queue while no uploader takes from it.
StopHangs ==
    \/ tpc = "drainTake" /\ realtime_queue = <<>>
    \/ /\ tpc \in {"drainPut", "putReissue"} /\ Len(reissue_queue) = Capacity
       /\ \A u \in Uploaders : TakesNothing(u)
    \/ /\ tpc = "putRealtime" /\ Len(realtime_queue) = Capacity
       /\ \A u \in Uploaders : TakesNothing(u)

\* A main that was woken ends the process, whatever the TCP thread is at, unless the TCP thread
\* waits at a queue that nobody serves: that wait no stop interrupts.
StopCompletes == main = "woken" ~> main = "exited" \/ StopHangs
=============================================================================
