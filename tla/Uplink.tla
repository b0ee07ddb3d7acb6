------------------------------- MODULE Uplink -------------------------------
(***************************************************************************)
(* What an uploader promises about its connection to the public platform:  *)
(* it connects only to log in, and uses a connection for vehicle data only *)
(* after setupConnAndLogin has returned and, in the compliance modes, the  *)
(* practice rounds are done.  Forwarding implements this for all uploaders *)
(* with a login in one step, PlatformLogin for one of them with all that   *)
(* goes on during a login: so what Forwarding leaves out of it does        *)
(* nothing that Forwarding does not have.                                  *)
(***************************************************************************)
EXTENDS Naturals

CONSTANTS Uploaders, Rounds

VARIABLES
    connected,  \* connected[u]: m_publicServer.is_connected()
    phase,      \* phase[u]: which part of Uploader::run u is in
    rounds      \* rounds[u]: practice logins with a logout that are left

vars == <<connected, phase, rounds>>

\* Without practice rounds run may begin in the main loop.
Init ==
    /\ connected = [u \in Uploaders |-> FALSE]
    /\ rounds \in [Uploaders -> {0, Rounds}]
    /\ phase \in [Uploaders -> {"login", "in"}]
    /\ \A u \in Uploaders : phase[u] = "in" => rounds[u] = 0

Connect(u) ==
    /\ phase[u] = "login"
    /\ ~connected[u]
    /\ connected' = [connected EXCEPT ![u] = TRUE]
    /\ UNCHANGED <<phase, rounds>>

Drop(u) ==
    /\ connected[u]
    /\ connected' = [connected EXCEPT ![u] = FALSE]
    /\ UNCHANGED <<phase, rounds>>

\* The connection may break before its login returns: the uploader finds out later.
LoginOk(u) ==
    /\ phase[u] = "login"
    /\ phase' = [phase EXCEPT ![u] = IF rounds[u] > 0 THEN "logout" ELSE "in"]
    /\ UNCHANGED <<connected, rounds>>

LogoutOk(u) ==
    /\ phase[u] = "logout"
    /\ rounds' = [rounds EXCEPT ![u] = @ - 1]
    /\ phase' = [phase EXCEPT ![u] = "login"]
    /\ UNCHANGED connected

Relogin(u) ==
    /\ phase[u] = "in"
    /\ ~connected[u]
    /\ phase' = [phase EXCEPT ![u] = "login"]
    /\ UNCHANGED <<connected, rounds>>

\* An exception may end it anywhere.
Quit(u) ==
    /\ phase[u] # "stopped"
    /\ connected' = [connected EXCEPT ![u] = FALSE]
    /\ phase' = [phase EXCEPT ![u] = "stopped"]
    /\ UNCHANGED rounds

Next == \E u \in Uploaders :
            Connect(u) \/ Drop(u) \/ LoginOk(u) \/ LogoutOk(u) \/ Relogin(u) \/ Quit(u)

Spec == Init /\ [][Next]_vars
=============================================================================
