---------------------------- MODULE PlatformLogin ----------------------------
(***************************************************************************)
(* How one uploader logs in to the public platform and, in the compliance  *)
(* modes, practises it: the thread of Uploader::run in setupConnAndLogin   *)
(* and logout, the thread of its ResponseReader, and between them the      *)
(* status m_responseStatus, the mutex m_statusMtx and the condition        *)
(* variable m_newStatus.                                                   *)
(*                                                                         *)
(* The uploader holds the mutex only within waitNextStatus, which is one   *)
(* step up to the wait and one step after it; the reader holds it while it *)
(* sleeps 500 ms (line 46 of ResponseReader.cpp).  waitNextStatus returns  *)
(* a reference: what the uploader acts on is the status at the time it     *)
(* looks, after the mutex was released.                                    *)
(*                                                                         *)
(* gsocket is external: uploader and reader use one socket object, so a    *)
(* read that has not noticed the end of a connection goes on with the next *)
(* one; a failed read or write leaves it not connected.                    *)
(***************************************************************************)
EXTENDS Naturals, Sequences

CONSTANTS
    LoginTimes,     \* unanswered logins before the interval becomes LoginIntervals2
    Rounds,         \* loginTimes of Uploader::run: practice logins, 0 in release mode
    MaxSends,       \* bound of the model: packets the uploader writes, or tries to
    MaxUnasked,     \* bound of the model: answers that nothing was sent for
    Endings         \* how the wait of line 167 may end, other than by a notification

ASSUME LoginAssumption ==
    /\ LoginTimes \in Nat
    /\ Rounds \in Nat
    /\ MaxSends \in Nat
    /\ MaxUnasked \in Nat
    /\ Endings \subseteq {"timeOut", "noReason"}

VARIABLES
    connected,  \* m_publicServer.is_connected()
    status,     \* m_responseStatus
    upc,        \* where the uploader is
    doing,      \* the command it sends and waits for: platformLogin or platformLogout
    rounds,     \* practice rounds left
    i, wait_timeout,    \* the locals of setupConnAndLogin
    rpc,        \* where the reader is
    got,        \* what readResponse is about to publish
    requests,   \* written to this connection and not yet seen by the platform
    answers,    \* answered by the platform and not yet read
    accepted,   \* history: the platform has accepted a login on this connection
    unanswered, \* history: logins tried in this call of setupConnAndLogin on this connection
    fresh,      \* history: since the uploader began to wait, an ok was published
    roused,     \* history: its wait ended for no reason
    sends,      \* how many packets were written
    unasked     \* how many answers nothing was sent for

loginVars  == <<i, wait_timeout, unanswered>>
readerVars == <<rpc, got>>
wireVars   == <<requests, answers, accepted, unasked>>
waitVars   == <<fresh, roused>>
vars == <<connected, status, upc, doing, rounds, loginVars, readerVars, wireVars, waitVars, sends>>

Answers == {"responseOk", "responseNotOk", "responseFormatErr"}
Waiting == {"enter", "blocked", "woken", "timedOut"}

Init ==
    /\ connected = FALSE
    /\ status = "init"
    /\ upc = "loop"
    /\ doing = "platformLogin"
    /\ rounds = Rounds
    /\ i = 0
    /\ wait_timeout = "LoginIntervals"
    /\ rpc = "top"
    /\ got = "init"
    /\ requests = <<>>
    /\ answers = <<>>
    /\ accepted = FALSE
    /\ unanswered = 0
    /\ fresh = FALSE
    /\ roused = FALSE
    /\ sends = 0
    /\ unasked = 0

\* An operator named Operation_Defect is a mistaken variant of Operation, used only to check
\* that the properties would notice it.
-----------------------------------------------------------------------------
(* The uploader.                                                           *)

\* The mutex is free: the reader does not sleep with it.
Unlocked == rpc # "sleeping"

\* A call of setupConnAndLogin starts with fresh locals.
BeginLogin ==
    /\ upc' = "loop"
    /\ doing' = "platformLogin"
    /\ i' = 0
    /\ wait_timeout' = "LoginIntervals"
    /\ unanswered' = 0

\* Line 214, once i and the interval are known.
IntervalFor(n, current) == IF n = LoginTimes THEN "LoginIntervals2" ELSE current

Connect_IntervalKept ==
    /\ upc = "loop"
    /\ ~connected
    /\ connected' = TRUE
    /\ requests' = <<>>
    /\ answers' = <<>>
    /\ accepted' = FALSE
    /\ i' = 0
    /\ wait_timeout' = IntervalFor(0, wait_timeout)
    /\ unanswered' = 0
    /\ upc' = "send"
    /\ UNCHANGED <<status, doing, rounds, readerVars, waitVars, sends, unasked>>

\* setupConnection established a new connection.
Connect ==
    /\ upc = "loop"
    /\ ~connected
    /\ connected' = TRUE
    /\ requests' = <<>>
    /\ answers' = <<>>
    /\ accepted' = FALSE
    /\ i' = 0
    /\ wait_timeout' = IntervalFor(0, "LoginIntervals")
    /\ unanswered' = 0
    /\ upc' = "send"
    /\ UNCHANGED <<status, doing, rounds, readerVars, waitVars, sends, unasked>>

\* It failed otherwise than by a refusal: the exception ends run.
ConnectThrows ==
    /\ upc = "loop"
    /\ ~connected
    /\ upc' = "stopped"
    /\ UNCHANGED <<connected, status, doing, rounds, loginVars, readerVars, wireVars, waitVars,
                   sends>>

StillConnected ==
    /\ upc = "loop"
    /\ connected
    /\ wait_timeout' = IntervalFor(i, wait_timeout)
    /\ upc' = "send"
    /\ UNCHANGED <<connected, status, doing, rounds, i, unanswered, readerVars, wireVars, waitVars,
                   sends>>

\* tcpSendData of a login or logout.  It catches the exception of a broken connection, and
\* its callers do not ask: they wait for an answer in either case.
Send ==
    /\ upc = "send"
    /\ sends < MaxSends
    /\ sends' = sends + 1
    /\ unanswered' = IF doing = "platformLogin" THEN unanswered + 1 ELSE unanswered
    /\ \/ connected /\ requests' = Append(requests, doing) /\ UNCHANGED connected
       \/ connected' = FALSE /\ UNCHANGED requests
    /\ upc' = "enter"
    /\ UNCHANGED <<status, doing, rounds, i, wait_timeout, readerVars, answers, accepted, unasked,
                   waitVars>>

\* Any other exception ends run, which closes the connection.
SendThrows ==
    /\ upc \in {"send", "in"}
    /\ upc = "in" => connected
    /\ connected' = FALSE
    /\ upc' = "stopped"
    /\ UNCHANGED <<status, doing, rounds, loginVars, readerVars, wireVars, waitVars, sends>>

EnterWait_Cleared ==
    /\ upc = "enter"
    /\ Unlocked
    /\ status' = "init"
    /\ upc' = "blocked"
    /\ fresh' = FALSE
    /\ roused' = FALSE
    /\ UNCHANGED <<connected, doing, rounds, loginVars, readerVars, wireVars, sends>>

EnterWait ==
    /\ upc = "enter"
    /\ Unlocked
    /\ upc' = "blocked"
    /\ fresh' = FALSE
    /\ roused' = FALSE
    /\ UNCHANGED <<connected, status, doing, rounds, loginVars, readerVars, wireVars, sends>>

WakeForNoReason ==
    /\ "noReason" \in Endings
    /\ upc = "blocked"
    /\ upc' = "woken"
    /\ roused' = TRUE
    /\ UNCHANGED <<connected, status, doing, rounds, loginVars, readerVars, wireVars, fresh, sends>>

TimeOut_Never == FALSE

TimeOut ==
    /\ "timeOut" \in Endings
    /\ upc = "blocked"
    /\ upc' = "timedOut"
    /\ UNCHANGED <<connected, status, doing, rounds, loginVars, readerVars, wireVars, waitVars,
                   sends>>

ReturnWoken ==
    /\ upc = "woken"
    /\ Unlocked
    /\ upc' = "look"
    /\ UNCHANGED <<connected, status, doing, rounds, loginVars, readerVars, wireVars, waitVars,
                   sends>>

ReturnTimedOut_StatusKept ==
    /\ upc = "timedOut"
    /\ Unlocked
    /\ upc' = "look"
    /\ UNCHANGED <<connected, status, doing, rounds, loginVars, readerVars, wireVars, waitVars,
                   sends>>

ReturnTimedOut ==
    /\ upc = "timedOut"
    /\ Unlocked
    /\ status' = "timeout"
    /\ upc' = "look"
    /\ UNCHANGED <<connected, doing, rounds, loginVars, readerVars, wireVars, waitVars, sends>>

LoginOk_RoundsForgotten ==
    /\ upc = "look" /\ doing = "platformLogin" /\ status = "responseOk"
    /\ upc' = "in"
    /\ UNCHANGED <<connected, status, doing, rounds, loginVars, readerVars, wireVars, waitVars,
                   sends>>

\* setupConnAndLogin returns; in the preamble of run a practice logout may follow.
LoginOk ==
    /\ upc = "look" /\ doing = "platformLogin" /\ status = "responseOk"
    /\ IF rounds > 0 THEN upc' = "send" /\ doing' = "platformLogout"
                     ELSE upc' = "in" /\ UNCHANGED doing
    /\ UNCHANGED <<connected, status, rounds, loginVars, readerVars, wireVars, waitVars, sends>>

LogoutOk ==
    /\ upc = "look" /\ doing = "platformLogout" /\ status = "responseOk"
    /\ rounds' = rounds - 1
    /\ BeginLogin
    /\ UNCHANGED <<connected, status, readerVars, wireVars, waitVars, sends>>

\* The connection was closed, no answer came or it was ill-formed: log in again.
LoginAgain ==
    /\ upc = "look" /\ doing = "platformLogin"
    /\ status \in {"connectionClosed", "timeout", "responseFormatErr"}
    /\ i' = i + 1
    /\ upc' = "loop"
    /\ UNCHANGED <<connected, status, doing, rounds, wait_timeout, unanswered, readerVars, wireVars,
                   waitVars, sends>>

\* Any other status is thrown as an exception: run closes the connection and ends.
Throw ==
    /\ upc = "look"
    /\ IF doing = "platformLogin" THEN status \in {"responseNotOk", "init"}
                                  ELSE status # "responseOk"
    /\ connected' = FALSE
    /\ upc' = "stopped"
    /\ UNCHANGED <<status, doing, rounds, loginVars, readerVars, wireVars, waitVars, sends>>

\* The main loop of run: forward vehicle packets, and log in again after a failure.
Upload ==
    /\ upc = "in"
    /\ connected
    /\ sends < MaxSends
    /\ sends' = sends + 1
    /\ \/ requests' = Append(requests, "vehicleData") /\ UNCHANGED connected
       \/ connected' = FALSE /\ UNCHANGED requests
    /\ UNCHANGED <<status, upc, doing, rounds, loginVars, readerVars, answers, accepted, unasked,
                   waitVars>>

Relogin ==
    /\ upc = "in"
    /\ ~connected
    /\ BeginLogin
    /\ UNCHANGED <<connected, status, rounds, readerVars, wireVars, waitVars, sends>>

UploaderStep ==
    \/ Connect \/ ConnectThrows \/ StillConnected \/ Send \/ SendThrows
    \/ EnterWait \/ WakeForNoReason \/ TimeOut \/ ReturnWoken \/ ReturnTimedOut
    \/ LoginOk \/ LogoutOk \/ LoginAgain \/ Throw \/ Upload \/ Relogin
-----------------------------------------------------------------------------
(* The ResponseReader.                                                     *)

Top ==
    /\ rpc = "top"
    /\ rpc' = IF connected THEN "reading" ELSE "reset"
    /\ UNCHANGED <<connected, status, upc, doing, rounds, loginVars, got, wireVars, waitVars,
                   sends>>

\* Without a connection: set the status back, and sleep with the mutex.
Reset ==
    /\ rpc = "reset"
    /\ status' = "init"
    /\ rpc' = "sleeping"
    /\ UNCHANGED <<connected, upc, doing, rounds, loginVars, got, wireVars, waitVars, sends>>

AwakeAgain ==
    /\ rpc = "sleeping"
    /\ rpc' = "top"
    /\ UNCHANGED <<connected, status, upc, doing, rounds, loginVars, got, wireVars, waitVars,
                   sends>>

\* readResponse got a whole packet ...
Read ==
    /\ rpc = "reading"
    /\ connected
    /\ answers # <<>>
    /\ got' = Head(answers)
    /\ answers' = Tail(answers)
    /\ rpc' = "publish"
    /\ UNCHANGED <<connected, status, upc, doing, rounds, loginVars, requests, accepted, unasked,
                   waitVars, sends>>

\* ... or one whose length leaves no room for its check code: the exception of the buffer is
\* none of the socket, and ends the thread ...
ReadThrows ==
    /\ rpc = "reading"
    /\ connected
    /\ answers # <<>>
    /\ answers' = Tail(answers)
    /\ rpc' = "ended"
    /\ UNCHANGED <<connected, status, upc, doing, rounds, loginVars, got, requests, accepted, unasked,
                   waitVars, sends>>

\* ... or found the connection broken, just now or since a write failed.
ReadFails ==
    /\ rpc = "reading"
    /\ connected' = FALSE
    /\ got' = "connectionClosed"
    /\ rpc' = "publish"
    /\ UNCHANGED <<status, upc, doing, rounds, loginVars, wireVars, waitVars, sends>>

\* status(): set it and wake the uploader if it waits.
Publish ==
    /\ rpc = "publish"
    /\ status' = got
    /\ upc' = IF upc = "blocked" THEN "woken" ELSE upc
    /\ fresh' = (fresh \/ got = "responseOk")
    /\ rpc' = "switch"
    /\ UNCHANGED <<connected, doing, rounds, loginVars, got, wireVars, roused, sends>>

\* The switch of run forwards some answers to a vehicle; a status it does not know ends run.
Switch ==
    /\ rpc = "switch"
    /\ rpc' = IF status = "init" THEN "dead" ELSE "top"
    /\ UNCHANGED <<connected, status, upc, doing, rounds, loginVars, got, wireVars, waitVars,
                   sends>>

ReaderStep == Top \/ Reset \/ AwakeAgain \/ Read \/ ReadThrows \/ ReadFails \/ Publish \/ Switch
-----------------------------------------------------------------------------
(* The public platform.                                                    *)

Answer ==
    /\ requests # <<>>
    /\ \E s \in Answers :
           /\ answers' = Append(answers, s)
           /\ accepted' = IF s = "responseOk" /\ Head(requests) # "vehicleData"
                          THEN Head(requests) = "platformLogin" ELSE accepted
    /\ requests' = Tail(requests)
    /\ UNCHANGED <<connected, status, upc, doing, rounds, loginVars, readerVars, unasked, waitVars,
                   sends>>

KeepSilent ==
    /\ requests # <<>>
    /\ requests' = Tail(requests)
    /\ UNCHANGED <<connected, status, upc, doing, rounds, loginVars, readerVars, answers, accepted,
                   unasked, waitVars, sends>>

\* Nothing makes the platform answer each packet once: what comes besides may be a second answer,
\* or the rest of one that readResponse gave up.
Unasked ==
    /\ connected
    /\ unasked < MaxUnasked
    /\ unasked' = unasked + 1
    /\ \E s \in Answers : answers' = Append(answers, s)
    /\ UNCHANGED <<connected, status, upc, doing, rounds, loginVars, readerVars, requests, accepted,
                   waitVars, sends>>
-----------------------------------------------------------------------------
Next == UploaderStep \/ ReaderStep \/ Answer \/ KeepSilent \/ Unasked

Spec == Init /\ [][Next]_vars

\* Both threads run and timers expire.  Of a mutex that its owner takes again as soon as it has
\* freed it, as the reader does while the connection is down, no lock promises that the other
\* thread ever gets it: what waits for it is done if it stays possible, no more.
FairSpec ==
    /\ Spec
    /\ WF_vars(Top \/ Reset \/ AwakeAgain \/ Publish \/ Switch)
    /\ WF_vars(EnterWait \/ TimeOut \/ ReturnWoken \/ ReturnTimedOut)
    /\ WF_vars(LoginOk \/ LogoutOk \/ LoginAgain \/ Throw)
-----------------------------------------------------------------------------
TypeOK ==
    /\ connected \in BOOLEAN
    /\ status \in Answers \cup {"init", "timeout", "connectionClosed"}
    /\ upc \in Waiting \cup {"loop", "send", "look", "in", "stopped"}
    /\ doing \in {"platformLogin", "platformLogout"}
    /\ rounds \in 0 .. Rounds
    /\ doing = "platformLogout" => rounds > 0 /\ upc \in Waiting \cup {"send", "look", "stopped"}
    /\ upc = "in" => rounds = 0
    /\ i \in Nat
    /\ wait_timeout \in {"LoginIntervals", "LoginIntervals2"}
    /\ rpc \in {"top", "reset", "sleeping", "reading", "publish", "switch", "dead", "ended"}
    /\ got \in Answers \cup {"init", "connectionClosed"}
    /\ requests \in Seq({"platformLogin", "platformLogout", "vehicleData"})
    /\ answers \in Seq(Answers)
    /\ accepted \in BOOLEAN
    /\ unanswered \in Nat
    /\ fresh \in BOOLEAN
    /\ roused \in BOOLEAN
    /\ sends \in 0 .. MaxSends
    /\ unasked \in 0 .. MaxUnasked

\* Lines 198-213: the first LoginTimes unanswered logins of a connection are repeated after
\* LoginIntervals, the later ones after LoginIntervals2; a new connection starts anew.
IntervalFollowsUnanswered ==
    upc \in Waiting /\ doing = "platformLogin" =>
        (wait_timeout = "LoginIntervals2" <=> unanswered > LoginTimes)

\* The reader acts on a status that the uploader may have overwritten in the meantime, but its
\* switch never meets the one it does not know, which would end the thread and with it every
\* answer.  (readResponse can end it: see ReadThrows.)
SwitchKnowsStatus == rpc # "dead"

\* The status of an earlier wait does not pass for an answer: when an uploader finds responseOk,
\* one was published while it waited.  (Whose answer it was is not asked, and if the wait ended
\* for no reason, nor whether there was one.)
OkIsFresh == upc = "look" /\ status = "responseOk" /\ ~roused => fresh

\* A platform that keeps silent holds up no wait for ever, nor does a reader that has ended.
\* What can is the reader that, without a connection, sleeps with the mutex, frees it and takes
\* it again.
OnlyResetHoldsUpWaits ==
    <>[](upc \in Waiting) => []<>(~connected /\ rpc = "sleeping")

\* Which part of run the uploader is in, and it as the only one of Uplink.
Phase == IF upc \in {"in", "stopped"} THEN upc
         ELSE IF doing = "platformLogout" THEN "logout" ELSE "login"

Me == {0}

L == INSTANCE Uplink WITH
        Uploaders <- Me, Rounds <- Rounds, connected <- [u \in Me |-> connected],
        phase <- [u \in Me |-> Phase], rounds <- [u \in Me |-> rounds]

\* Whatever answers, timeouts, resets and failed sends go on within, from outside a login is the
\* one step Forwarding takes it for, repeated logins stay in it, and the main loop is reached
\* after the last practice round only.
RefinesUplink == L!Spec

-----------------------------------------------------------------------------
(* What the comments of the code say and the code does not do.             *)

\* Uploader.cpp:191: no answer, and the login is repeated within; only an answer that the
\* login failed is thrown.
OnlyFailureThrows == upc = "look" /\ doing = "platformLogin" => status # "init"

\* Uploader.cpp:191: setupConnAndLogin returns when the login succeeded.
ReturnMeansLoggedIn ==
    [][upc = "look" /\ doing = "platformLogin" /\ upc' \in {"send", "in"} => accepted]_vars
=============================================================================
