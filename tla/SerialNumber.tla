----------------------------- MODULE SerialNumber -----------------------------
(***************************************************************************)
(* The serial number of the platform login (Uploader::setupConnAndLogin,   *)
(* updateLoginData, updateLogoutData): one static counter for all          *)
(* uploaders, which is to start at 1 every day and to wrap at              *)
(* MaxSerialNumber.                                                        *)
(*                                                                         *)
(* The uploaders share the counter, the time of the last login and the     *)
(* static buffer in which localtime returns its result.  The mutex covers  *)
(* the reset and the increment, each by itself; the counter is read        *)
(* without it, and buffer and time of the last login are shared unguarded: *)
(* every access is a step of its own, one value before or after another.   *)
(* A time is its day.  Reading the clock and converting what it showed is  *)
(* one step, since another thread cannot tell.  mktime, the logging and    *)
(* gutility (external) are taken to leave the buffer alone.                *)
(***************************************************************************)
EXTENDS Integers, FiniteSets

CONSTANTS
    Uploaders,          \* those that are ever started
    First,              \* the one main starts; SIGUSR2 starts the others
    MaxSerialNumber,
    Modulus,            \* uint16_t: 2^16
    LastDay             \* bound of the model: days 1 .. LastDay

\* The increments of the uploaders that are past the reset do not reach the overflow of the
\* counter: 65531 leaves room for four of them.
ASSUME SerialNumberAssumption ==
    /\ IsFiniteSet(Uploaders)
    /\ First \in Uploaders
    /\ MaxSerialNumber \in Nat \ {0}
    /\ Modulus \in Nat
    /\ MaxSerialNumber + Cardinality(Uploaders) < Modulus
    /\ LastDay \in Nat \ {0}

VARIABLES
    today,
    serial,         \* m_serialNumber
    lastLogin,      \* m_uploader_last_login_time
    tm,             \* what localtime's buffer holds
    pc,             \* pc[u]: where uploader u is
    now,            \* now[u]: nowDay, nowMon and nowYear
    login,          \* login[u]: serial number and day in m_loginData
    counted         \* history: number of the login that was counted last, 0 if there is none

shared == <<serial, lastLogin, tm>>
vars == <<today, shared, pc, now, login, counted>>

Epoch == 0      \* the day of time_t 0
Days  == Epoch .. LastDay

OnlyFirst == [u \in Uploaders |-> IF u = First THEN "ask" ELSE "unstarted"]
NoDay     == [u \in Uploaders |-> Epoch]
NoLogin   == [u \in Uploaders |-> [number |-> 0, day |-> Epoch]]

Init ==
    /\ today = 1
    /\ serial = 1
    /\ lastLogin = Epoch
    /\ tm = Epoch
    /\ pc = OnlyFirst
    /\ now = NoDay
    /\ login = NoLogin
    /\ counted = 0

Goto(u, from, to) == pc[u] = from /\ pc' = [pc EXCEPT ![u] = to]

\* An operator named Operation_Defect is a mistaken variant of Operation, used only to check
\* that the properties would notice it.
-----------------------------------------------------------------------------
Midnight ==
    /\ today < LastDay
    /\ today' = today + 1
    /\ UNCHANGED <<shared, pc, now, login, counted>>

\* The process ends, or is killed, and is started again: nothing of this is stored.
Restart ==
    /\ serial' = 1
    /\ lastLogin' = Epoch
    /\ tm' = Epoch
    /\ pc' = OnlyFirst
    /\ now' = NoDay
    /\ login' = NoLogin
    /\ counted' = 0
    /\ UNCHANGED today

Start(u) ==
    /\ Goto(u, "unstarted", "ask")
    /\ UNCHANGED <<today, shared, now, login, counted>>

-----------------------------------------------------------------------------
(* One round of setupConnAndLogin's loop.                                  *)

\* localtime(&now)
ConvertNow(u) ==
    /\ Goto(u, "ask", "readNow")
    /\ tm' = today
    /\ UNCHANGED <<today, serial, lastLogin, now, login, counted>>

ReadNow(u) ==
    /\ Goto(u, "readNow", "convertLast")
    /\ now' = [now EXCEPT ![u] = tm]
    /\ UNCHANGED <<today, shared, login, counted>>

\* localtime(&m_uploader_last_login_time)
ConvertLast(u) ==
    /\ Goto(u, "convertLast", "check")
    /\ tm' = lastLogin
    /\ UNCHANGED <<today, serial, lastLogin, now, login, counted>>

Check_AtEquality(u) ==
    /\ Goto(u, "check", "stamp")
    /\ serial' = IF serial = MaxSerialNumber + 1 \/ now[u] # tm THEN 1 ELSE serial
    /\ UNCHANGED <<today, lastLogin, tm, now, login, counted>>

Check_OneTooEarly(u) ==
    /\ Goto(u, "check", "stamp")
    /\ serial' = IF serial >= MaxSerialNumber \/ now[u] # tm THEN 1 ELSE serial
    /\ UNCHANGED <<today, lastLogin, tm, now, login, counted>>

Check_DayOnly(u) ==
    /\ Goto(u, "check", "stamp")
    /\ serial' = IF now[u] # tm THEN 1 ELSE serial
    /\ UNCHANGED <<today, lastLogin, tm, now, login, counted>>

\* The first critical section.
Check(u) ==
    /\ Goto(u, "check", "stamp")
    /\ serial' = IF serial > MaxSerialNumber \/ now[u] # tm THEN 1 ELSE serial
    /\ UNCHANGED <<today, lastLogin, tm, now, login, counted>>

\* updateLoginData
Stamp(u) ==
    /\ Goto(u, "stamp", "fill")
    /\ tm' = today
    /\ UNCHANGED <<today, serial, lastLogin, now, login, counted>>

\* The login goes out, or is lost: either way its answer is waited for.
FillAndSend(u) ==
    /\ Goto(u, "fill", "wait")
    /\ login' = [login EXCEPT ![u] = [number |-> serial, day |-> tm]]
    /\ UNCHANGED <<today, shared, now, counted>>

\* A timeout, a closed connection, an answer in a bad format: once more.
Unanswered(u) ==
    /\ Goto(u, "wait", "ask")
    /\ UNCHANGED <<today, shared, now, login, counted>>

Rejected(u) ==
    /\ Goto(u, "wait", "stopped")
    /\ UNCHANGED <<today, shared, now, login, counted>>

Accepted(u) ==
    /\ Goto(u, "wait", "increment")
    /\ counted' = login[u].number
    /\ UNCHANGED <<today, shared, now, login>>

\* The second critical section.
Increment(u) ==
    /\ Goto(u, "increment", "remember")
    /\ serial' = (serial + 1) % Modulus
    /\ UNCHANGED <<today, lastLogin, tm, now, login, counted>>

Remember(u) ==
    /\ Goto(u, "remember", "loggedIn")
    /\ lastLogin' = today
    /\ UNCHANGED <<today, serial, tm, now, login, counted>>

\* A connection that broke is found out by the main loop.
LoginAgain(u) ==
    /\ Goto(u, "loggedIn", "ask")
    /\ UNCHANGED <<today, shared, now, login, counted>>

-----------------------------------------------------------------------------
(* The practice logouts of the compliance modes: each is followed by another *)
(* login, unless it is not acknowledged.                                     *)

\* updateLogoutData: number and day of m_logoutData are those of m_loginData and of today, or of
\* another uploader's conversion; nothing depends on them.
Logout(u) ==
    /\ Goto(u, "loggedIn", "waitLogout")
    /\ tm' = today
    /\ UNCHANGED <<today, serial, lastLogin, now, login, counted>>

LogoutOk(u) ==
    /\ Goto(u, "waitLogout", "ask")
    /\ UNCHANGED <<today, shared, now, login, counted>>

LogoutNotOk(u) ==
    /\ Goto(u, "waitLogout", "stopped")
    /\ UNCHANGED <<today, shared, now, login, counted>>

LoginStep(u) ==
    \/ ConvertNow(u) \/ ReadNow(u) \/ ConvertLast(u) \/ Check(u)
    \/ Stamp(u) \/ FillAndSend(u)
    \/ Unanswered(u) \/ Rejected(u) \/ Accepted(u)
    \/ Increment(u) \/ Remember(u) \/ LoginAgain(u)

LogoutStep(u) == Logout(u) \/ LogoutOk(u) \/ LogoutNotOk(u)

-----------------------------------------------------------------------------
Next ==
    \/ Midnight \/ Restart
    \/ \E u \in Uploaders : Start(u) \/ LoginStep(u) \/ LogoutStep(u)

Spec == Init /\ [][Next]_vars

-----------------------------------------------------------------------------
\* The counter does not overflow to 0, and no time is of a day to come.
TypeOK ==
    /\ today \in 1 .. LastDay
    /\ serial \in 1 .. Modulus - 1
    /\ lastLogin \in Epoch .. today
    /\ tm \in Epoch .. today
    /\ pc \in [Uploaders -> {"unstarted", "ask", "readNow", "convertLast", "check", "stamp", "fill",
                             "wait", "increment", "remember", "loggedIn", "waitLogout", "stopped"}]
    /\ now \in [Uploaders -> Epoch .. today]
    /\ login \in [Uploaders -> [number : 0 .. Modulus - 1, day : Epoch .. today]]
    /\ counted \in 0 .. Modulus - 1

\* Past the reset, with the increment still to come.
Counting == {u \in Uploaders : pc[u] \in {"stamp", "fill", "wait", "increment"}}

\* What the counter may still reach.  The reset looks at it without knowing of the uploaders
\* whose increments are to come.
RoomToCount == serial + Cardinality(Counting) <= MaxSerialNumber + Cardinality(Uploaders)

\* A login goes out with a number of at least 1, and each uploader beyond the first can add at
\* most 1 to MaxSerialNumber: alone, an uploader never exceeds it.
NumberInRange ==
    \A u \in Uploaders :
        pc[u] = "wait" => login[u].number \in 1 .. MaxSerialNumber + Cardinality(Uploaders) - 1

Alone == \A u \in Uploaders \ {First} : pc[u] = "unstarted"

\* Until another uploader is started, a login goes out with the number after that of the last
\* login that succeeded, or with 1 on another day than that one's and after the maximum; however
\* often it was repeated, and over midnight.  Its date is not before the day it was asked for.
AloneCountsUp ==
    Alone /\ pc[First] = "wait" =>
        /\ login[First].number = IF counted = MaxSerialNumber \/ lastLogin # now[First]
                                 THEN 1 ELSE counted + 1
        /\ login[First].day \in now[First] .. today
=============================================================================
