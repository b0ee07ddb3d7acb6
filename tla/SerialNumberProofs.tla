-------------------------- MODULE SerialNumberProofs --------------------------
(***************************************************************************)
(* What holds of SerialNumber for any finite number of uploaders, maximum, *)
(* width of the counter and number of days.                                *)
(***************************************************************************)
EXTENDS SerialNumber, FiniteSetTheorems, TLAPS

USE SerialNumberAssumption

LEMMA NextCases ==
    ASSUME [Next]_vars
    PROVE  \/ Midnight \/ Restart
           \/ \E u \in Uploaders :
                  \/ Start(u) \/ ConvertNow(u) \/ ReadNow(u) \/ ConvertLast(u) \/ Check(u)
                  \/ Stamp(u) \/ FillAndSend(u) \/ Unanswered(u) \/ Rejected(u) \/ Accepted(u)
                  \/ Increment(u) \/ Remember(u) \/ LoginAgain(u)
                  \/ Logout(u) \/ LogoutOk(u) \/ LogoutNotOk(u)
           \/ UNCHANGED vars
BY DEF Next, LoginStep, LogoutStep

-----------------------------------------------------------------------------
(* Numbers of uploaders.                                                   *)

LEMMA Sizes ==
    /\ Cardinality(Uploaders) \in Nat \ {0}
    /\ \A S \in SUBSET Uploaders :
           IsFiniteSet(S) /\ Cardinality(S) \in Nat /\ Cardinality(S) <= Cardinality(Uploaders)
<1>1. Cardinality(Uploaders) \in Nat  BY FS_CardinalityType
<1>2. Cardinality(Uploaders) # 0  BY FS_EmptySet
<1>3. ASSUME NEW S \in SUBSET Uploaders
      PROVE  IsFiniteSet(S) /\ Cardinality(S) \in Nat /\ Cardinality(S) <= Cardinality(Uploaders)
  BY FS_Subset, FS_CardinalityType
<1>4. QED  BY <1>1, <1>2, <1>3

LEMMA OneMore ==
    ASSUME NEW S \in SUBSET Uploaders, NEW u \in Uploaders \ S
    PROVE  Cardinality(S \cup {u}) = Cardinality(S) + 1
BY Sizes, FS_AddElement

LEMMA OneLess ==
    ASSUME NEW S \in SUBSET Uploaders, NEW u \in S
    PROVE  Cardinality(S \ {u}) = Cardinality(S) - 1 /\ Cardinality(S) >= 1
<1>1. Cardinality(S \ {u}) = Cardinality(S) - 1  BY Sizes, FS_RemoveElement
<1>2. Cardinality(S) \in Nat /\ Cardinality(S \ {u}) \in Nat  BY Sizes
<1>3. QED  BY <1>1, <1>2

LEMMA CountingType == Counting \in SUBSET Uploaders /\ Cardinality(Counting) \in Nat
BY Sizes DEF Counting

-----------------------------------------------------------------------------
\* The inductive invariant: the counter leaves room for the increments that are to come.
CountInv == TypeOK /\ RoomToCount

LEMMA CountInit == Init => CountInv
<1> SUFFICES ASSUME Init
             PROVE  CountInv
  OBVIOUS
<1>1. TypeOK  BY Sizes DEF Init, TypeOK, OnlyFirst, NoDay, NoLogin, Epoch
<1>2. Counting = {}  BY DEF Init, OnlyFirst, Counting
<1>3. Cardinality({}) = 0  BY FS_EmptySet
<1>4. QED  BY <1>1, <1>2, <1>3, Sizes DEF Init, CountInv, RoomToCount

\* How many uploaders are past the reset changes with Check, with Increment, and with a login
\* that did not succeed.
LEMMA CountingChanges ==
    ASSUME TypeOK, NEW u \in Uploaders
    PROVE  /\ Check(u) => u \notin Counting /\ Counting' = Counting \cup {u}
           /\ Increment(u) \/ Unanswered(u) \/ Rejected(u)
                  => u \in Counting /\ Counting' = Counting \ {u}
           /\ (\/ Start(u) \/ ConvertNow(u) \/ ReadNow(u) \/ ConvertLast(u) \/ Stamp(u)
               \/ FillAndSend(u) \/ Accepted(u) \/ Remember(u) \/ LoginAgain(u)
               \/ Logout(u) \/ LogoutOk(u) \/ LogoutNotOk(u))
                  => Counting' = Counting
<1> USE DEF TypeOK, Counting, Goto
<1>1. ASSUME Check(u)
      PROVE  u \notin Counting /\ Counting' = Counting \cup {u}
  BY <1>1 DEF Check
<1>2. ASSUME Increment(u) \/ Unanswered(u) \/ Rejected(u)
      PROVE  u \in Counting /\ Counting' = Counting \ {u}
  BY <1>2 DEF Increment, Unanswered, Rejected
<1>3. ASSUME \/ Start(u) \/ ConvertNow(u) \/ ReadNow(u) \/ ConvertLast(u) \/ Stamp(u)
             \/ FillAndSend(u) \/ Accepted(u) \/ Remember(u) \/ LoginAgain(u)
             \/ Logout(u) \/ LogoutOk(u) \/ LogoutNotOk(u)
      PROVE  Counting' = Counting
  BY <1>3 DEF Start, ConvertNow, ReadNow, ConvertLast, Stamp, FillAndSend, Accepted, Remember,
              LoginAgain, Logout, LogoutOk, LogoutNotOk
<1>4. QED  BY <1>1, <1>2, <1>3

\* Below its width the counter counts on.
LEMMA NoOverflow ==
    ASSUME CountInv, NEW u \in Uploaders, Increment(u)
    PROVE  serial' = serial + 1 /\ serial' \in 1 .. Modulus - 1
<1>1. Cardinality(Counting) >= 1 /\ Cardinality(Counting) \in Nat
  BY CountingChanges, CountingType, OneLess DEF CountInv
<1>2. serial + 1 <= MaxSerialNumber + Cardinality(Uploaders) /\ serial \in Nat
  BY <1>1, Sizes DEF CountInv, RoomToCount, TypeOK
<1>3. serial + 1 \in 0 .. Modulus - 1  BY <1>2, Sizes
<1>4. (serial + 1) % Modulus = serial + 1  BY <1>3
<1>5. QED  BY <1>2, <1>3, <1>4 DEF Increment

LEMMA TypeStep == CountInv /\ [Next]_vars => TypeOK'
<1> SUFFICES ASSUME CountInv, [Next]_vars
             PROVE  TypeOK'
  OBVIOUS
<1> USE DEF CountInv, TypeOK, Goto, shared, Epoch
<1>1. ASSUME Midnight
      PROVE  TypeOK'
  BY <1>1 DEF Midnight
<1>2. ASSUME Restart
      PROVE  TypeOK'
  BY <1>2, Sizes DEF Restart, OnlyFirst, NoDay, NoLogin
<1>3. ASSUME NEW u \in Uploaders, Start(u) \/ ConvertNow(u) \/ ConvertLast(u) \/ Stamp(u)
      PROVE  TypeOK'
  BY <1>3 DEF Start, ConvertNow, ConvertLast, Stamp
<1>4. ASSUME NEW u \in Uploaders, ReadNow(u)
      PROVE  TypeOK'
  BY <1>4 DEF ReadNow
<1>5. ASSUME NEW u \in Uploaders, Check(u)
      PROVE  TypeOK'
  BY <1>5, Sizes DEF Check
<1>6. ASSUME NEW u \in Uploaders, FillAndSend(u)
      PROVE  TypeOK'
  BY <1>6 DEF FillAndSend
<1>7. ASSUME NEW u \in Uploaders, Unanswered(u) \/ Rejected(u) \/ LoginAgain(u)
      PROVE  TypeOK'
  BY <1>7 DEF Unanswered, Rejected, LoginAgain
<1>8. ASSUME NEW u \in Uploaders, Accepted(u)
      PROVE  TypeOK'
  BY <1>8 DEF Accepted
<1>9. ASSUME NEW u \in Uploaders, Increment(u)
      PROVE  TypeOK'
  <2>1. serial' \in 1 .. Modulus - 1  BY <1>9, NoOverflow
  <2>2. QED  BY <1>9, <2>1 DEF Increment
<1>10. ASSUME NEW u \in Uploaders, Remember(u)
       PROVE  TypeOK'
  BY <1>10 DEF Remember
<1>11. ASSUME NEW u \in Uploaders, Logout(u) \/ LogoutOk(u) \/ LogoutNotOk(u)
       PROVE  TypeOK'
  BY <1>11 DEF Logout, LogoutOk, LogoutNotOk
<1>12. ASSUME UNCHANGED vars
       PROVE  TypeOK'
  BY <1>12 DEF vars
<1>13. QED
  BY <1>1, <1>2, <1>3, <1>4, <1>5, <1>6, <1>7, <1>8, <1>9, <1>10, <1>11, <1>12, NextCases

LEMMA RoomStep == CountInv /\ [Next]_vars => RoomToCount'
<1> SUFFICES ASSUME CountInv, [Next]_vars
             PROVE  RoomToCount'
  OBVIOUS
<1> USE DEF CountInv, RoomToCount
<1>1. serial \in Nat /\ Cardinality(Counting) \in Nat /\ Counting \in SUBSET Uploaders
  BY CountingType DEF TypeOK
<1>2. CASE serial' = serial /\ Counting' = Counting
  BY <1>2
<1>3. ASSUME Restart
      PROVE  RoomToCount'
  <2>1. Counting' = {} /\ serial' = 1  BY <1>3 DEF Restart, OnlyFirst, Counting
  <2>2. QED  BY <2>1, Sizes, FS_EmptySet
<1>4. ASSUME NEW u \in Uploaders, Check(u)
      PROVE  RoomToCount'
  <2>1. Cardinality(Counting') = Cardinality(Counting) + 1
    BY <1>1, <1>4, CountingChanges, OneMore
  <2>2. Counting' \in SUBSET Uploaders  BY <1>1, <1>4, CountingChanges
  <2>3. Cardinality(Counting') <= Cardinality(Uploaders)  BY <2>2, Sizes
  <2>4. serial' <= MaxSerialNumber  BY <1>1, <1>4 DEF Check
  <2>5. serial' \in Nat  BY <1>1, <1>4 DEF Check
  <2>6. QED  BY <1>1, <2>1, <2>3, <2>4, <2>5, Sizes
<1>5. ASSUME NEW u \in Uploaders, Increment(u)
      PROVE  RoomToCount'
  <2>1. Cardinality(Counting') = Cardinality(Counting) - 1
    BY <1>1, <1>5, CountingChanges, OneLess
  <2>2. serial' = serial + 1  BY <1>5, NoOverflow
  <2>3. QED  BY <1>1, <2>1, <2>2
<1>6. ASSUME NEW u \in Uploaders, Unanswered(u) \/ Rejected(u)
      PROVE  RoomToCount'
  <2>1. Cardinality(Counting') = Cardinality(Counting) - 1
    BY <1>1, <1>6, CountingChanges, OneLess
  <2>2. serial' = serial  BY <1>6 DEF Unanswered, Rejected, shared
  <2>3. QED  BY <1>1, <2>1, <2>2, Sizes
<1>7. ASSUME Midnight \/ UNCHANGED vars
      PROVE  RoomToCount'
  BY <1>2, <1>7 DEF Midnight, vars, shared, Counting
<1>8. ASSUME NEW u \in Uploaders,
             \/ Start(u) \/ ConvertNow(u) \/ ReadNow(u) \/ ConvertLast(u) \/ Stamp(u)
             \/ FillAndSend(u) \/ Accepted(u) \/ Remember(u) \/ LoginAgain(u)
             \/ Logout(u) \/ LogoutOk(u) \/ LogoutNotOk(u)
      PROVE  RoomToCount'
  <2>1. Counting' = Counting  BY <1>8, CountingChanges
  <2>2. serial' = serial
    BY <1>8 DEF Start, ConvertNow, ReadNow, ConvertLast, Stamp, FillAndSend, Accepted, Remember,
                LoginAgain, Logout, LogoutOk, LogoutNotOk, shared
  <2>3. QED  BY <1>2, <2>1, <2>2
<1>9. QED  BY <1>3, <1>4, <1>5, <1>6, <1>7, <1>8, NextCases

\* The counter never overflows to 0, however the uploaders' resets and increments interleave.
THEOREM TypeCorrect == Spec => []TypeOK
<1>1. CountInv => TypeOK  BY DEF CountInv
<1>2. CountInv /\ [Next]_vars => CountInv'  BY TypeStep, RoomStep DEF CountInv
<1>3. QED  BY <1>1, <1>2, CountInit, PTL DEF Spec

-----------------------------------------------------------------------------
LEMMA NumberStep == CountInv /\ NumberInRange /\ [Next]_vars => NumberInRange'
<1> SUFFICES ASSUME CountInv, NumberInRange, [Next]_vars,
                    NEW v \in Uploaders, pc'[v] = "wait"
             PROVE  login'[v].number \in 1 .. MaxSerialNumber + Cardinality(Uploaders) - 1
  BY DEF NumberInRange
<1>1. CASE pc[v] = "wait" /\ login'[v] = login[v]
  BY <1>1 DEF NumberInRange
<1>2. ASSUME FillAndSend(v)
      PROVE  login'[v].number \in 1 .. MaxSerialNumber + Cardinality(Uploaders) - 1
  <2>1. v \in Counting  BY <1>2 DEF FillAndSend, Goto, Counting
  <2>2. Cardinality(Counting) >= 1 /\ Cardinality(Counting) \in Nat
    BY <2>1, CountingType, OneLess
  <2>3. serial <= MaxSerialNumber + Cardinality(Uploaders) - 1 /\ serial \in Nat /\ serial >= 1
    BY <2>2, Sizes DEF CountInv, RoomToCount, TypeOK
  <2>4. login'[v].number = serial  BY <1>2 DEF FillAndSend, CountInv, TypeOK
  <2>5. QED  BY <2>3, <2>4, Sizes
<1>3. ASSUME NEW u \in Uploaders, FillAndSend(u), u # v
      PROVE  pc[v] = "wait" /\ login'[v] = login[v]
  BY <1>3 DEF FillAndSend, Goto, CountInv, TypeOK
<1>4. ASSUME NEW u \in Uploaders,
             \/ Start(u) \/ ConvertNow(u) \/ ReadNow(u) \/ ConvertLast(u) \/ Check(u) \/ Stamp(u)
             \/ Unanswered(u) \/ Rejected(u) \/ Accepted(u) \/ Increment(u) \/ Remember(u)
             \/ LoginAgain(u) \/ Logout(u) \/ LogoutOk(u) \/ LogoutNotOk(u)
      PROVE  pc[v] = "wait" /\ login'[v] = login[v]
  BY <1>4 DEF Start, ConvertNow, ReadNow, ConvertLast, Check, Stamp, Unanswered, Rejected,
              Accepted, Increment, Remember, LoginAgain, Logout, LogoutOk, LogoutNotOk, Goto,
              CountInv, TypeOK
<1>5. ASSUME Midnight \/ UNCHANGED vars
      PROVE  pc[v] = "wait" /\ login'[v] = login[v]
  BY <1>5 DEF Midnight, vars
<1>6. ~Restart  BY DEF Restart, OnlyFirst
<1>7. QED  BY <1>1, <1>2, <1>3, <1>4, <1>5, <1>6, NextCases

\* However many uploaders reset, read and count in whatever order, a login carries a number of
\* at least 1 and less than MaxSerialNumber plus their number: one uploader keeps the maximum.
THEOREM NumbersAreInRange == Spec => []NumberInRange
<1>1. Init => NumberInRange
  <2> SUFFICES ASSUME Init
               PROVE  NumberInRange
    OBVIOUS
  <2>1. \A u \in Uploaders : pc[u] # "wait"  BY DEF Init, OnlyFirst
  <2>2. QED  BY <2>1 DEF NumberInRange
<1>2. CountInv /\ [Next]_vars => CountInv'  BY TypeStep, RoomStep DEF CountInv
<1>3. QED  BY <1>1, <1>2, CountInit, NumberStep, PTL DEF Spec

-----------------------------------------------------------------------------
(* One uploader alone.                                                     *)

\* The number that is due on the day the login was asked for, and the counter between logins:
\* it has counted the last one, or was reset for a login that has not succeeded yet.
Due == IF counted = MaxSerialNumber \/ lastLogin # now[First] THEN 1 ELSE counted + 1

ReadyFor(day) ==
    \/ serial = counted + 1
    \/ serial = 1 /\ (counted = MaxSerialNumber \/ lastLogin < day)

AloneState ==
    /\ pc[First] # "unstarted"
    /\ counted \in 0 .. MaxSerialNumber
    /\ pc[First] \in {"ask", "loggedIn", "waitLogout"} => ReadyFor(today)
    /\ pc[First] = "readNow" => ReadyFor(tm) /\ lastLogin <= tm
    /\ pc[First] \in {"convertLast", "check"} => ReadyFor(now[First]) /\ lastLogin <= now[First]
    /\ pc[First] = "check" => tm = lastLogin
    /\ pc[First] \in {"stamp", "fill", "wait"} => serial = Due /\ lastLogin <= now[First]
    /\ pc[First] = "fill" => tm \in now[First] .. today
    /\ pc[First] = "wait" => login[First].number = Due /\ login[First].day \in now[First] .. today
    /\ pc[First] = "increment" => serial = counted
    /\ pc[First] = "remember" => serial = counted + 1

AloneInv == Alone => AloneState

\* While it is alone, the first uploader is the only one that moves.
LEMMA OnlyFirstMoves ==
    ASSUME TypeOK, [Next]_vars, Alone'
    PROVE  \/ Midnight /\ Alone
           \/ Restart
           \/ Alone /\ \/ ConvertNow(First) \/ ReadNow(First) \/ ConvertLast(First)
                       \/ Check(First) \/ Stamp(First) \/ FillAndSend(First)
                       \/ Unanswered(First) \/ Rejected(First) \/ Accepted(First)
                       \/ Increment(First) \/ Remember(First) \/ LoginAgain(First)
                       \/ Logout(First) \/ LogoutOk(First) \/ LogoutNotOk(First)
           \/ Alone /\ Start(First)
           \/ Alone /\ UNCHANGED vars
<1> USE DEF Alone, TypeOK
<1>1. ASSUME NEW u \in Uploaders, NEW from, NEW to, Goto(u, from, to), to # "unstarted"
      PROVE  u = First /\ Alone
  BY <1>1 DEF Goto
<1>2. ASSUME NEW u \in Uploaders,
             \/ Start(u) \/ ConvertNow(u) \/ ReadNow(u) \/ ConvertLast(u) \/ Check(u)
             \/ Stamp(u) \/ FillAndSend(u) \/ Unanswered(u)
      PROVE  u = First /\ Alone
  BY <1>1, <1>2 DEF Start, ConvertNow, ReadNow, ConvertLast, Check, Stamp, FillAndSend, Unanswered
<1>3. ASSUME NEW u \in Uploaders,
             \/ Rejected(u) \/ Accepted(u) \/ Increment(u) \/ Remember(u) \/ LoginAgain(u)
             \/ Logout(u) \/ LogoutOk(u) \/ LogoutNotOk(u)
      PROVE  u = First /\ Alone
  BY <1>1, <1>3 DEF Rejected, Accepted, Increment, Remember, LoginAgain, Logout, LogoutOk,
                    LogoutNotOk
<1>4. Midnight => Alone  BY DEF Midnight
<1>5. UNCHANGED vars => Alone  BY DEF vars
<1>6. QED  BY <1>2, <1>3, <1>4, <1>5, NextCases

LEMMA AloneStep == CountInv /\ AloneInv /\ [Next]_vars => AloneInv'
<1> SUFFICES ASSUME CountInv, AloneInv, [Next]_vars, Alone'
             PROVE  AloneState'
  BY DEF AloneInv
<1>0. TypeOK  BY DEF CountInv
<1> USE DEF AloneInv, AloneState, ReadyFor, Due, TypeOK, Goto, shared, Epoch
<1>1. ASSUME Midnight, Alone
      PROVE  AloneState'
  BY <1>0, <1>1 DEF Midnight
<1>2. ASSUME Restart
      PROVE  AloneState'
  <2>1. /\ pc'[First] = "ask"
        /\ serial' = 1 /\ counted' = 0
    BY <1>2 DEF Restart, OnlyFirst
  <2>2. QED  BY <2>1
<1>3. ASSUME Alone, ConvertNow(First)
      PROVE  AloneState'
  BY <1>0, <1>3 DEF ConvertNow
<1>4. ASSUME Alone, ReadNow(First)
      PROVE  AloneState'
  BY <1>0, <1>4 DEF ReadNow
<1>5. ASSUME Alone, ConvertLast(First)
      PROVE  AloneState'
  BY <1>0, <1>5 DEF ConvertLast
<1>6. ASSUME Alone, Check(First)
      PROVE  AloneState'
  BY <1>0, <1>6 DEF Check
<1>7. ASSUME Alone, Stamp(First)
      PROVE  AloneState'
  BY <1>0, <1>7 DEF Stamp
<1>8. ASSUME Alone, FillAndSend(First)
      PROVE  AloneState'
  BY <1>0, <1>8 DEF FillAndSend
<1>9. ASSUME Alone, Unanswered(First)
      PROVE  AloneState'
  BY <1>0, <1>9 DEF Unanswered
<1>10. ASSUME Alone, Accepted(First)
       PROVE  AloneState'
  BY <1>0, <1>10 DEF Accepted
<1>11. ASSUME Alone, Increment(First)
       PROVE  AloneState'
  <2>1. serial' = serial + 1  BY <1>11, NoOverflow
  <2>2. QED  BY <1>0, <1>11, <2>1 DEF Increment
<1>12. ASSUME Alone, Remember(First)
       PROVE  AloneState'
  BY <1>0, <1>12 DEF Remember
<1>13. ASSUME Alone, Rejected(First) \/ LoginAgain(First)
       PROVE  AloneState'
  BY <1>0, <1>13 DEF Rejected, LoginAgain
<1>14. ASSUME Alone, Logout(First) \/ LogoutOk(First) \/ LogoutNotOk(First)
       PROVE  AloneState'
  BY <1>0, <1>14 DEF Logout, LogoutOk, LogoutNotOk
<1>15. ASSUME Alone, Start(First)
       PROVE  AloneState'
  BY <1>15 DEF Start
<1>16. ASSUME Alone, UNCHANGED vars
       PROVE  AloneState'
  BY <1>16 DEF vars
<1>17. QED
  BY <1>0, <1>1, <1>2, <1>3, <1>4, <1>5, <1>6, <1>7, <1>8, <1>9, <1>10, <1>11, <1>12, <1>13,
     <1>14, <1>15, <1>16, OnlyFirstMoves

\* For any maximum and any number of days: as long as the service has one uploader, its logins
\* count up, start again at 1 on a new day and after the maximum, and repeat the number of a
\* login that did not succeed.
THEOREM AloneAlwaysCountsUp == Spec => []AloneCountsUp
<1>1. Init => AloneInv
  <2> SUFFICES ASSUME Init
               PROVE  AloneState
    BY DEF AloneInv
  <2>1. pc[First] = "ask" /\ serial = 1 /\ counted = 0  BY DEF Init, OnlyFirst
  <2>2. QED  BY <2>1 DEF AloneState, ReadyFor
<1>2. CountInv /\ [Next]_vars => CountInv'  BY TypeStep, RoomStep DEF CountInv
<1>3. AloneInv => AloneCountsUp  BY DEF AloneInv, AloneState, AloneCountsUp, Due
<1>4. QED  BY <1>1, <1>2, <1>3, CountInit, AloneStep, PTL DEF Spec
=============================================================================
