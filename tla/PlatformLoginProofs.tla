------------------------- MODULE PlatformLoginProofs -------------------------
(***************************************************************************)
(* What holds of PlatformLogin for every number of repetitions, practice   *)
(* rounds and packets.                                                     *)
(***************************************************************************)
EXTENDS PlatformLogin, SequenceTheorems, TLAPS

\* What the reader is about to publish, and the status its switch finds, is never init.
StatusInv ==
    /\ rpc = "publish" => got # "init"
    /\ rpc = "switch" => status # "init"
    /\ rpc # "dead"

LEMMA TypeInit == Init => TypeOK
<1> SUFFICES ASSUME Init
             PROVE  TypeOK
  OBVIOUS
<1>1. /\ connected = FALSE /\ accepted = FALSE /\ fresh = FALSE /\ roused = FALSE
      /\ requests = <<>> /\ answers = <<>>
  BY DEF Init
<1>2. connected \in BOOLEAN /\ accepted \in BOOLEAN /\ fresh \in BOOLEAN /\ roused \in BOOLEAN
  BY <1>1, Zenon
<1>3. /\ requests \in Seq({"platformLogin", "platformLogout", "vehicleData"})
      /\ answers \in Seq(Answers)
  BY <1>1
<1>4. QED  BY <1>2, <1>3, LoginAssumption DEF Init, TypeOK

LEMMA UploaderTypes == TypeOK /\ UploaderStep => TypeOK'
<1> SUFFICES ASSUME TypeOK, UploaderStep
             PROVE  TypeOK'
  OBVIOUS
<1> USE LoginAssumption DEF TypeOK, Waiting, loginVars, readerVars, wireVars, waitVars, IntervalFor, BeginLogin
<1>1. CASE Connect
  <2>1. requests' \in Seq({"platformLogin", "platformLogout", "vehicleData"})
        /\ answers' \in Seq(Answers)
    BY <1>1 DEF Connect
  <2>2. QED  BY <1>1, <2>1 DEF Connect
<1>2. CASE ConnectThrows  BY <1>2 DEF ConnectThrows
<1>3. CASE StillConnected  BY <1>3 DEF StillConnected
<1>4. CASE Send
  <2>1. requests' \in Seq({"platformLogin", "platformLogout", "vehicleData"})
    BY <1>4, AppendProperties DEF Send
  <2>2. sends' \in 0 .. MaxSends /\ unanswered' \in Nat  BY <1>4 DEF Send
  <2>3. connected' \in BOOLEAN  BY <1>4 DEF Send
  <2>4. QED  BY <1>4, <2>1, <2>2, <2>3 DEF Send
<1>5. CASE EnterWait
  <2>1. fresh' \in BOOLEAN /\ roused' \in BOOLEAN  BY <1>5, Zenon DEF EnterWait
  <2>2. QED  BY <1>5, <2>1 DEF EnterWait
<1>6. CASE WakeForNoReason  BY <1>6 DEF WakeForNoReason
<1>7. CASE TimeOut  BY <1>7 DEF TimeOut
<1>8. CASE ReturnWoken  BY <1>8 DEF ReturnWoken
<1>9. CASE ReturnTimedOut  BY <1>9 DEF ReturnTimedOut
<1>10. CASE LoginOk  BY <1>10 DEF LoginOk
<1>11. CASE LogoutOk  BY <1>11 DEF LogoutOk
<1>12. CASE LoginAgain  BY <1>12 DEF LoginAgain
<1>13. CASE Throw
  <2>1. connected' \in BOOLEAN  BY <1>13 DEF Throw
  <2>2. UNCHANGED <<status, doing, rounds, loginVars, readerVars, wireVars, waitVars, sends>>
        /\ upc' = "stopped"
    BY <1>13 DEF Throw
  <2>3. QED  BY <2>1, <2>2
<1>14. CASE Upload
  <2>1. requests' \in Seq({"platformLogin", "platformLogout", "vehicleData"})
    <3>1. requests' = Append(requests, "vehicleData") \/ requests' = requests  BY <1>14 DEF Upload
    <3>2. QED  BY <3>1, AppendProperties
  <2>2. sends' \in 0 .. MaxSends  BY <1>14 DEF Upload
  <2>3. connected' \in BOOLEAN  BY <1>14 DEF Upload
  <2>4. QED  BY <1>14, <2>1, <2>2, <2>3 DEF Upload
<1>15. CASE Relogin  BY <1>15 DEF Relogin
<1>16. CASE SendThrows
  <2>1. connected' \in BOOLEAN  BY <1>16 DEF SendThrows
  <2>2. UNCHANGED <<status, doing, rounds, loginVars, readerVars, wireVars, waitVars, sends>>
        /\ upc' = "stopped"
    BY <1>16 DEF SendThrows
  <2>3. QED  BY <2>1, <2>2
<1>17. QED
  BY <1>1, <1>2, <1>3, <1>4, <1>5, <1>6, <1>7, <1>8, <1>9, <1>10, <1>11, <1>12, <1>13, <1>14,
     <1>15, <1>16
  DEF UploaderStep

LEMMA OtherTypes ==
    TypeOK /\ (ReaderStep \/ Answer \/ KeepSilent \/ Unasked \/ UNCHANGED vars) => TypeOK'
<1> SUFFICES ASSUME TypeOK, ReaderStep \/ Answer \/ KeepSilent \/ Unasked \/ UNCHANGED vars
             PROVE  TypeOK'
  OBVIOUS
<1> USE LoginAssumption DEF TypeOK, Waiting, loginVars, readerVars, wireVars, waitVars
<1>1. CASE Top  BY <1>1 DEF Top
<1>2. CASE Reset  BY <1>2 DEF Reset
<1>3. CASE AwakeAgain  BY <1>3 DEF AwakeAgain
<1>4. CASE Read
  <2>1. Head(answers) \in Answers /\ Tail(answers) \in Seq(Answers)
    BY <1>4, HeadTailProperties DEF Read
  <2>2. QED  BY <1>4, <2>1 DEF Read
<1>5. CASE ReadFails
  <2>1. connected' \in BOOLEAN  BY <1>5, Zenon DEF ReadFails
  <2>2. QED  BY <1>5, <2>1 DEF ReadFails
<1>6. CASE Publish
  <2>1. fresh' \in BOOLEAN  BY <1>6, Zenon DEF Publish
  <2>2. QED  BY <1>6, <2>1 DEF Publish
<1>7. CASE Switch  BY <1>7 DEF Switch
<1>8. CASE Answer
  <2>1. PICK s \in Answers :
            /\ answers' = Append(answers, s)
            /\ accepted' = IF s = "responseOk" /\ Head(requests) # "vehicleData"
                           THEN Head(requests) = "platformLogin" ELSE accepted
    BY <1>8 DEF Answer
  <2>2. accepted' \in BOOLEAN  BY <2>1, Zenon
  <2>3. answers' \in Seq(Answers)  BY <2>1, AppendProperties
  <2>4. requests' \in Seq({"platformLogin", "platformLogout", "vehicleData"})
    BY <1>8, HeadTailProperties DEF Answer
  <2>5. UNCHANGED <<connected, status, upc, doing, rounds, loginVars, readerVars, waitVars, sends,
                    unasked>>
    BY <1>8 DEF Answer
  <2>6. QED  BY <2>2, <2>3, <2>4, <2>5
<1>9. CASE KeepSilent
  <2>1. requests' \in Seq({"platformLogin", "platformLogout", "vehicleData"})
    BY <1>9, HeadTailProperties DEF KeepSilent
  <2>2. QED  BY <1>9, <2>1 DEF KeepSilent
<1>10. CASE UNCHANGED vars  BY <1>10 DEF vars
<1>11. CASE ReadThrows
  <2>1. Tail(answers) \in Seq(Answers)  BY <1>11, HeadTailProperties DEF ReadThrows
  <2>2. QED  BY <1>11, <2>1 DEF ReadThrows
<1>12. CASE Unasked
  <2>1. answers' \in Seq(Answers)  BY <1>12, AppendProperties DEF Unasked
  <2>2. unasked' \in 0 .. MaxUnasked  BY <1>12 DEF Unasked
  <2>3. QED  BY <1>12, <2>1, <2>2 DEF Unasked
<1>13. QED
  BY <1>1, <1>2, <1>3, <1>4, <1>5, <1>6, <1>7, <1>8, <1>9, <1>10, <1>11, <1>12 DEF ReaderStep

\* Every variable keeps its type, a logout is under way only while practice rounds are left,
\* and none is left once vehicle data is forwarded.
THEOREM TypeCorrect == Spec => []TypeOK
<1>1. TypeOK /\ [Next]_vars => TypeOK'  BY UploaderTypes, OtherTypes DEF Next
<1>2. QED  BY <1>1, TypeInit, PTL DEF Spec
-----------------------------------------------------------------------------
LEMMA StatusStep == TypeOK /\ StatusInv /\ [Next]_vars => StatusInv'
<1> SUFFICES ASSUME TypeOK, StatusInv, [Next]_vars
             PROVE  StatusInv'
  OBVIOUS
<1> USE DEF TypeOK, StatusInv, loginVars, readerVars, wireVars
<1>1. ASSUME UploaderStep
      PROVE  StatusInv'
  <2>1. UNCHANGED readerVars /\ (status' = status \/ status' = "timeout")
    BY <1>1 DEF UploaderStep, Connect, ConnectThrows, StillConnected, Send, SendThrows, EnterWait,
         WakeForNoReason, TimeOut, ReturnWoken, ReturnTimedOut, LoginOk, LogoutOk, LoginAgain,
         Throw, Upload, Relogin
  <2>2. QED  BY <2>1
<1>2. ASSUME ReaderStep
      PROVE  StatusInv'
  <2>1. CASE Top  BY <2>1 DEF Top
  <2>2. CASE Reset  BY <2>2 DEF Reset
  <2>3. CASE AwakeAgain  BY <2>3 DEF AwakeAgain
  <2>4. CASE Read
    <3>1. got' \in Answers /\ rpc' = "publish"  BY <2>4, HeadTailProperties DEF Read
    <3>2. QED  BY <3>1 DEF Answers
  <2>5. CASE ReadFails  BY <2>5 DEF ReadFails
  <2>6. CASE Publish  BY <2>6 DEF Publish
  <2>7. CASE Switch  BY <2>7 DEF Switch
  <2>8. CASE ReadThrows  BY <2>8 DEF ReadThrows
  <2>9. QED  BY <1>2, <2>1, <2>2, <2>3, <2>4, <2>5, <2>6, <2>7, <2>8 DEF ReaderStep
<1>3. ASSUME Answer \/ KeepSilent \/ Unasked \/ UNCHANGED vars
      PROVE  StatusInv'
  <2>1. UNCHANGED <<readerVars, status>>  BY <1>3 DEF Answer, KeepSilent, Unasked, vars
  <2>2. QED  BY <2>1
<1>4. QED  BY <1>1, <1>2, <1>3 DEF Next

\* The reader's switch knows every status it meets, although the uploader may overwrite the one
\* the reader has just published.
THEOREM SwitchAlwaysKnows == Spec => []SwitchKnowsStatus
<1>1. Init => StatusInv  BY DEF Init, StatusInv
<1>2. StatusInv => SwitchKnowsStatus  BY DEF StatusInv, SwitchKnowsStatus
<1>3. QED  BY <1>1, <1>2, StatusStep, TypeCorrect, PTL DEF Spec
-----------------------------------------------------------------------------
\* An uploader that was woken by a notification was told what the status is, and no step makes
\* it responseOk behind its back without telling it.
FreshInv == upc \in {"woken", "look"} /\ status = "responseOk" /\ ~roused => fresh

LEMMA FreshStep == TypeOK /\ FreshInv /\ [Next]_vars => FreshInv'
<1> SUFFICES ASSUME TypeOK, FreshInv, [Next]_vars
             PROVE  FreshInv'
  OBVIOUS
<1> USE DEF waitVars
<1>1. ASSUME UploaderStep
      PROVE  FreshInv'
  <2>1. CASE EnterWait  BY <2>1 DEF EnterWait, FreshInv
  <2>2. CASE ReturnTimedOut  BY <2>2 DEF ReturnTimedOut, FreshInv
  <2>3. CASE WakeForNoReason  BY <2>3 DEF WakeForNoReason, FreshInv
  <2>4. CASE ~ EnterWait /\ ~ ReturnTimedOut /\ ~ WakeForNoReason
    <3>1. UNCHANGED <<status, fresh, roused>>
      BY <1>1, <2>4
      DEF UploaderStep, Connect, ConnectThrows, StillConnected, Send, SendThrows, TimeOut, ReturnWoken,
          LoginOk, LogoutOk, LoginAgain, Throw, Upload, Relogin
    <3>2. upc' \in {"woken", "look"} => upc = "woken"
      BY <1>1, <2>4
      DEF UploaderStep, Connect, ConnectThrows, StillConnected, Send, SendThrows, TimeOut, ReturnWoken,
          LoginOk, LogoutOk, LoginAgain, Throw, Upload, Relogin, BeginLogin
    <3>3. QED  BY <3>1, <3>2 DEF FreshInv
  <2>5. QED  BY <2>1, <2>2, <2>3, <2>4
<1>2. ASSUME ReaderStep
      PROVE  FreshInv'
  <2>1. CASE Publish
    <3>1. status' = got /\ (got = "responseOk" => fresh')  BY <2>1 DEF Publish
    <3>2. QED  BY <3>1 DEF FreshInv
  <2>2. CASE Reset  BY <2>2 DEF Reset, FreshInv
  <2>3. CASE ~ Publish /\ ~ Reset
    <3>1. UNCHANGED <<status, fresh, roused, upc>>
      BY <1>2, <2>3 DEF ReaderStep, Top, AwakeAgain, Read, ReadThrows, ReadFails, Switch
    <3>2. QED  BY <3>1 DEF FreshInv
  <2>4. QED  BY <2>1, <2>2, <2>3
<1>3. ASSUME Answer \/ KeepSilent \/ Unasked \/ UNCHANGED vars
      PROVE  FreshInv'
  <2>1. UNCHANGED <<status, fresh, roused, upc>>  BY <1>3 DEF Answer, KeepSilent, Unasked, vars
  <2>2. QED  BY <2>1 DEF FreshInv
<1>4. QED  BY <1>1, <1>2, <1>3 DEF Next

\* Unless its wait ended for no reason, an ok the uploader acts on was published during the
\* wait: the status of an earlier wait never passes for an answer.
THEOREM OkIsAlwaysFresh == Spec => []OkIsFresh
<1>1. Init => FreshInv  BY DEF Init, FreshInv
<1>2. FreshInv => OkIsFresh  BY DEF FreshInv, OkIsFresh
<1>3. QED  BY <1>1, <1>2, FreshStep, TypeCorrect, PTL DEF Spec
-----------------------------------------------------------------------------
\* The counter i lags behind the logins tried by the one under way, and the interval is the
\* long one as soon as i has passed LoginTimes.
IntervalInv ==
    doing = "platformLogin" =>
        /\ upc = "loop" =>
               unanswered = i /\ (wait_timeout = "LoginIntervals2" <=> i > LoginTimes)
        /\ upc = "send" =>
               unanswered = i /\ (wait_timeout = "LoginIntervals2" <=> i >= LoginTimes)
        /\ upc \in Waiting \cup {"look"} =>
               unanswered = i + 1 /\ (wait_timeout = "LoginIntervals2" <=> i >= LoginTimes)

LEMMA IntervalStep == TypeOK /\ IntervalInv /\ [Next]_vars => IntervalInv'
<1> SUFFICES ASSUME TypeOK, IntervalInv, [Next]_vars
             PROVE  IntervalInv'
  OBVIOUS
<1> USE LoginAssumption DEF TypeOK, IntervalInv, Waiting, loginVars
<1>1. CASE Connect  BY <1>1 DEF Connect, IntervalFor
<1>2. CASE StillConnected
  <2>1. upc' = "send" /\ UNCHANGED <<i, unanswered, doing>>  BY <1>2 DEF StillConnected
  <2>2. wait_timeout' = IF i = LoginTimes THEN "LoginIntervals2" ELSE wait_timeout
    BY <1>2 DEF StillConnected, IntervalFor
  <2>3. doing = "platformLogin" =>
            unanswered = i /\ (wait_timeout = "LoginIntervals2" <=> i > LoginTimes)
    BY <1>2 DEF StillConnected
  <2>4. QED  BY <2>1, <2>2, <2>3
<1>3. CASE Send  BY <1>3 DEF Send
<1>4. CASE LoginAgain  BY <1>4 DEF LoginAgain
<1>5. CASE LogoutOk \/ Relogin  BY <1>5 DEF LogoutOk, Relogin, BeginLogin
<1>6. CASE LoginOk  BY <1>6 DEF LoginOk
<1>7. CASE EnterWait \/ WakeForNoReason \/ TimeOut \/ ReturnWoken \/ ReturnTimedOut
  BY <1>7 DEF EnterWait, WakeForNoReason, TimeOut, ReturnWoken, ReturnTimedOut
<1>8. CASE ConnectThrows \/ Throw \/ Upload \/ SendThrows
  BY <1>8 DEF ConnectThrows, Throw, Upload, SendThrows
<1>9. CASE Publish  BY <1>9 DEF Publish
<1>10. CASE Top \/ Reset \/ AwakeAgain \/ Read \/ ReadThrows \/ ReadFails \/ Switch
  BY <1>10 DEF Top, Reset, AwakeAgain, Read, ReadThrows, ReadFails, Switch
<1>11. CASE Answer \/ KeepSilent \/ Unasked \/ UNCHANGED vars
  BY <1>11 DEF Answer, KeepSilent, Unasked, vars
<1>12. QED
  BY <1>1, <1>2, <1>3, <1>4, <1>5, <1>6, <1>7, <1>8, <1>9, <1>10, <1>11
  DEF Next, UploaderStep, ReaderStep

\* Whatever the connection does, the login is repeated after the short interval up to
\* LoginTimes times and after the long one from then on.
THEOREM IntervalIsRight == Spec => []IntervalFollowsUnanswered
<1>1. Init => IntervalInv  BY LoginAssumption DEF Init, IntervalInv, Waiting
<1>2. TypeOK /\ IntervalInv => IntervalFollowsUnanswered
  BY LoginAssumption DEF TypeOK, IntervalInv, IntervalFollowsUnanswered
<1>3. QED  BY <1>1, <1>2, IntervalStep, TypeCorrect, PTL DEF Spec

-----------------------------------------------------------------------------
\* Each step of a login is one of Uplink's for the only uploader, or changes nothing it sees.
LEMMA UplinkStep == TypeOK /\ [Next]_vars => [L!Next]_L!vars
<1> SUFFICES ASSUME TypeOK, [Next]_vars
             PROVE  [L!Next]_L!vars
  OBVIOUS
<1> USE DEF Phase, Me, TypeOK, Waiting, loginVars, readerVars, wireVars, waitVars
<1>1. CASE Connect
  <2>1. L!Connect(0)  BY <1>1 DEF Connect, L!Connect
  <2>2. QED  BY <2>1 DEF L!Next
<1>2. CASE ConnectThrows \/ Throw \/ SendThrows
  <2>1. L!Quit(0)  BY <1>2 DEF ConnectThrows, Throw, SendThrows, L!Quit
  <2>2. QED  BY <2>1 DEF L!Next
<1>3. CASE Send \/ Upload \/ ReadFails
  <2>1. UNCHANGED <<Phase, rounds>>  BY <1>3 DEF Send, Upload, ReadFails
  <2>2. connected' = connected \/ (connected /\ ~connected')
    BY <1>3 DEF Send, Upload, ReadFails
  <2>3. CASE connected' = connected  BY <2>1, <2>3 DEF L!vars
  <2>4. CASE connected /\ ~connected'
    <3>1. L!Drop(0)  BY <2>1, <2>4 DEF L!Drop
    <3>2. QED  BY <3>1 DEF L!Next
  <2>5. QED  BY <2>2, <2>3, <2>4
<1>4. CASE LoginOk
  <2>1. L!LoginOk(0)  BY <1>4 DEF LoginOk, L!LoginOk
  <2>2. QED  BY <2>1 DEF L!Next
<1>5. CASE LogoutOk
  <2>1. L!LogoutOk(0)  BY <1>5 DEF LogoutOk, BeginLogin, L!LogoutOk
  <2>2. QED  BY <2>1 DEF L!Next
<1>6. CASE Relogin
  <2>1. L!Relogin(0)  BY <1>6 DEF Relogin, BeginLogin, L!Relogin
  <2>2. QED  BY <2>1 DEF L!Next
<1>7. CASE \/ StillConnected \/ EnterWait \/ WakeForNoReason \/ TimeOut \/ ReturnWoken
           \/ ReturnTimedOut \/ LoginAgain
           \/ Top \/ Reset \/ AwakeAgain \/ Read \/ ReadThrows \/ Publish \/ Switch
           \/ Answer \/ KeepSilent \/ Unasked \/ UNCHANGED vars
  <2>1. UNCHANGED <<connected, Phase, rounds>>
    BY <1>7
    DEF StillConnected, EnterWait, WakeForNoReason, TimeOut, ReturnWoken, ReturnTimedOut,
        LoginAgain, Top, Reset, AwakeAgain, Read, ReadThrows, Publish, Switch, Answer, KeepSilent,
        Unasked, vars
  <2>2. QED  BY <2>1 DEF L!vars
<1>8. QED
  BY <1>1, <1>2, <1>3, <1>4, <1>5, <1>6, <1>7 DEF Next, UploaderStep, ReaderStep

\* For every number of practice rounds and repetitions, a login with all its sends, waits and
\* answers is one step of Uplink between stutters: what Forwarding takes it for.
THEOREM LoginIsOneStep == Spec => RefinesUplink
<1>1. Init => L!Init
  BY LoginAssumption DEF Init, L!Init, Phase, Me
<1>2. QED
  BY <1>1, UplinkStep, TypeCorrect, PTL DEF Spec, L!Spec, RefinesUplink
=============================================================================
