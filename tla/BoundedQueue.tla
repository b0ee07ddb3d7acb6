---------------------------- MODULE BoundedQueue ----------------------------
(***************************************************************************)
(* What blockqueue::BlockQueue promises the threads that share it: a       *)
(* bounded sequence on which put and take each happen in one indivisible   *)
(* step, a put only while there is room and a take only while there is an  *)
(* element, and no caller left waiting while the queue lets one of the     *)
(* callers of its operation proceed.  Nothing is said of mutexes or        *)
(* condition variables: module BlockQueue adds them and implements this.   *)
(***************************************************************************)
EXTENDS Naturals, Sequences

CONSTANTS
    Threads,    \* the threads that share the queue
    Data,       \* what it holds
    Capacity,   \* m_capacity
    Idle        \* the value of calls[t] while t is in no operation

VARIABLES
    queue,      \* m_queue
    calls,      \* the operation each thread is in
    result      \* what the last take of each thread returned

vars == <<queue, calls, result>>

PutCalls  == [op : {"put"}, data : Data, front : BOOLEAN]
TakeCalls == [op : {"take"}]

Putting(t) == calls[t] \in PutCalls
Taking(t)  == calls[t] \in TakeCalls

Init ==
    /\ queue = <<>>
    /\ calls = [t \in Threads |-> Idle]
    /\ result \in [Threads -> Data]

Call(t) ==
    /\ calls[t] = Idle
    /\ \E c \in PutCalls \cup TakeCalls : calls' = [calls EXCEPT ![t] = c]
    /\ UNCHANGED <<queue, result>>

Put(t) ==
    /\ Putting(t)
    /\ Len(queue) < Capacity
    /\ queue' = IF calls[t].front THEN <<calls[t].data>> \o queue
                                  ELSE Append(queue, calls[t].data)
    /\ calls' = [calls EXCEPT ![t] = Idle]
    /\ UNCHANGED result

Take(t) ==
    /\ Taking(t)
    /\ queue # <<>>
    /\ result' = [result EXCEPT ![t] = Head(queue)]
    /\ queue' = Tail(queue)
    /\ calls' = [calls EXCEPT ![t] = Idle]

Next == \E t \in Threads : Call(t) \/ Put(t) \/ Take(t)

Spec == Init /\ [][Next]_vars

\* Not every caller is served (notify_one picks one, and a newcomer may overtake it),
\* but while an operation is possible for some caller, some caller completes it.
Service ==
    /\ WF_vars(\E t \in Threads : Put(t))
    /\ WF_vars(\E t \in Threads : Take(t))
=============================================================================
