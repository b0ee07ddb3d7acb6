----------------------------- MODULE BlockQueue -----------------------------
(***************************************************************************)
(* blockqueue::BlockQueue<DataT> (src/src/BlockQueue.h): a std::list, a    *)
(* mutex and the condition variables m_notEmpty and m_notFull.             *)
(*                                                                         *)
(* A thread inside put or take is either contending for m_mutex or blocked *)
(* on a condition variable.  Everything the code does between acquiring    *)
(* the mutex and releasing it, by returning or by waiting, is one action,  *)
(* so the mutex needs no variable.  A thread that is woken goes back to    *)
(* contending and tests its condition again: the while loops of lines 82   *)
(* and 100.  A condition variable may wake a waiter for no reason          *)
(* (SpuriousWakeup).                                                       *)
(*                                                                         *)
(* take(seconds) and clear() have no caller in the program and are left    *)
(* out.                                                                    *)
(***************************************************************************)
EXTENDS Naturals, Sequences, FiniteSets

CONSTANTS
    Threads,    \* the threads that share the queue
    Data,       \* DataT
    Capacity,   \* m_capacity
    Idle        \* the value of calls[t] while t is in no operation

\* A capacity of 0 is legal to the constructor: such a queue is always full.
ASSUME QueueAssumption ==
    /\ IsFiniteSet(Threads)
    /\ Capacity \in Nat
    /\ Idle \notin [op : {"put"}, data : Data, front : BOOLEAN] \cup [op : {"take"}]

VARIABLES
    queue,      \* m_queue
    calls,      \* the operation each thread is in, with put's arguments
    result,     \* what the last take of each thread returned
    notEmpty,   \* the threads blocked on m_notEmpty
    notFull     \* the threads blocked on m_notFull

vars == <<queue, calls, result, notEmpty, notFull>>

PutCalls  == [op : {"put"}, data : Data, front : BOOLEAN]
TakeCalls == [op : {"take"}]

isFull_OffByOne == Len(queue) > Capacity

isFull  == Len(queue) = Capacity
isEmpty == queue = <<>>

\* In put or take, and not blocked: contending for the mutex.
AwakePutter(t) == calls[t] \in PutCalls /\ t \notin notFull
AwakeTaker(t)  == calls[t] \in TakeCalls /\ t \notin notEmpty

AwakeTakers  == {t \in Threads : AwakeTaker(t)}
AwakePutters == {t \in Threads : AwakePutter(t)}

Init ==
    /\ queue = <<>>
    /\ calls = [t \in Threads |-> Idle]
    /\ result \in [Threads -> Data]
    /\ notEmpty = {}
    /\ notFull = {}

Call(t) ==
    /\ calls[t] = Idle
    /\ \E c \in PutCalls \cup TakeCalls : calls' = [calls EXCEPT ![t] = c]
    /\ UNCHANGED <<queue, result, notEmpty, notFull>>

-----------------------------------------------------------------------------
(* An operator named Operation_Defect is a mistaken variant of Operation,  *)
(* used only to check that the properties would notice it.                 *)

NotifyOneNotEmpty_OnlyWhenItWasEmpty ==
    IF notEmpty = {} \/ ~isEmpty THEN UNCHANGED notEmpty
                                ELSE \E w \in notEmpty : notEmpty' = notEmpty \ {w}

\* notify_one: one of the waiters, if there is any, resumes contending.
NotifyOneNotEmpty ==
    IF notEmpty = {} THEN UNCHANGED notEmpty
                     ELSE \E w \in notEmpty : notEmpty' = notEmpty \ {w}

NotifyOneNotFull_Forgotten == UNCHANGED notFull

NotifyOneNotFull ==
    IF notFull = {} THEN UNCHANGED notFull
                    ELSE \E w \in notFull : notFull' = notFull \ {w}

\* push_front or push_back
Inserted_AlwaysAtTheBack(c) == Append(queue, c.data)

Inserted(c) == IF c.front THEN <<c.data>> \o queue ELSE Append(queue, c.data)

PutWaits_OnNotEmpty(t) ==
    /\ AwakePutter(t)
    /\ isFull
    /\ notEmpty' = notEmpty \cup {t}
    /\ UNCHANGED <<queue, calls, result, notFull>>

PutWaits(t) ==
    /\ AwakePutter(t)
    /\ isFull
    /\ notFull' = notFull \cup {t}
    /\ UNCHANGED <<queue, calls, result, notEmpty>>

PutInserts(t) ==
    /\ AwakePutter(t)
    /\ ~isFull
    /\ queue' = Inserted(calls[t])
    /\ NotifyOneNotEmpty
    /\ calls' = [calls EXCEPT ![t] = Idle]
    /\ UNCHANGED <<result, notFull>>

TakeWaits(t) ==
    /\ AwakeTaker(t)
    /\ isEmpty
    /\ notEmpty' = notEmpty \cup {t}
    /\ UNCHANGED <<queue, calls, result, notFull>>

TakeRemoves(t) ==
    /\ AwakeTaker(t)
    /\ ~isEmpty
    /\ result' = [result EXCEPT ![t] = Head(queue)]
    /\ queue' = Tail(queue)
    /\ NotifyOneNotFull
    /\ calls' = [calls EXCEPT ![t] = Idle]
    /\ UNCHANGED notEmpty

SpuriousWakeup(t) ==
    /\ t \in notEmpty \cup notFull
    /\ notEmpty' = notEmpty \ {t}
    /\ notFull' = notFull \ {t}
    /\ UNCHANGED <<queue, calls, result>>

Put(t)  == PutWaits(t) \/ PutInserts(t)
Take(t) == TakeWaits(t) \/ TakeRemoves(t)

Next == \E t \in Threads : Call(t) \/ Put(t) \/ Take(t) \/ SpuriousWakeup(t)

Spec == Init /\ [][Next]_vars

\* A thread that contends for the mutex gets it at last: every critical section is short
\* and none waits inside.  Nobody has to call an operation, or to wake up spuriously.
FairSpec == Spec /\ \A t \in Threads : WF_vars(Put(t)) /\ WF_vars(Take(t))

-----------------------------------------------------------------------------
TypeOK ==
    /\ queue \in Seq(Data)
    /\ calls \in [Threads -> PutCalls \cup TakeCalls \cup {Idle}]
    /\ result \in [Threads -> Data]
    /\ notEmpty \subseteq {t \in Threads : calls[t] \in TakeCalls}
    /\ notFull \subseteq {t \in Threads : calls[t] \in PutCalls}

\* The queue never holds more than its capacity, although isFull (line 69) tests for
\* equality only and every put tests it anew after each wait.
CapacityRespected == Len(queue) <= Capacity

\* One notify_one per element and one per free slot is enough: while a taker sleeps,
\* there are at least as many takers on their way as there are elements, and while a
\* putter sleeps, as many putters on their way as there are free slots.
NoLostWakeup ==
    /\ notEmpty # {} => Len(queue) <= Cardinality(AwakeTakers)
    /\ notFull # {} => Capacity - Len(queue) <= Cardinality(AwakePutters)

Abstract == INSTANCE BoundedQueue WITH queue <- queue, calls <- calls, result <- result

\* put and take of the class look atomic to their callers: through all the waiting and
\* waking, each takes effect in one step, in the order and at the end it was asked for.
RefinesBoundedQueue == Abstract!Spec

\* While some put, or some take, is possible, one of the callers waiting for it completes.
ServesItsCallers == Abstract!Service
=============================================================================
