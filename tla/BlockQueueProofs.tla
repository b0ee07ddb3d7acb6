-------------------------- MODULE BlockQueueProofs --------------------------
(***************************************************************************)
(* What holds of BlockQueue for every set of threads, every type of data   *)
(* and every capacity.                                                     *)
(*                                                                         *)
(* The type invariant is inductive as it stands.  The capacity bound and   *)
(* the wakeup invariant need it, and the refinement needs the types and    *)
(* the capacity bound, from which ~isFull gives the room that the abstract *)
(* put asks for.                                                           *)
(***************************************************************************)
EXTENDS BlockQueue, FiniteSetTheorems, SequenceTheorems, TLAPS

USE QueueAssumption

\* What a put stores is still a sequence of data, one longer; a take leaves one shorter.
LEMMA InsertedType ==
    ASSUME NEW c \in PutCalls, queue \in Seq(Data)
    PROVE  /\ Inserted(c) \in Seq(Data)
           /\ Len(Inserted(c)) = Len(queue) + 1
<1>1. c.data \in Data  BY DEF PutCalls
<1>2. CASE c.front
  <2>1. <<c.data>> \in Seq(Data) /\ Len(<<c.data>>) = 1  BY <1>1
  <2>2. <<c.data>> \o queue \in Seq(Data)
        /\ Len(<<c.data>> \o queue) = Len(<<c.data>>) + Len(queue)
    BY <2>1, ConcatProperties
  <2>3. Len(queue) \in Nat  BY LenProperties
  <2>4. QED  BY <1>2, <2>1, <2>2, <2>3 DEF Inserted
<1>3. CASE ~c.front  BY <1>1, <1>3, AppendProperties DEF Inserted
<1>4. QED  BY <1>2, <1>3

LEMMA RemovedType ==
    ASSUME queue \in Seq(Data), ~isEmpty
    PROVE  /\ Head(queue) \in Data
           /\ Tail(queue) \in Seq(Data)
           /\ Len(Tail(queue)) = Len(queue) - 1
           /\ Len(queue) \in Nat \ {0}
BY HeadTailProperties, EmptySeq, LenProperties DEF isEmpty

-----------------------------------------------------------------------------
\* Every variable keeps its type, and a thread sleeps on a condition variable only in the
\* operation that waits there (lines 82-85 and 100-103).
THEOREM TypeCorrect == Spec => []TypeOK
<1>1. Init => TypeOK
  BY DEF Init, TypeOK
<1>2. TypeOK /\ [Next]_vars => TypeOK'
  <2> SUFFICES ASSUME TypeOK, [Next]_vars
               PROVE  TypeOK'
    OBVIOUS
  <2> USE DEF TypeOK
  <2>1. ASSUME NEW t \in Threads, Call(t)
        PROVE  TypeOK'
    <3>1. t \notin notEmpty \cup notFull  BY <2>1 DEF Call, PutCalls, TakeCalls
    <3>2. PICK c \in PutCalls \cup TakeCalls : calls' = [calls EXCEPT ![t] = c]
      BY <2>1 DEF Call
    <3>3. calls' \in [Threads -> PutCalls \cup TakeCalls \cup {Idle}]  BY <3>2
    <3>4. \A u \in Threads \ {t} : calls'[u] = calls[u]  BY <3>2
    <3>5. UNCHANGED <<queue, result, notEmpty, notFull>>  BY <2>1 DEF Call
    <3>6. /\ notEmpty \subseteq {u \in Threads : calls'[u] \in TakeCalls}
          /\ notFull \subseteq {u \in Threads : calls'[u] \in PutCalls}
      BY <3>1, <3>4
    <3>7. QED  BY <3>3, <3>5, <3>6
  <2>2. ASSUME NEW t \in Threads, PutWaits(t)
        PROVE  TypeOK'
    BY <2>2 DEF PutWaits, AwakePutter
  <2>3. ASSUME NEW t \in Threads, PutInserts(t)
        PROVE  TypeOK'
    <3>1. Inserted(calls[t]) \in Seq(Data)
      BY <2>3, InsertedType DEF PutInserts, AwakePutter
    <3>2. t \notin notEmpty /\ t \notin notFull
      BY <2>3 DEF PutInserts, AwakePutter, PutCalls, TakeCalls
    <3>3. notEmpty' \subseteq notEmpty  BY <2>3 DEF PutInserts, NotifyOneNotEmpty
    <3>4. calls' = [calls EXCEPT ![t] = Idle] /\ queue' = Inserted(calls[t])
          /\ UNCHANGED <<result, notFull>>
      BY <2>3 DEF PutInserts
    <3>5. QED  BY <3>1, <3>2, <3>3, <3>4
  <2>4. ASSUME NEW t \in Threads, TakeWaits(t)
        PROVE  TypeOK'
    BY <2>4 DEF TakeWaits, AwakeTaker
  <2>5. ASSUME NEW t \in Threads, TakeRemoves(t)
        PROVE  TypeOK'
    <3>1. Head(queue) \in Data /\ Tail(queue) \in Seq(Data)
      BY <2>5, RemovedType DEF TakeRemoves
    <3>2. t \notin notEmpty /\ t \notin notFull
      BY <2>5 DEF TakeRemoves, AwakeTaker, PutCalls, TakeCalls
    <3>3. notFull' \subseteq notFull  BY <2>5 DEF TakeRemoves, NotifyOneNotFull
    <3>4. calls' = [calls EXCEPT ![t] = Idle] /\ queue' = Tail(queue)
          /\ result' = [result EXCEPT ![t] = Head(queue)] /\ UNCHANGED notEmpty
      BY <2>5 DEF TakeRemoves
    <3>5. QED  BY <3>1, <3>2, <3>3, <3>4
  <2>6. ASSUME NEW t \in Threads, SpuriousWakeup(t)
        PROVE  TypeOK'
    BY <2>6 DEF SpuriousWakeup
  <2>7. CASE UNCHANGED vars
    BY <2>7 DEF vars
  <2>8. QED
    BY <2>1, <2>2, <2>3, <2>4, <2>5, <2>6, <2>7 DEF Next, Put, Take
<1>3. QED  BY <1>1, <1>2, PTL DEF Spec

-----------------------------------------------------------------------------
\* The queue never holds more than its capacity, for any number of threads: each put tests
\* isFull again after it was woken (line 82), and one element is added at a time.
THEOREM CapacityIsRespected == Spec => []CapacityRespected
<1>1. Init => CapacityRespected
  BY DEF Init, CapacityRespected
<1>2. TypeOK /\ CapacityRespected /\ [Next]_vars => CapacityRespected'
  <2> SUFFICES ASSUME TypeOK, CapacityRespected, [Next]_vars
               PROVE  CapacityRespected'
    OBVIOUS
  <2> USE DEF TypeOK, CapacityRespected
  <2>1. Len(queue) \in Nat  BY LenProperties
  <2>2. ASSUME NEW t \in Threads, PutInserts(t)
        PROVE  CapacityRespected'
    <3>1. queue' = Inserted(calls[t]) /\ Len(queue) # Capacity
      BY <2>2 DEF PutInserts, isFull
    <3>2. Len(Inserted(calls[t])) = Len(queue) + 1
      BY <2>2, InsertedType DEF PutInserts, AwakePutter
    <3>3. QED  BY <2>1, <3>1, <3>2
  <2>3. ASSUME NEW t \in Threads, TakeRemoves(t)
        PROVE  CapacityRespected'
    BY <2>1, <2>3, RemovedType DEF TakeRemoves
  <2>4. CASE UNCHANGED queue
    BY <2>4
  <2>5. QED
    BY <2>2, <2>3, <2>4 DEF Next, Put, Take, Call, PutWaits, TakeWaits, SpuriousWakeup, vars
<1>3. QED  BY <1>1, <1>2, TypeCorrect, PTL DEF Spec
-----------------------------------------------------------------------------
LEMMA AwakeSetsAreFinite ==
    /\ IsFiniteSet(AwakeTakers) /\ Cardinality(AwakeTakers) \in Nat
    /\ IsFiniteSet(AwakePutters) /\ Cardinality(AwakePutters) \in Nat
BY FS_Subset, FS_CardinalityType DEF AwakeTakers, AwakePutters

\* Two sets of threads of which one has at least the members of the other.
LEMMA MoreThreads ==
    ASSUME NEW S \in SUBSET Threads, NEW T \in SUBSET Threads, S \subseteq T
    PROVE  /\ Cardinality(S) <= Cardinality(T)
           /\ Cardinality(S) \in Nat /\ Cardinality(T) \in Nat
BY FS_Subset, FS_CardinalityType

LEMMA OneThreadLess ==
    ASSUME NEW S \in SUBSET Threads, NEW T \in SUBSET Threads, NEW t \in S, S \ {t} \subseteq T
    PROVE  /\ Cardinality(S) - 1 <= Cardinality(T)
           /\ Cardinality(S) \in Nat /\ Cardinality(T) \in Nat
<1>1. IsFiniteSet(S) /\ Cardinality(S) \in Nat  BY FS_Subset, FS_CardinalityType
<1>2. Cardinality(S \ {t}) = Cardinality(S) - 1  BY <1>1, FS_RemoveElement
<1>3. QED  BY <1>1, <1>2, MoreThreads

LEMMA OneThreadMore ==
    ASSUME NEW S \in SUBSET Threads, NEW T \in SUBSET Threads,
           NEW t \in T, t \notin S, S \subseteq T
    PROVE  /\ Cardinality(S) + 1 <= Cardinality(T)
           /\ Cardinality(S) \in Nat /\ Cardinality(T) \in Nat
<1>1. IsFiniteSet(S) /\ Cardinality(S) \in Nat  BY FS_Subset, FS_CardinalityType
<1>2. Cardinality(S \cup {t}) = Cardinality(S) + 1  BY <1>1, FS_AddElement
<1>3. S \cup {t} \in SUBSET Threads /\ S \cup {t} \subseteq T  OBVIOUS
<1>4. QED  BY <1>1, <1>2, <1>3, MoreThreads

\* No wakeup is lost for any number of threads, although put and take notify one waiter
\* only (lines 91 and 106): each element stored wakes a taker or finds none asleep, and a
\* woken taker removes one element; so it is with free slots and putters.
THEOREM NoWakeupIsLost == Spec => []NoLostWakeup
<1> USE DEF NoLostWakeup
<1>1. Init => NoLostWakeup
  BY DEF Init
<1>2. TypeOK /\ CapacityRespected /\ NoLostWakeup /\ [Next]_vars => NoLostWakeup'
  <2> SUFFICES ASSUME TypeOK, CapacityRespected, NoLostWakeup, [Next]_vars
               PROVE  NoLostWakeup'
    OBVIOUS
  <2>1. /\ AwakeTakers \in SUBSET Threads /\ AwakeTakers' \in SUBSET Threads
        /\ AwakePutters \in SUBSET Threads /\ AwakePutters' \in SUBSET Threads
    BY DEF AwakeTakers, AwakePutters
  <2>2. Len(queue) \in Nat /\ Len(queue) <= Capacity
    BY LenProperties DEF TypeOK, CapacityRespected
  <2>3. calls \in [Threads -> PutCalls \cup TakeCalls \cup {Idle}]  BY DEF TypeOK
  <2> USE DEF AwakeTakers, AwakePutters, AwakeTaker, AwakePutter
  <2>4. ASSUME NEW t \in Threads, Call(t)
        PROVE  NoLostWakeup'
    <3>1. UNCHANGED <<queue, notEmpty, notFull>> /\ calls[t] = Idle
          /\ \A u \in Threads \ {t} : calls'[u] = calls[u]
      BY <2>3, <2>4 DEF Call
    <3>2. AwakeTakers \subseteq AwakeTakers' /\ AwakePutters \subseteq AwakePutters'
      BY <3>1 DEF PutCalls, TakeCalls
    <3>3. /\ Cardinality(AwakeTakers) <= Cardinality(AwakeTakers')
          /\ Cardinality(AwakePutters) <= Cardinality(AwakePutters')
          /\ Cardinality(AwakeTakers) \in Nat /\ Cardinality(AwakeTakers') \in Nat
          /\ Cardinality(AwakePutters) \in Nat /\ Cardinality(AwakePutters') \in Nat
      BY <2>1, <3>2, MoreThreads
    <3>4. QED  BY <2>2, <3>1, <3>3
  <2>5. ASSUME NEW t \in Threads, PutWaits(t)
        PROVE  NoLostWakeup'
    <3>1. UNCHANGED <<queue, calls, notEmpty>> /\ Len(queue) = Capacity
      BY <2>5 DEF PutWaits, isFull
    <3>2. AwakeTakers' = AwakeTakers  BY <3>1
    <3>3. Cardinality(AwakePutters') \in Nat  BY <2>1, MoreThreads
    <3>4. QED  BY <2>2, <3>1, <3>2, <3>3
  <2>6. ASSUME NEW t \in Threads, PutInserts(t)
        PROVE  NoLostWakeup'
    <3>1. Len(queue') = Len(queue) + 1
      BY <2>6, InsertedType DEF PutInserts, AwakePutter, TypeOK
    <3>2. UNCHANGED notFull /\ calls[t] \in PutCalls /\ t \notin notFull
          /\ \A u \in Threads \ {t} : calls'[u] = calls[u]
      BY <2>3, <2>6 DEF PutInserts
    <3>3. notEmpty' # {} => Len(queue') <= Cardinality(AwakeTakers')
      <4> SUFFICES ASSUME notEmpty' # {}
                   PROVE  Len(queue') <= Cardinality(AwakeTakers')
        OBVIOUS
      <4>1. PICK w \in notEmpty : notEmpty' = notEmpty \ {w}
        BY <2>6 DEF PutInserts, NotifyOneNotEmpty
      <4>2. w \in Threads /\ calls[w] \in TakeCalls /\ w # t
        BY <3>2, <4>1 DEF TypeOK, PutCalls, TakeCalls
      <4>3. AwakeTakers \subseteq AwakeTakers' /\ w \in AwakeTakers' /\ w \notin AwakeTakers
        BY <3>2, <4>1, <4>2 DEF PutCalls, TakeCalls
      <4>4. /\ Cardinality(AwakeTakers) + 1 <= Cardinality(AwakeTakers')
            /\ Cardinality(AwakeTakers) \in Nat /\ Cardinality(AwakeTakers') \in Nat
        BY <2>1, <4>3, OneThreadMore
      <4>5. Len(queue) <= Cardinality(AwakeTakers)  BY <4>1
      <4>6. QED  BY <2>2, <3>1, <4>4, <4>5
    <3>4. notFull' # {} => Capacity - Len(queue') <= Cardinality(AwakePutters')
      <4>1. t \in AwakePutters /\ AwakePutters \ {t} \subseteq AwakePutters'
        BY <3>2
      <4>2. /\ Cardinality(AwakePutters) - 1 <= Cardinality(AwakePutters')
            /\ Cardinality(AwakePutters) \in Nat /\ Cardinality(AwakePutters') \in Nat
        BY <2>1, <4>1, OneThreadLess
      <4>3. QED  BY <2>2, <3>1, <3>2, <4>2
    <3>5. QED  BY <3>3, <3>4
  <2>7. ASSUME NEW t \in Threads, TakeWaits(t)
        PROVE  NoLostWakeup'
    <3>1. UNCHANGED <<queue, calls, notFull>> /\ Len(queue) = 0
      BY <2>7 DEF TakeWaits, isEmpty
    <3>2. AwakePutters' = AwakePutters  BY <3>1
    <3>3. Cardinality(AwakeTakers') \in Nat  BY <2>1, MoreThreads
    <3>4. QED  BY <2>2, <3>1, <3>2, <3>3
  <2>8. ASSUME NEW t \in Threads, TakeRemoves(t)
        PROVE  NoLostWakeup'
    <3>1. Len(queue') = Len(queue) - 1 /\ Len(queue) > 0
      BY <2>2, <2>8, RemovedType DEF TakeRemoves, TypeOK
    <3>2. UNCHANGED notEmpty /\ calls[t] \in TakeCalls /\ t \notin notEmpty
          /\ \A u \in Threads \ {t} : calls'[u] = calls[u]
      BY <2>3, <2>8 DEF TakeRemoves
    <3>3. notFull' # {} => Capacity - Len(queue') <= Cardinality(AwakePutters')
      <4> SUFFICES ASSUME notFull' # {}
                   PROVE  Capacity - Len(queue') <= Cardinality(AwakePutters')
        OBVIOUS
      <4>1. PICK w \in notFull : notFull' = notFull \ {w}
        BY <2>8 DEF TakeRemoves, NotifyOneNotFull
      <4>2. w \in Threads /\ calls[w] \in PutCalls /\ w # t
        BY <3>2, <4>1 DEF TypeOK, PutCalls, TakeCalls
      <4>3. AwakePutters \subseteq AwakePutters' /\ w \in AwakePutters' /\ w \notin AwakePutters
        BY <3>2, <4>1, <4>2 DEF PutCalls, TakeCalls
      <4>4. /\ Cardinality(AwakePutters) + 1 <= Cardinality(AwakePutters')
            /\ Cardinality(AwakePutters) \in Nat /\ Cardinality(AwakePutters') \in Nat
        BY <2>1, <4>3, OneThreadMore
      <4>5. Capacity - Len(queue) <= Cardinality(AwakePutters)  BY <4>1
      <4>6. QED  BY <2>2, <3>1, <4>4, <4>5
    <3>4. notEmpty' # {} => Len(queue') <= Cardinality(AwakeTakers')
      <4>1. t \in AwakeTakers /\ AwakeTakers \ {t} \subseteq AwakeTakers'
        BY <3>2
      <4>2. /\ Cardinality(AwakeTakers) - 1 <= Cardinality(AwakeTakers')
            /\ Cardinality(AwakeTakers) \in Nat /\ Cardinality(AwakeTakers') \in Nat
        BY <2>1, <4>1, OneThreadLess
      <4>3. QED  BY <2>2, <3>1, <3>2, <4>2
    <3>5. QED  BY <3>3, <3>4
  <2>9. ASSUME NEW t \in Threads, SpuriousWakeup(t)
        PROVE  NoLostWakeup'
    <3>1. UNCHANGED <<queue, calls>>
          /\ notEmpty' = notEmpty \ {t} /\ notFull' = notFull \ {t}
      BY <2>9 DEF SpuriousWakeup
    <3>2. AwakeTakers \subseteq AwakeTakers' /\ AwakePutters \subseteq AwakePutters'
      BY <3>1
    <3>3. /\ Cardinality(AwakeTakers) <= Cardinality(AwakeTakers')
          /\ Cardinality(AwakePutters) <= Cardinality(AwakePutters')
          /\ Cardinality(AwakeTakers) \in Nat /\ Cardinality(AwakeTakers') \in Nat
          /\ Cardinality(AwakePutters) \in Nat /\ Cardinality(AwakePutters') \in Nat
      BY <2>1, <3>2, MoreThreads
    <3>4. QED  BY <2>2, <3>1, <3>3
  <2>10. CASE UNCHANGED vars
    BY <2>10 DEF vars
  <2>11. QED
    BY <2>4, <2>5, <2>6, <2>7, <2>8, <2>9, <2>10 DEF Next, Put, Take
<1>3. QED  BY <1>1, <1>2, TypeCorrect, CapacityIsRespected, PTL DEF Spec

-----------------------------------------------------------------------------
\* Every execution of the class is one of the atomic bounded queue: waiting, waking and
\* waking for no reason change nothing a caller can see, and inserting and removing are
\* the abstract operations.
THEOREM ImplementsBoundedQueue == Spec => RefinesBoundedQueue
<1> USE DEF PutCalls, TakeCalls, Abstract!PutCalls, Abstract!TakeCalls
<1>1. Init => Abstract!Init
  BY DEF Init, Abstract!Init
<1>2. TypeOK /\ CapacityRespected /\ [Next]_vars => [Abstract!Next]_Abstract!vars
  <2> SUFFICES ASSUME TypeOK, CapacityRespected, [Next]_vars
               PROVE  [Abstract!Next]_Abstract!vars
    OBVIOUS
  <2>1. ASSUME NEW t \in Threads, Call(t)
        PROVE  Abstract!Next
    <3>1. Abstract!Call(t)  BY <2>1 DEF Call, Abstract!Call
    <3>2. QED  BY <3>1 DEF Abstract!Next
  <2>2. ASSUME NEW t \in Threads, PutInserts(t)
        PROVE  Abstract!Next
    <3>1. Len(queue) < Capacity
      BY <2>2, LenProperties DEF PutInserts, isFull, TypeOK, CapacityRespected
    <3>2. Abstract!Put(t)
      BY <2>2, <3>1 DEF PutInserts, AwakePutter, Inserted, Abstract!Put, Abstract!Putting
    <3>3. QED  BY <3>2 DEF Abstract!Next
  <2>3. ASSUME NEW t \in Threads, TakeRemoves(t)
        PROVE  Abstract!Next
    <3>1. Abstract!Take(t)
      BY <2>3 DEF TakeRemoves, AwakeTaker, isEmpty, Abstract!Take, Abstract!Taking
    <3>2. QED  BY <3>1 DEF Abstract!Next
  <2>4. ASSUME NEW t \in Threads, PutWaits(t) \/ TakeWaits(t) \/ SpuriousWakeup(t)
        PROVE  UNCHANGED Abstract!vars
    BY <2>4 DEF PutWaits, TakeWaits, SpuriousWakeup, Abstract!vars
  <2>5. CASE UNCHANGED vars
    BY <2>5 DEF vars, Abstract!vars
  <2>6. QED
    BY <2>1, <2>2, <2>3, <2>4, <2>5 DEF Next, Put, Take
<1>3. QED
  BY <1>1, <1>2, TypeCorrect, CapacityIsRespected, PTL
  DEF Spec, Abstract!Spec, RefinesBoundedQueue
=============================================================================
