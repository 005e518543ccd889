-------------------------- MODULE WaitableQueueProofs --------------------------
(***************************************************************************)
(* Proofs about WaitableQueue for any finite sets of threads and any       *)
(* number of items.                                                        *)
(***************************************************************************)
EXTENDS WaitableQueue, FiniteSetTheorems, TLAPS

(***************************************************************************)
(* The inductive invariant.  NoLostWakeup counts the woken threads, so a   *)
(* thread that is woken must not have been counted before: OnePlace.       *)
(***************************************************************************)
IInv == TypeOK /\ OnePlace /\ NoLostWakeup

(***************************************************************************)
(* The sets that NoLostWakeup counts are finite.                           *)
(***************************************************************************)
LEMMA Finite ==
  ASSUME TypeOK
  PROVE  /\ IsFiniteSet(notifying) /\ Cardinality(notifying) \in Nat
         /\ IsFiniteSet(woken) /\ Cardinality(woken) \in Nat
<1>1. IsFiniteSet(notifying) /\ IsFiniteSet(woken)
  BY FS_Subset, ThreadsAssumption DEF TypeOK, Threads
<1> QED
  BY <1>1, FS_CardinalityType

(***************************************************************************)
(* Taking the front of the queue: one item less, all of them numbers.      *)
(***************************************************************************)
LEMMA TakeFrontFacts ==
  ASSUME TypeOK, TakeFront
  PROVE  /\ m_container_queue' \in Seq(Nat)
         /\ delivered' \in Seq(Nat)
         /\ Len(m_container_queue') = Len(m_container_queue) - 1
         /\ Len(m_container_queue) \in Nat
BY DEF TypeOK, TakeFront

(***************************************************************************)
(* Pushing: one item more.                                                 *)
(***************************************************************************)
LEMMA PushFacts ==
  ASSUME TypeOK, NEW p \in Producers, Push(p)
  PROVE  /\ m_container_queue' \in Seq(Nat)
         /\ Len(m_container_queue') = Len(m_container_queue) + 1
         /\ Len(m_container_queue) \in Nat
<1>1. Pushed + 1 \in Nat
  BY DEF TypeOK, Pushed
<1> QED
  BY <1>1 DEF TypeOK, Push

(***************************************************************************)
(* The initial state satisfies the invariant.                              *)
(***************************************************************************)
LEMMA InitInv == Init => IInv
<1> SUFFICES ASSUME Init PROVE IInv
  OBVIOUS
<1>1. swallowed \in 0 .. MaxSwallowed
  BY BoundsAssumption DEF Init
<1>2. TypeOK
  BY <1>1 DEF Init, TypeOK
<1> QED
  BY <1>2 DEF Init, IInv, OnePlace, NoLostWakeup

(***************************************************************************)
(* Every step keeps the types and leaves each thread in one place.         *)
(***************************************************************************)
LEMMA NextTypeOK == TypeOK /\ OnePlace /\ [Next]_vars => TypeOK' /\ OnePlace'
<1> SUFFICES ASSUME TypeOK, OnePlace, [Next]_vars PROVE TypeOK' /\ OnePlace'
  OBVIOUS
<1>1. ASSUME NEW p \in Producers, Push(p) PROVE TypeOK' /\ OnePlace'
  BY <1>1, PushFacts DEF TypeOK, OnePlace, Push
<1>2. ASSUME NEW p \in Producers, NotifyOne(p) PROVE TypeOK' /\ OnePlace'
  BY <1>2 DEF TypeOK, OnePlace, NotifyOne, Wake
<1>3. ASSUME NEW c \in Threads, Pop(c) PROVE TypeOK' /\ OnePlace'
  <2>1. CASE TakeFront /\ UNCHANGED waiting
    BY <1>3, <2>1, TakeFrontFacts DEF TypeOK, OnePlace, Pop
  <2>2. CASE /\ waiting' = waiting \cup {c}
             /\ UNCHANGED <<m_container_queue, delivered>>
    BY <1>3, <2>2 DEF TypeOK, OnePlace, Pop, Inside
  <2> QED BY <1>3, <2>1, <2>2 DEF Pop
<1>4. ASSUME NEW c \in Threads, Recheck(c) PROVE TypeOK' /\ OnePlace'
  <2>1. CASE TakeFront /\ UNCHANGED waiting
    BY <1>4, <2>1, TakeFrontFacts DEF TypeOK, OnePlace, Recheck
  <2>2. CASE /\ waiting' = waiting \cup {c}
             /\ UNCHANGED <<m_container_queue, delivered>>
    BY <1>4, <2>2 DEF TypeOK, OnePlace, Recheck
  <2> QED BY <1>4, <2>1, <2>2 DEF Recheck
<1>5. ASSUME NEW c \in Threads, SpuriousWakeup(c) PROVE TypeOK' /\ OnePlace'
  BY <1>5 DEF TypeOK, OnePlace, SpuriousWakeup, Wake
<1>6. ASSUME NEW c \in TimedConsumers, Timeout(c) PROVE TypeOK' /\ OnePlace'
  BY <1>6 DEF TypeOK, OnePlace, Timeout
<1>7. ASSUME NEW c \in TimedConsumers, ReturnFalse(c)
      PROVE  TypeOK' /\ OnePlace'
  BY <1>7 DEF TypeOK, OnePlace, ReturnFalse
<1>8. ASSUME NEW c \in TimedConsumers, NotifiedTooLate(c)
      PROVE  TypeOK' /\ OnePlace'
  <2>1. swallowed' \in 0 .. MaxSwallowed
    BY <1>8, BoundsAssumption DEF TypeOK, NotifiedTooLate
  <2> QED BY <1>8, <2>1 DEF TypeOK, OnePlace, NotifiedTooLate
<1>9. CASE UNCHANGED vars
  BY <1>9 DEF vars, TypeOK, OnePlace
<1> QED
  BY <1>1, <1>2, <1>3, <1>4, <1>5, <1>6, <1>7, <1>8, <1>9 DEF Next, Consume

(***************************************************************************)
(* Every step keeps NoLostWakeup.                                          *)
(***************************************************************************)
LEMMA NextNoLostWakeup == IInv /\ [Next]_vars => NoLostWakeup'
<1> SUFFICES ASSUME IInv, [Next]_vars, waiting' # {}
             PROVE  Len(m_container_queue')
                      <= Cardinality(notifying') + Cardinality(woken') + swallowed'
  BY DEF NoLostWakeup
<1>a. /\ TypeOK /\ OnePlace /\ NoLostWakeup
      /\ Len(m_container_queue) \in Nat /\ swallowed \in Nat
  BY BoundsAssumption DEF IInv, TypeOK
<1>b. /\ IsFiniteSet(notifying) /\ Cardinality(notifying) \in Nat
      /\ IsFiniteSet(woken) /\ Cardinality(woken) \in Nat
  BY <1>a, Finite
<1>c. \A c \in woken : Cardinality(woken \ {c}) = Cardinality(woken) - 1
  BY <1>b, FS_RemoveElement
<1>d. \A c : c \notin woken => Cardinality(woken \cup {c}) = Cardinality(woken) + 1
  BY <1>b, FS_AddElement
<1> DEFINE Goal == Len(m_container_queue')
                     <= Cardinality(notifying') + Cardinality(woken') + swallowed'
<1>1. ASSUME NEW p \in Producers, Push(p) PROVE Goal
  <2>1. Cardinality(notifying') = Cardinality(notifying) + 1
    BY <1>1, <1>b, FS_AddElement DEF Push
  <2> QED BY <1>1, <1>a, <1>b, <2>1, PushFacts DEF Push, NoLostWakeup
<1>2. ASSUME NEW p \in Producers, NotifyOne(p) PROVE Goal
  <2>1. Cardinality(notifying') = Cardinality(notifying) - 1
    BY <1>2, <1>b, FS_RemoveElement DEF NotifyOne
  <2>2. PICK c \in waiting : Wake(c)
    BY <1>2 DEF NotifyOne
  <2>3. Cardinality(woken') = Cardinality(woken) + 1
    BY <2>2, <1>a, <1>d DEF Wake, OnePlace
  <2> QED BY <1>2, <1>a, <1>b, <2>1, <2>2, <2>3 DEF NotifyOne, NoLostWakeup
<1>3. ASSUME NEW c \in Threads, Pop(c) PROVE Goal
  <2>1. CASE TakeFront /\ UNCHANGED waiting
    BY <1>3, <1>a, <1>b, <2>1, TakeFrontFacts DEF Pop, NoLostWakeup
  <2>2. CASE m_container_queue = <<>> /\ UNCHANGED m_container_queue
    BY <1>3, <1>a, <1>b, <2>2 DEF Pop
  <2> QED BY <1>3, <2>1, <2>2 DEF Pop
<1>4. ASSUME NEW c \in Threads, Recheck(c) PROVE Goal
  <2>1. Cardinality(woken') = Cardinality(woken) - 1 /\ Cardinality(woken') \in Nat
    <3>1. Cardinality(woken') = Cardinality(woken) - 1
      BY <1>4, <1>c DEF Recheck
    <3>2. Cardinality(woken \ {c}) \in Nat
      BY <1>b, FS_RemoveElement, FS_CardinalityType
    <3> QED BY <1>4, <3>1, <3>2 DEF Recheck
  <2>2. CASE TakeFront /\ UNCHANGED waiting
    BY <1>4, <1>a, <1>b, <2>1, <2>2, TakeFrontFacts DEF Recheck, NoLostWakeup
  <2>3. CASE m_container_queue = <<>> /\ UNCHANGED m_container_queue
    BY <1>4, <1>a, <1>b, <2>1, <2>3 DEF Recheck
  <2> QED BY <1>4, <2>2, <2>3 DEF Recheck
<1>5. ASSUME NEW c \in Threads, SpuriousWakeup(c) PROVE Goal
  <2>1. Cardinality(woken') = Cardinality(woken) + 1
    BY <1>5, <1>a, <1>d DEF SpuriousWakeup, Wake, OnePlace
  <2> QED BY <1>5, <1>a, <1>b, <2>1 DEF SpuriousWakeup, NoLostWakeup
<1>6. ASSUME NEW c \in TimedConsumers, Timeout(c) PROVE Goal
  BY <1>6, <1>a DEF Timeout, NoLostWakeup
<1>7. ASSUME NEW c \in TimedConsumers, ReturnFalse(c) PROVE Goal
  BY <1>7, <1>a DEF ReturnFalse, NoLostWakeup
<1>8. ASSUME NEW c \in TimedConsumers, NotifiedTooLate(c) PROVE Goal
  <2>1. Cardinality(woken') = Cardinality(woken) - 1
    BY <1>8, <1>c DEF NotifiedTooLate
  <2> QED BY <1>8, <1>a, <1>b, <2>1 DEF NotifiedTooLate, NoLostWakeup
<1>9. CASE UNCHANGED vars
  BY <1>9, <1>a DEF vars, NoLostWakeup
<1> QED
  BY <1>1, <1>2, <1>3, <1>4, <1>5, <1>6, <1>7, <1>8, <1>9 DEF Next, Consume

(***************************************************************************)
(* IInv is an invariant of the queue.                                      *)
(***************************************************************************)
LEMMA Invariance == Spec => []IInv
<1>1. IInv /\ [Next]_vars => IInv'
  BY NextTypeOK, NextNoLostWakeup DEF IInv
<1> QED
  BY <1>1, InitInv, PTL DEF Spec

(***************************************************************************)
(* Push, both overloads of Pop and the condition variable keep every       *)
(* variable in its type.                                                   *)
(***************************************************************************)
THEOREM TypeCorrect == Spec => []TypeOK
<1>1. IInv => TypeOK
  BY DEF IInv
<1> QED
  BY <1>1, Invariance, PTL

(***************************************************************************)
(* For any threads, no item is left behind while a thread sleeps in Pop,   *)
(* except for the notifications swallowed by timeouts.                     *)
(***************************************************************************)
THEOREM WakeupsAreNotLost == Spec => []NoLostWakeup
<1>1. IInv => NoLostWakeup
  BY DEF IInv
<1> QED
  BY <1>1, Invariance, PTL

(***************************************************************************)
(* WaitableQueue implements the queue of BlockingQueue: each item is       *)
(* delivered once, in the order pushed, whichever thread takes it.         *)
(***************************************************************************)
THEOREM ImplementsQueue == Spec => IsQueue
<1>1. Init => Queue!Init
  BY DEF Init, Queue!Init
<1>2. [Next]_vars => [Queue!Next]_Queue!vars
  <2> SUFFICES ASSUME [Next]_vars PROVE [Queue!Next]_Queue!vars
    OBVIOUS
  <2> USE DEF Queue!Next, Queue!vars
  <2>1. TakeFront => Queue!Next
    BY DEF TakeFront, Queue!Take
  <2>2. ASSUME NEW p \in Producers, Push(p) PROVE Queue!Next
    BY <2>2 DEF Push, Pushed, Queue!Put
  <2>3. ASSUME NEW c \in Threads, Consume(c) PROVE [Queue!Next]_Queue!vars
    BY <2>3, <2>1 DEF Consume, Pop, Recheck
  <2>4. ASSUME UNCHANGED <<m_container_queue, delivered>>
        PROVE  [Queue!Next]_Queue!vars
    BY <2>4
  <2>5. ASSUME NEW p \in Producers, NotifyOne(p)
        PROVE  UNCHANGED <<m_container_queue, delivered>>
    BY <2>5 DEF NotifyOne
  <2>6. ASSUME NEW c \in Threads, SpuriousWakeup(c)
        PROVE  UNCHANGED <<m_container_queue, delivered>>
    BY <2>6 DEF SpuriousWakeup
  <2>7. ASSUME NEW c \in TimedConsumers,
               Timeout(c) \/ ReturnFalse(c) \/ NotifiedTooLate(c)
        PROVE  UNCHANGED <<m_container_queue, delivered>>
    BY <2>7 DEF Timeout, ReturnFalse, NotifiedTooLate
  <2>8. ASSUME UNCHANGED vars
        PROVE  UNCHANGED <<m_container_queue, delivered>>
    BY <2>8 DEF vars
  <2> QED
    BY <2>2, <2>3, <2>4, <2>5, <2>6, <2>7, <2>8 DEF Next
<1> QED
  BY <1>1, <1>2, PTL DEF Spec, IsQueue, Queue!Spec

=============================================================================
