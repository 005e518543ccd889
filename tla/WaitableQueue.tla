----------------------------- MODULE WaitableQueue -----------------------------
(***************************************************************************)
(* WaitableQueue (framework/waitable_queue/waitable_queue.hpp) with its    *)
(* default container std::queue, used by any number of threads.            *)
(*                                                                         *)
(* Each action is one critical section of m_mutex, or what happens between *)
(* two of them: Push notifies after it has unlocked, and a thread leaves   *)
(* the condition variable before it has the mutex again.                   *)
(***************************************************************************)
EXTENDS Integers, Sequences, FiniteSets

CONSTANTS
  Producers,        \* threads that call Push
  Consumers,        \* threads that call Pop(outparam)
  TimedConsumers,   \* threads that call Pop(outparam, timeout)
  MaxItems,         \* bound on the items pushed
  MaxSwallowed      \* bound on the notifications lost to timeouts

ASSUME ThreadsAssumption ==
  /\ IsFiniteSet(Producers) /\ IsFiniteSet(Consumers \cup TimedConsumers)
  /\ Consumers \cap TimedConsumers = {}

ASSUME BoundsAssumption == MaxItems \in Nat /\ MaxSwallowed \in Nat

VARIABLES
  m_container_queue,
  notifying,        \* producers that pushed and did not notify yet
  waiting,          \* threads in m_cond_var.wait
  woken,            \* threads notified, or woken for nothing, without m_mutex
  expired,          \* threads whose wait_for timed out, without m_mutex
  delivered,        \* history: the items popped
  swallowed         \* history: threads that were woken and reported a timeout

vars == <<m_container_queue, notifying, waiting, woken, expired, delivered,
          swallowed>>

Threads == Consumers \cup TimedConsumers

Inside == waiting \cup woken \cup expired

Pushed == Len(delivered) + Len(m_container_queue)

Init ==
  /\ m_container_queue = <<>>
  /\ notifying = {}
  /\ waiting = {} /\ woken = {} /\ expired = {}
  /\ delivered = <<>>
  /\ swallowed = 0

(***************************************************************************)
(* Push: the push under the mutex, then notify_one without it.             *)
(***************************************************************************)
\* Mutant: notify only the push that makes the queue non-empty.
PushNotifiesIfEmpty(p) ==
  /\ p \notin notifying
  /\ Pushed < MaxItems
  /\ m_container_queue' = Append(m_container_queue, Pushed + 1)
  /\ notifying' = IF m_container_queue = <<>> THEN notifying \cup {p} ELSE notifying
  /\ UNCHANGED <<waiting, woken, expired, delivered, swallowed>>

\* Mutant: notify_one is forgotten.
PushSilently(p) ==
  /\ p \notin notifying
  /\ Pushed < MaxItems
  /\ m_container_queue' = Append(m_container_queue, Pushed + 1)
  /\ UNCHANGED <<notifying, waiting, woken, expired, delivered, swallowed>>

Push(p) ==
  /\ p \notin notifying
  /\ Pushed < MaxItems
  /\ m_container_queue' = Append(m_container_queue, Pushed + 1)
  /\ notifying' = notifying \cup {p}
  /\ UNCHANGED <<waiting, woken, expired, delivered, swallowed>>

Wake(c) ==
  /\ waiting' = waiting \ {c}
  /\ woken'   = woken \cup {c}

NotifyOne(p) ==
  /\ p \in notifying
  /\ notifying' = notifying \ {p}
  /\ \/ waiting = {} /\ UNCHANGED <<waiting, woken>>
     \/ \E c \in waiting : Wake(c)
  /\ UNCHANGED <<m_container_queue, expired, delivered, swallowed>>

(***************************************************************************)
(* front and pop.                                                          *)
(***************************************************************************)
\* Mutant: pop is forgotten.
TakeFrontTwice ==
  /\ m_container_queue # <<>>
  /\ UNCHANGED m_container_queue
  /\ delivered' = Append(delivered, Head(m_container_queue))

TakeFront ==
  /\ m_container_queue # <<>>
  /\ m_container_queue' = Tail(m_container_queue)
  /\ delivered' = Append(delivered, Head(m_container_queue))

(***************************************************************************)
(* Pop up to its return or its first wait.  Both overloads start so.       *)
(***************************************************************************)
Pop(c) ==
  /\ c \notin Inside
  /\ \/ TakeFront /\ UNCHANGED waiting
     \/ /\ m_container_queue = <<>>
        /\ waiting' = waiting \cup {c}
        /\ UNCHANGED <<m_container_queue, delivered>>
  /\ UNCHANGED <<notifying, woken, expired, swallowed>>

(***************************************************************************)
(* A woken thread has the mutex again: while (empty) wait.                 *)
(***************************************************************************)
\* Mutant: if instead of while; front of an empty container is anything.
RecheckWithIf(c) ==
  /\ c \in woken
  /\ woken' = woken \ {c}
  /\ \/ TakeFront
     \/ /\ m_container_queue = <<>>
        /\ delivered' = Append(delivered, -1)
        /\ UNCHANGED m_container_queue
  /\ UNCHANGED <<waiting, notifying, expired, swallowed>>

Recheck(c) ==
  /\ c \in woken
  /\ woken' = woken \ {c}
  /\ \/ TakeFront /\ UNCHANGED waiting
     \/ /\ m_container_queue = <<>>
        /\ waiting' = waiting \cup {c}
        /\ UNCHANGED <<m_container_queue, delivered>>
  /\ UNCHANGED <<notifying, expired, swallowed>>

(***************************************************************************)
(* A condition variable may wake a thread for nothing.                     *)
(***************************************************************************)
SpuriousWakeup(c) ==
  /\ c \in waiting
  /\ Wake(c)
  /\ UNCHANGED <<m_container_queue, notifying, expired, delivered, swallowed>>

(***************************************************************************)
(* wait_for times out, and Pop returns false without a look at the queue.  *)
(***************************************************************************)
Timeout(c) ==
  /\ c \in waiting \cap TimedConsumers
  /\ waiting' = waiting \ {c}
  /\ expired' = expired \cup {c}
  /\ UNCHANGED <<m_container_queue, notifying, woken, delivered, swallowed>>

ReturnFalse(c) ==
  /\ c \in expired
  /\ expired' = expired \ {c}
  /\ UNCHANGED <<m_container_queue, notifying, waiting, woken, delivered,
                 swallowed>>

(***************************************************************************)
(* wait_for decides between timeout and no_timeout by the clock once it    *)
(* has the mutex: a thread that was notified may find that its time is     *)
(* over, and Pop returns false.  Its notification is lost.                 *)
(***************************************************************************)
NotifiedTooLate(c) ==
  /\ c \in woken \cap TimedConsumers
  /\ swallowed < MaxSwallowed
  /\ woken' = woken \ {c}
  /\ swallowed' = swallowed + 1
  /\ UNCHANGED <<m_container_queue, notifying, waiting, expired, delivered>>

Consume(c) == Pop(c) \/ Recheck(c)

Next ==
  \/ \E p \in Producers : Push(p) \/ NotifyOne(p)
  \/ \E c \in Threads : Consume(c) \/ SpuriousWakeup(c)
  \/ \E c \in TimedConsumers : Timeout(c) \/ ReturnFalse(c) \/ NotifiedTooLate(c)

Spec == Init /\ [][Next]_vars

(***************************************************************************)
(* Threads that can run, run; a consumer calls Pop again, as the workers   *)
(* of the pool do.  Nothing obliges a producer to push or a wait to end    *)
(* without a notification.                                                 *)
(***************************************************************************)
FairSpec ==
  /\ Spec
  /\ \A p \in Producers : WF_vars(NotifyOne(p))
  /\ \A c \in Threads : WF_vars(Consume(c))
  /\ \A c \in TimedConsumers : WF_vars(ReturnFalse(c))

-----------------------------------------------------------------------------
TypeOK ==
  /\ m_container_queue \in Seq(Nat)
  /\ notifying \subseteq Producers
  /\ waiting \subseteq Threads /\ woken \subseteq Threads
  /\ expired \subseteq TimedConsumers
  /\ delivered \in Seq(Nat)
  /\ swallowed \in 0 .. MaxSwallowed

(***************************************************************************)
(* No thread sleeps in Pop while there is an item nobody is coming for:    *)
(* when some thread waits, each item in the queue has a producer that is   *)
(* about to notify or a woken thread that is about to look, save for the   *)
(* notifications that a timed Pop took with it.  Push may notify outside   *)
(* the mutex and the condition variable may wake threads for nothing.      *)
(***************************************************************************)
NoLostWakeup ==
  waiting # {} => Len(m_container_queue)
                    <= Cardinality(notifying) + Cardinality(woken) + swallowed

(***************************************************************************)
(* A thread is at most at one place of Pop.                                *)
(***************************************************************************)
OnePlace ==
  /\ waiting \cap woken = {}
  /\ waiting \cap expired = {}
  /\ woken \cap expired = {}

(***************************************************************************)
(* The queue delivers every item once, in the order pushed; and every item *)
(* is delivered, as long as a thread whose Pop timed out asks again.       *)
(***************************************************************************)
Queue == INSTANCE BlockingQueue WITH contents <- m_container_queue

IsQueue == Queue!Spec

DeliversAll == Queue!FairSpec

=============================================================================
