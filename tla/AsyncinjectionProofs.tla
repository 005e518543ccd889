-------------------------- MODULE AsyncinjectionProofs --------------------------
(***************************************************************************)
(* For any number of objects, threads and timers: an object of             *)
(* Asyncinjection has one owner at a time, and the Scheduler records every *)
(* timer while push_backs do not overlap.                                  *)
(***************************************************************************)
EXTENDS Asyncinjection, FiniteSetTheorems, TLAPS

(***************************************************************************)
(* The owner of an object is the thread that executes it or the timer that *)
(* is armed for it.                                                        *)
(***************************************************************************)
ArmedForAlive == \A t \in Timers : timer[t] = "armed" => task[t] \in alive

OneOwner ==
  /\ RunsAlone
  /\ \A t \in Timers, s \in Threads : (timer[t] = "armed" /\ Executes(s)) => task[t] # on[s]
  /\ \A t, s \in Timers :
       (t # s /\ timer[t] = "armed" /\ timer[s] = "armed") => task[t] # task[s]

(***************************************************************************)
(* A timer that was not created yet, or did not fire, has no thread.       *)
(***************************************************************************)
Unfired ==
  \A t \in Timers :
    /\ timer[t] = "armed" => pc[t] = "off"
    /\ t > timers => timer[t] # "armed" /\ pc[t] = "off"

OwnerInv == NoUseAfterDelete /\ ArmedForAlive /\ OneOwner /\ Unfired /\ alive \subseteq created

(***************************************************************************)
(* While push_backs do not overlap, the slots of m_timerIds in use hold    *)
(* different timers, none of them one that a thread is about to push, and  *)
(* no two threads are about to push the same one.                          *)
(***************************************************************************)
Pushes(t) == pc[t] \in {"push", "pushing"}

SlotsInv ==
  ~overlapped =>
    /\ \A i \in 1 .. m_size : m_timerIds[i] \in 1 .. timers
    /\ \A i, j \in 1 .. m_size : m_timerIds[i] = m_timerIds[j] => i = j
    /\ \A s \in Threads : Pushes(s) =>
         timerid[s] \in 1 .. timers /\ \A i \in 1 .. m_size : m_timerIds[i] # timerid[s]
    /\ \A s1, s2 \in Threads :
         (s1 # s2 /\ Pushes(s1) /\ Pushes(s2)) => timerid[s1] # timerid[s2]
    /\ m_size <= timers

IInv == TypeOK /\ OwnerInv /\ OneScheduler /\ SlotsInv /\ TimersRecorded

(***************************************************************************)
(* The program starts with no object, no timer and no Scheduler.           *)
(***************************************************************************)
LEMMA InitInv == Init => IInv
<1> SUFFICES ASSUME Init PROVE IInv
  OBVIOUS
<1>1. TypeOK
  <2>1. s_isReady \in BOOLEAN /\ cleaned \in BOOLEAN /\ overlapped \in BOOLEAN /\ died \in BOOLEAN
    BY Zenon DEF Init
  <2> QED
    BY <2>1, MaxTimersAssumption DEF Init, TypeOK
<1>2. OwnerInv
  BY DEF Init, OwnerInv, NoUseAfterDelete, ArmedForAlive, OneOwner, RunsAlone, Unfired,
     Executes, Threads
<1>3. OneScheduler
  BY DEF Init, OneScheduler
<1>4. SlotsInv /\ TimersRecorded
  BY DEF Init, SlotsInv, Pushes, TimersRecorded, Threads
<1> QED
  BY <1>1, <1>2, <1>3, <1>4 DEF IInv

(***************************************************************************)
(* A function stays in its type when one of its values is replaced.        *)
(***************************************************************************)
LEMMA ExceptType ==
  ASSUME NEW S, NEW T, NEW f \in [S -> T], NEW x, NEW v \in T
  PROVE  [f EXCEPT ![x] = v] \in [S -> T]
OBVIOUS

(***************************************************************************)
(* Every step keeps the types.                                             *)
(***************************************************************************)
LEMMA NextTypeOK == TypeOK /\ [Next]_vars => TypeOK'
<1> SUFFICES ASSUME TypeOK, [Next]_vars PROVE TypeOK'
  OBVIOUS
<1> USE MaxTimersAssumption
        DEF TypeOK, Go, Threads, objectVars, singletonVars, timerVars, pushVars
<1>1. ASSUME NEW u \in Users, NEW o \in Objects, CreateInstance(u, o) PROVE TypeOK'
  BY <1>1 DEF CreateInstance
<1>2. ASSUME NEW u \in Users, Return(u) PROVE TypeOK'
  BY <1>2 DEF Return
<1>3. ASSUME NEW u \in Users, Cleanup(u) PROVE TypeOK'
  BY <1>3 DEF Cleanup
<1>4. ASSUME NEW t \in Threads, Step(t) PROVE TypeOK'
  <2>1. CASE ExecuteDone(t)
    BY <2>1 DEF ExecuteDone
  <2>2. CASE ExecuteAgain(t)
    BY <2>2 DEF ExecuteAgain
  <2>3. CASE GetInstance(t)
    BY <2>3 DEF GetInstance
  <2>4. CASE Construct(t)
    <3>1. s_isReady' \in BOOLEAN
      BY <2>4, Zenon DEF Construct
    <3>2. built' \in Nat
      BY <2>4 DEF Construct
    <3> QED
      BY <2>4, <3>1, <3>2 DEF Construct
  <2>5. CASE Schedule(t)
    BY <2>5 DEF Schedule, SetTime, Timers
  <2>6. CASE ScheduleThrows(t)
    BY <2>6 DEF ScheduleThrows, Throw
  <2>7. CASE PushBegin(t)
    BY <2>7 DEF PushBegin
  <2>8. CASE PushEnd(t)
    <3>1. overlapped' \in BOOLEAN
      BY <2>8, Zenon DEF PushEnd
    <3>2. died' \in BOOLEAN
      BY <2>8, Zenon DEF PushEnd
    <3>3. m_timerIds' \in [Timers -> 0 .. MaxTimers] /\ m_size' \in Nat
      <4>1. timerid[t] \in 0 .. MaxTimers /\ end[t] \in Nat
        OBVIOUS
      <4>2. [m_timerIds EXCEPT ![end[t] + 1] = timerid[t]] \in [Timers -> 0 .. MaxTimers]
        BY <4>1, ExceptType
      <4> QED
        BY <2>8, <4>1, <4>2 DEF PushEnd
    <3>4. pc' \in [Threads -> {"off", "functor", "get", "lock", "schedule", "push",
                               "pushing", "back", "gone"}]
      BY <2>8 DEF PushEnd
    <3> QED
      BY <2>8, <3>1, <3>2, <3>3, <3>4, Zenon DEF PushEnd
  <2>9. CASE SetTimeThrows(t)
    BY <2>9 DEF SetTimeThrows, Throw, Timers
  <2> QED
    BY <1>4, <2>1, <2>2, <2>3, <2>4, <2>5, <2>6, <2>7, <2>8, <2>9 DEF Step
<1>5. ASSUME NEW t \in Timers, TimerCallback(t) PROVE TypeOK'
  BY <1>5 DEF TimerCallback
<1>6. ASSUME NEW t \in Timers, CallbackEnds(t) PROVE TypeOK'
  BY <1>6 DEF CallbackEnds
<1>7. CASE UNCHANGED vars
  BY <1>7 DEF vars
<1> QED
  BY <1>1, <1>2, <1>3, <1>4, <1>5, <1>6, <1>7 DEF Next

(***************************************************************************)
(* Every step keeps one owner per object: CreateInstance makes its thread  *)
(* the owner of a new object, Schedule hands the object to the new timer,  *)
(* TimerCallback takes it over, and ExecuteDone ends both.                 *)
(***************************************************************************)
LEMMA NextOwner == TypeOK /\ OwnerInv /\ [Next]_vars => OwnerInv'
<1> SUFFICES ASSUME TypeOK, OwnerInv, [Next]_vars PROVE OwnerInv'
  OBVIOUS
<1> USE ThreadsAssumption
        DEF TypeOK, OwnerInv, NoUseAfterDelete, ArmedForAlive, OneOwner, RunsAlone,
            Unfired, Executes, Go, Threads, objectVars, singletonVars, timerVars, pushVars
<1>1. ASSUME NEW u \in Users, NEW o \in Objects, CreateInstance(u, o) PROVE OwnerInv'
  BY <1>1 DEF CreateInstance
<1>2. ASSUME NEW u \in Users, Return(u) PROVE OwnerInv'
  BY <1>2 DEF Return
<1>3. ASSUME NEW u \in Users, Cleanup(u) PROVE OwnerInv'
  BY <1>3 DEF Cleanup
<1>4. ASSUME NEW t \in Threads, Step(t) PROVE OwnerInv'
  <2>1. CASE ExecuteDone(t)
    BY <2>1 DEF ExecuteDone
  <2>2. CASE ExecuteAgain(t)
    BY <2>2 DEF ExecuteAgain
  <2>3. CASE GetInstance(t)
    BY <2>3 DEF GetInstance
  <2>4. CASE Construct(t)
    BY <2>4 DEF Construct
  <2>5. CASE Schedule(t)
    BY <2>5, MaxTimersAssumption DEF Schedule, SetTime, Timers
  <2>6. CASE ScheduleThrows(t)
    BY <2>6 DEF ScheduleThrows, Throw
  <2>7. CASE PushBegin(t)
    BY <2>7 DEF PushBegin
  <2>8. CASE PushEnd(t)
    BY <2>8 DEF PushEnd
  <2>9. CASE SetTimeThrows(t)
    BY <2>9, MaxTimersAssumption DEF SetTimeThrows, Throw, Timers
  <2> QED
    BY <1>4, <2>1, <2>2, <2>3, <2>4, <2>5, <2>6, <2>7, <2>8, <2>9 DEF Step
<1>5. ASSUME NEW t \in Timers, TimerCallback(t) PROVE OwnerInv'
  BY <1>5 DEF TimerCallback
<1>6. ASSUME NEW t \in Timers, CallbackEnds(t) PROVE OwnerInv'
  BY <1>6 DEF CallbackEnds
<1>7. CASE UNCHANGED vars
  BY <1>7 DEF vars
<1> QED
  BY <1>1, <1>2, <1>3, <1>4, <1>5, <1>6, <1>7 DEF Next

(***************************************************************************)
(* Every step keeps the Scheduler single: only Construct makes one, and    *)
(* tests s_isReady again with s_mutex held.                                *)
(***************************************************************************)
LEMMA NextScheduler == TypeOK /\ OneScheduler /\ [Next]_vars => OneScheduler'
<1> SUFFICES ASSUME TypeOK, OneScheduler, [Next]_vars PROVE OneScheduler'
  OBVIOUS
<1> USE DEF OneScheduler, TypeOK
<1>1. ASSUME NEW t \in Threads, Construct(t) PROVE OneScheduler'
  BY <1>1 DEF Construct
<1>2. CASE UNCHANGED <<s_isReady, built>>
  BY <1>2
<1> QED
  BY <1>1, <1>2 DEF Next, vars, singletonVars, CreateInstance, Return, Cleanup, Step,
     ExecuteDone, ExecuteAgain, GetInstance, Schedule, ScheduleThrows, SetTimeThrows, Throw, PushBegin, PushEnd,
     TimerCallback, CallbackEnds

(***************************************************************************)
(* A thread that is about to push finds a slot: m_timerIds has as many as  *)
(* there may be timers, and its own timer is in none of those in use.      *)
(***************************************************************************)
LEMMA SlotIsLeft ==
  ASSUME TypeOK, SlotsInv, ~overlapped, NEW t \in Threads, Pushes(t)
  PROVE  m_size < timers
<1> SUFFICES ASSUME m_size = timers PROVE FALSE
  BY DEF TypeOK, SlotsInv
<1> DEFINE S == 1 .. m_size
           T == (1 .. timers) \ {timerid[t]}
           f == [i \in S |-> m_timerIds[i]]
<1>1. timers \in Nat /\ m_size \in Nat /\ timerid[t] \in 1 .. timers
  BY MaxTimersAssumption DEF TypeOK, SlotsInv
<1>2. IsFiniteSet(S) /\ Cardinality(S) = m_size
  BY <1>1, FS_Interval
<1>3. IsFiniteSet(T) /\ Cardinality(T) = timers - 1
  <2>1. IsFiniteSet(1 .. timers) /\ Cardinality(1 .. timers) = timers
    BY <1>1, FS_Interval
  <2> QED
    BY <1>1, <2>1, FS_RemoveElement
<1>4. f \in [S -> T]
  BY DEF SlotsInv
<1>5. \E x, y \in S : x # y /\ f[x] = f[y]
  <2> HIDE DEF S, T, f
  <2>1. Cardinality(T) < Cardinality(S)
    BY <1>1, <1>2, <1>3
  <2> QED
    BY <1>2, <1>3, <1>4, <2>1, FS_PigeonHole
<1> QED
  BY <1>5 DEF SlotsInv

(***************************************************************************)
(* Every step keeps the slots in order: Schedule makes a timer that no     *)
(* slot has, and PushEnd puts it after those in use.                       *)
(***************************************************************************)
LEMMA NextSlots == TypeOK /\ SlotsInv /\ [Next]_vars => SlotsInv'
<1> SUFFICES ASSUME TypeOK, SlotsInv, [Next]_vars PROVE SlotsInv'
  OBVIOUS
<1> USE MaxTimersAssumption, ThreadsAssumption
        DEF TypeOK, SlotsInv, Pushes, Go, Threads, objectVars, singletonVars, timerVars, pushVars
<1>1. ASSUME NEW u \in Users, NEW o \in Objects, CreateInstance(u, o) PROVE SlotsInv'
  BY <1>1 DEF CreateInstance
<1>2. ASSUME NEW u \in Users, Return(u) PROVE SlotsInv'
  BY <1>2 DEF Return
<1>3. ASSUME NEW u \in Users, Cleanup(u) PROVE SlotsInv'
  BY <1>3 DEF Cleanup
<1>4. ASSUME NEW t \in Threads, Step(t) PROVE SlotsInv'
  <2>1. CASE ExecuteDone(t)
    BY <2>1 DEF ExecuteDone
  <2>2. CASE ExecuteAgain(t)
    BY <2>2 DEF ExecuteAgain
  <2>3. CASE GetInstance(t)
    BY <2>3 DEF GetInstance
  <2>4. CASE Construct(t)
    BY <2>4 DEF Construct
  <2>5. CASE Schedule(t)
    BY <2>5 DEF Schedule
  <2>6. CASE ScheduleThrows(t)
    BY <2>6 DEF ScheduleThrows, Throw
  <2>7. CASE PushBegin(t)
    BY <2>7 DEF PushBegin
  <2>8. CASE PushEnd(t)
    <3> SUFFICES ASSUME ~overlapped' PROVE SlotsInv'
      OBVIOUS
    <3>1. ~overlapped /\ end[t] = m_size
      BY <2>8 DEF PushEnd
    <3>2. Pushes(t)
      BY <2>8 DEF PushEnd
    <3>3. m_size < timers /\ m_size + 1 \in Timers
      <4>1. m_size < timers
        BY <3>1, <3>2, SlotIsLeft, Zenon
      <4> QED
        BY <4>1 DEF Timers
    <3>4. /\ m_size' = m_size + 1 /\ timers' = timers /\ timerid' = timerid
          /\ m_timerIds'[m_size + 1] = timerid[t]
          /\ \A i \in 1 .. m_size : m_timerIds'[i] = m_timerIds[i]
      BY <2>8, <3>1, <3>3 DEF PushEnd
    <3>5. \A s \in Threads : Pushes(s)' => Pushes(s) /\ s # t
      BY <2>8 DEF PushEnd
    <3>6. \A i \in 1 .. m_size' : i \in 1 .. m_size \/ i = m_size + 1
      BY <3>4
    <3>7. \A i \in 1 .. m_size' : m_timerIds'[i] \in 1 .. timers'
      BY <3>1, <3>4, <3>2, <3>6
    <3>8. \A i, j \in 1 .. m_size' : m_timerIds'[i] = m_timerIds'[j] => i = j
      BY <3>1, <3>4, <3>2, <3>6
    <3>9. \A s \in Threads : Pushes(s)' =>
            timerid'[s] \in 1 .. timers' /\ \A i \in 1 .. m_size' : m_timerIds'[i] # timerid'[s]
      BY <3>1, <3>4, <3>5, <3>2, <3>6
    <3>10. \A s1, s2 \in Threads :
             (s1 # s2 /\ Pushes(s1)' /\ Pushes(s2)') => timerid'[s1] # timerid'[s2]
      BY <3>1, <3>4, <3>5
    <3> QED
      BY <3>3, <3>4, <3>7, <3>8, <3>9, <3>10
  <2>9. CASE SetTimeThrows(t)
    BY <2>9 DEF SetTimeThrows, Throw
  <2> QED
    BY <1>4, <2>1, <2>2, <2>3, <2>4, <2>5, <2>6, <2>7, <2>8, <2>9 DEF Step
<1>5. ASSUME NEW t \in Timers, TimerCallback(t) PROVE SlotsInv'
  BY <1>5 DEF TimerCallback
<1>6. ASSUME NEW t \in Timers, CallbackEnds(t) PROVE SlotsInv'
  BY <1>6 DEF CallbackEnds
<1>7. CASE UNCHANGED vars
  BY <1>7 DEF vars
<1> QED
  BY <1>1, <1>2, <1>3, <1>4, <1>5, <1>6, <1>7 DEF Next

(***************************************************************************)
(* Every step keeps the armed timers on record: Schedule arms a timer that *)
(* its thread is about to push, and PushEnd adds that one to the record.   *)
(***************************************************************************)
LEMMA NextRecorded == TypeOK /\ SlotsInv /\ TimersRecorded /\ [Next]_vars => TimersRecorded'
<1> SUFFICES ASSUME TypeOK, SlotsInv, TimersRecorded, [Next]_vars PROVE TimersRecorded'
  OBVIOUS
<1> USE DEF TypeOK, TimersRecorded, Recorded, Go, Threads, objectVars, singletonVars,
            timerVars, pushVars
<1>1. ASSUME NEW u \in Users, NEW o \in Objects, CreateInstance(u, o) PROVE TimersRecorded'
  BY <1>1 DEF CreateInstance
<1>2. ASSUME NEW u \in Users, Return(u) PROVE TimersRecorded'
  BY <1>2 DEF Return
<1>3. ASSUME NEW u \in Users, Cleanup(u) PROVE TimersRecorded'
  BY <1>3 DEF Cleanup
<1>4. ASSUME NEW t \in Threads, Step(t) PROVE TimersRecorded'
  <2>1. CASE ExecuteDone(t)
    BY <2>1 DEF ExecuteDone
  <2>2. CASE ExecuteAgain(t)
    BY <2>2 DEF ExecuteAgain
  <2>3. CASE GetInstance(t)
    BY <2>3 DEF GetInstance
  <2>4. CASE Construct(t)
    BY <2>4 DEF Construct
  <2>5. CASE Schedule(t)
    <3> SUFFICES ASSUME ~overlapped', ~cleaned', ~died', NEW r \in Timers, timer'[r] = "armed"
                 PROVE  \/ \E i \in 1 .. m_size' : r = m_timerIds'[i]
                        \/ \E s \in Threads : pc'[s] \in {"push", "pushing"} /\ timerid'[s] = r
      OBVIOUS
    <3>1. /\ pc[t] = "schedule" /\ pc'[t] = "push" /\ timerid'[t] = timers + 1
          /\ \A s \in Threads : s # t => pc'[s] = pc[s] /\ timerid'[s] = timerid[s]
          /\ m_size' = m_size /\ m_timerIds' = m_timerIds
          /\ r # timers + 1 => timer'[r] = timer[r]
          /\ ~overlapped /\ ~cleaned /\ ~died
      BY <2>5 DEF Schedule
    <3>2. CASE r = timers + 1
      BY <3>1, <3>2
    <3>3. CASE r # timers + 1
      BY <3>1, <3>3
    <3> QED
      BY <3>2, <3>3
  <2>6. CASE ScheduleThrows(t)
    BY <2>6 DEF ScheduleThrows, Throw
  <2>7. CASE PushBegin(t)
    BY <2>7 DEF PushBegin
  <2>8. CASE PushEnd(t)
    <3> SUFFICES ASSUME ~overlapped', ~cleaned', ~died', NEW r \in Timers, timer'[r] = "armed"
                 PROVE  \/ \E i \in 1 .. m_size' : r = m_timerIds'[i]
                        \/ \E s \in Threads : pc'[s] \in {"push", "pushing"} /\ timerid'[s] = r
      OBVIOUS
    <3>1. ~overlapped /\ end[t] = m_size /\ ~cleaned /\ ~died /\ timer[r] = "armed"
      BY <2>8 DEF PushEnd
    <3>2. m_size < timers /\ m_size + 1 \in Timers
      BY <2>8, <3>1, SlotIsLeft, MaxTimersAssumption DEF PushEnd, Timers, Pushes
    <3>3. /\ m_size' = m_size + 1 /\ timerid' = timerid
          /\ m_timerIds'[m_size + 1] = timerid[t]
          /\ \A i \in 1 .. m_size : m_timerIds'[i] = m_timerIds[i]
      BY <2>8, <3>1, <3>2 DEF PushEnd
    <3>4. \A s \in Threads : s # t => pc'[s] = pc[s]
      BY <2>8 DEF PushEnd
    <3>5. CASE \E i \in 1 .. m_size : r = m_timerIds[i]
      BY <3>3, <3>5
    <3>6. CASE \E s \in Threads : pc[s] \in {"push", "pushing"} /\ timerid[s] = r
      BY <3>3, <3>4, <3>6
    <3> QED
      BY <3>1, <3>5, <3>6
  <2>9. CASE SetTimeThrows(t)
    BY <2>9 DEF SetTimeThrows, Throw
  <2> QED
    BY <1>4, <2>1, <2>2, <2>3, <2>4, <2>5, <2>6, <2>7, <2>8, <2>9 DEF Step
<1>5. ASSUME NEW t \in Timers, TimerCallback(t) PROVE TimersRecorded'
  BY <1>5 DEF TimerCallback
<1>6. ASSUME NEW t \in Timers, CallbackEnds(t) PROVE TimersRecorded'
  BY <1>6 DEF CallbackEnds
<1>7. CASE UNCHANGED vars
  BY <1>7 DEF vars
<1> QED
  BY <1>1, <1>2, <1>3, <1>4, <1>5, <1>6, <1>7 DEF Next

(***************************************************************************)
(* IInv is an invariant of the program.                                    *)
(***************************************************************************)
LEMMA Invariance == Spec => []IInv
<1>1. IInv /\ [Next]_vars => IInv'
  BY NextTypeOK, NextOwner, NextScheduler, NextSlots, NextRecorded DEF IInv
<1> QED
  BY InitInv, <1>1, PTL DEF Spec

(***************************************************************************)
(* Objects, timers and threads keep every variable in its type; no more    *)
(* timers are created than the system allows.                              *)
(***************************************************************************)
THEOREM TypeCorrect == Spec => []TypeOK
<1>1. IInv => TypeOK
  BY DEF IInv
<1> QED
  BY <1>1, Invariance, PTL

(***************************************************************************)
(* For any number of objects, threads and timers, Execute never works on   *)
(* an object that was deleted, nor TimerCallback on a task that is gone.   *)
(***************************************************************************)
THEOREM ObjectsOutliveUse == Spec => []NoUseAfterDelete
<1>1. IInv => NoUseAfterDelete
  BY DEF IInv, OwnerInv
<1> QED
  BY <1>1, Invariance, PTL

(***************************************************************************)
(* For any number of objects, threads and timers, no two threads are in    *)
(* Execute for the same object before its timer is armed.                  *)
(***************************************************************************)
THEOREM FunctorsRunAlone == Spec => []RunsAlone
<1>1. IInv => RunsAlone
  BY DEF IInv, OwnerInv, OneOwner
<1> QED
  BY <1>1, Invariance, PTL

(***************************************************************************)
(* However many threads call getInstance, one Scheduler is constructed.    *)
(***************************************************************************)
THEOREM SchedulerIsSingle == Spec => []OneScheduler
<1>1. IInv => OneScheduler
  BY DEF IInv
<1> QED
  BY <1>1, Invariance, PTL

(***************************************************************************)
(* For any number of objects, threads and timers, the destructor of the    *)
(* Scheduler knows every timer that can still fire, except those whose     *)
(* push_back is not over, unless push_backs overlapped.                    *)
(***************************************************************************)
THEOREM ArmedTimersOnRecord == Spec => []TimersRecorded
<1>1. IInv => TimersRecorded
  BY DEF IInv
<1> QED
  BY <1>1, Invariance, PTL

=============================================================================
