----------------------------- MODULE Asyncinjection -----------------------------
(***************************************************************************)
(* Asyncinjection (framework/async_injection/async_injection.cpp) on       *)
(* Scheduler (framework/scheduler/scheduler.cpp), which is the object of a *)
(* Singleton (framework/singleton/singleton.hpp).                          *)
(*                                                                         *)
(* An Asyncinjection runs its functor, first on the thread that creates    *)
(* it; when the functor says true it deletes itself, else it hands m_task  *)
(* to the scheduler, which arms a new timer.  Each timer fires once, on a  *)
(* thread of its own, here named after the timer.  Nothing protects        *)
(* m_timerIds, and no timer is deleted before the scheduler is.            *)
(*                                                                         *)
(* Races.  s_isReady is a plain bool; stores are seen in program order, as *)
(* on x86-64.  Of two push_backs that overlap, the later one to end puts   *)
(* its end of the vector in place, or both free the old buffer, which      *)
(* aborts.  A push_back on a Scheduler that is gone does not survive.      *)
(***************************************************************************)
EXTENDS Integers

CONSTANTS
  Users,         \* threads that create instances
  Objects,       \* instances of Asyncinjection
  ZeroInterval,  \* those created with m_interval = 0
  NegativeInterval, \* those created with m_interval < 0
  MaxTimers,     \* timers the system lets the process create
  NoObject       \* the m_task of a wrapper that is not there

Timers  == 1 .. MaxTimers
Threads == Users \cup Timers

ASSUME MaxTimersAssumption == MaxTimers \in Nat
ASSUME ThreadsAssumption ==
  /\ Users \cap Timers = {}
  /\ ZeroInterval \subseteq Objects
  /\ NegativeInterval \subseteq Objects
  /\ NoObject \notin Objects

VARIABLES
  created,     \* objects constructed so far
  alive,       \* objects not deleted
  s_isReady,
  cleaned,     \* cleanup has run: s_obj is 0xDEADBEEF
  built,       \* history: Schedulers constructed
  m_timerIds,  \* the slots of the vector
  m_size,      \* how many of them are in use
  timers,      \* number of timers created; they are 1 .. timers
  timer,       \* timer -> "free", "armed", "idle" (never fires), "fired", "deleted"
  task,        \* timer -> the object its wrappedCallableTask leads to
  pc, on,      \* thread -> where it is, and the object it executes
  timerid,     \* thread -> the timer schedule created
  end,         \* thread -> the end of m_timerIds that push_back read
  overlapped,  \* history: two push_backs overlapped
  died         \* the process was terminated or crashed

objectVars    == <<created, alive>>
singletonVars == <<s_isReady, cleaned, built>>
timerVars     == <<timers, timer, task>>
pushVars      == <<m_timerIds, m_size, timerid, end, overlapped>>
vars == <<objectVars, singletonVars, timerVars, pushVars, pc, on, died>>

Init ==
  /\ created = {} /\ alive = {}
  /\ s_isReady = FALSE /\ cleaned = FALSE /\ built = 0
  /\ m_timerIds = [i \in Timers |-> 0] /\ m_size = 0
  /\ timers = 0
  /\ timer = [t \in Timers |-> "free"]
  /\ task = [t \in Timers |-> NoObject]
  /\ pc = [t \in Threads |-> "off"]
  /\ on = [t \in Threads |-> NoObject]
  /\ timerid = [t \in Threads |-> 0]
  /\ end = [t \in Threads |-> 0]
  /\ overlapped = FALSE /\ died = FALSE

Go(t, from, to) == ~died /\ pc[t] = from /\ pc' = [pc EXCEPT ![t] = to]

(***************************************************************************)
(* CreateInstance, up to the call of the functor in Execute.               *)
(***************************************************************************)
CreateInstance(u, o) ==
  /\ o \notin created
  /\ Go(u, "off", "functor")
  /\ created' = created \cup {o}
  /\ alive' = alive \cup {o}
  /\ on' = [on EXCEPT ![u] = o]
  /\ UNCHANGED <<singletonVars, timerVars, pushVars, died>>

(***************************************************************************)
(* The functor returned true.                                              *)
(***************************************************************************)
\* Mutant: the else is missing.
ExecuteWithoutElse(t) ==
  /\ Go(t, "functor", "get")
  /\ alive' = alive \ {on[t]}
  /\ UNCHANGED <<created, singletonVars, timerVars, pushVars, on, died>>

ExecuteDone(t) ==
  /\ Go(t, "functor", "back")
  /\ alive' = alive \ {on[t]}
  /\ UNCHANGED <<created, singletonVars, timerVars, pushVars, on, died>>

ExecuteAgain(t) ==
  /\ Go(t, "functor", "get")
  /\ UNCHANGED <<objectVars, singletonVars, timerVars, pushVars, on, died>>

(***************************************************************************)
(* getInstance: the test without the mutex, and the critical section.      *)
(***************************************************************************)
GetInstance(t) ==
  /\ Go(t, "get", IF s_isReady THEN "schedule" ELSE "lock")
  /\ UNCHANGED <<objectVars, singletonVars, timerVars, pushVars, on, died>>

\* Mutant: no second test.
ConstructUnchecked(t) ==
  /\ Go(t, "lock", "schedule")
  /\ s_isReady' = TRUE /\ built' = built + 1
  /\ m_size' = 0
  /\ UNCHANGED <<objectVars, cleaned, timerVars, m_timerIds, timerid, end, overlapped>>
  /\ UNCHANGED <<on, died>>

Construct(t) ==
  /\ Go(t, "lock", "schedule")
  /\ \/ ~s_isReady /\ s_isReady' = TRUE /\ built' = built + 1
     \/ s_isReady /\ UNCHANGED <<s_isReady, built>>
  /\ UNCHANGED <<objectVars, cleaned, timerVars, pushVars, on, died>>

(***************************************************************************)
(* schedule up to timer_settime, which disarms the timer if the time is 0. *)
(***************************************************************************)
\* Mutant: timer_settime is forgotten.
SetTimeNever(o) == "idle"

SetTime(o) == IF o \in ZeroInterval THEN "idle" ELSE "armed"

Schedule(t) ==
  /\ timers < MaxTimers /\ on[t] \notin NegativeInterval
  /\ Go(t, "schedule", "push")
  /\ timers' = timers + 1
  /\ timer' = [timer EXCEPT ![timers + 1] = SetTime(on[t])]
  /\ task' = [task EXCEPT ![timers + 1] = on[t]]
  /\ timerid' = [timerid EXCEPT ![t] = timers + 1]
  /\ UNCHANGED <<objectVars, singletonVars, m_timerIds, m_size, end, overlapped>>
  /\ UNCHANGED <<on, died>>

(***************************************************************************)
(* timer_create fails, or timer_settime, which takes no time below 0.      *)
(* The exception leaves the constructor, and the caller of CreateInstance  *)
(* has it; on a timer's thread nobody catches it.                          *)
(***************************************************************************)
Throw(t) ==
  /\ Go(t, "schedule", "off")
  /\ alive' = alive \ (IF t \in Users THEN {on[t]} ELSE {})
  /\ died' = (t \notin Users)
  /\ UNCHANGED <<created, singletonVars, pushVars, on>>

\* Mutant: the failure of timer_create is ignored, the timer id is not set.
ScheduleIgnoresFailure(t) ==
  /\ timers = MaxTimers
  /\ Go(t, "schedule", "push")
  /\ timerid' = [timerid EXCEPT ![t] = timers + 1]
  /\ UNCHANGED <<objectVars, singletonVars, timerVars, m_timerIds, m_size, end>>
  /\ UNCHANGED overlapped
  /\ UNCHANGED <<on, died>>

ScheduleThrows(t) == timers = MaxTimers /\ Throw(t) /\ UNCHANGED timerVars

\* The timer that timer_create made stays, neither armed nor in m_timerIds.
SetTimeThrows(t) ==
  /\ timers < MaxTimers /\ on[t] \in NegativeInterval
  /\ Throw(t)
  /\ timers' = timers + 1
  /\ timer' = [timer EXCEPT ![timers + 1] = "idle"]
  /\ task' = [task EXCEPT ![timers + 1] = on[t]]

(***************************************************************************)
(* m_timerIds.push_back: read the end, then write the element and the end. *)
(***************************************************************************)
\* Mutant: no push_back.
PushNothing(t) ==
  /\ Go(t, "push", "back")
  /\ UNCHANGED <<objectVars, singletonVars, timerVars, pushVars, on, died>>

PushBegin(t) ==
  /\ Go(t, "push", "pushing")
  /\ end' = [end EXCEPT ![t] = m_size]
  /\ died' = cleaned
  /\ UNCHANGED <<objectVars, singletonVars, timerVars, m_timerIds, m_size, timerid>>
  /\ UNCHANGED <<overlapped, on>>

\* Mutant: Execute runs the functor in a loop until it returns true.
PushEndLoops(t) ==
  /\ Go(t, "pushing", "functor")
  /\ m_timerIds' = [m_timerIds EXCEPT ![end[t] + 1] = timerid[t]]
  /\ m_size' = end[t] + 1
  /\ UNCHANGED <<objectVars, singletonVars, timerVars, timerid, end, overlapped, on, died>>

PushEnd(t) ==
  /\ Go(t, "pushing", "back")
  /\ m_timerIds' = [m_timerIds EXCEPT ![end[t] + 1] = timerid[t]]
  /\ m_size' = end[t] + 1
  /\ overlapped' = (overlapped \/ m_size # end[t])
  /\ \/ died' = cleaned
     \/ m_size # end[t] /\ died' = TRUE
  /\ UNCHANGED <<objectVars, singletonVars, timerVars, timerid, end, on>>

(***************************************************************************)
(* Execute has returned: CreateInstance returns, TimerCallback deletes its *)
(* wrapper and ends.                                                       *)
(***************************************************************************)
Return(u) ==
  /\ Go(u, "back", "off")
  /\ UNCHANGED <<objectVars, singletonVars, timerVars, pushVars, on, died>>

CallbackEnds(t) ==
  /\ Go(t, "back", "gone")
  /\ task' = [task EXCEPT ![t] = NoObject]
  /\ UNCHANGED <<objectVars, singletonVars, timers, timer, pushVars, on, died>>

(***************************************************************************)
(* A timer expires; TimerCallback runs the task.                           *)
(***************************************************************************)
TimerCallback(t) ==
  /\ timer[t] = "armed"
  /\ Go(t, "off", "functor")
  /\ timer' = [timer EXCEPT ![t] = "fired"]
  /\ on' = [on EXCEPT ![t] = task[t]]
  /\ UNCHANGED <<objectVars, singletonVars, timers, task, pushVars, died>>

(***************************************************************************)
(* exit calls cleanup, if getInstance was called: the destructor of the    *)
(* Scheduler deletes the timers it knows.                                  *)
(***************************************************************************)
Recorded == {m_timerIds[i] : i \in 1 .. m_size}

Cleanup(u) ==
  /\ s_isReady /\ ~cleaned
  /\ Go(u, "off", "gone")
  /\ cleaned' = TRUE
  /\ timer' = [t \in Timers |-> IF t \in Recorded THEN "deleted" ELSE timer[t]]
  /\ UNCHANGED <<objectVars, s_isReady, built, timers, task, pushVars, on, died>>

Step(t) ==
  \/ ExecuteDone(t) \/ ExecuteAgain(t)
  \/ GetInstance(t) \/ Construct(t)
  \/ Schedule(t) \/ ScheduleThrows(t) \/ SetTimeThrows(t)
  \/ PushBegin(t) \/ PushEnd(t)

Next ==
  \/ \E u \in Users, o \in Objects : CreateInstance(u, o)
  \/ \E u \in Users : Return(u) \/ Cleanup(u)
  \/ \E t \in Threads : Step(t)
  \/ \E t \in Timers : TimerCallback(t) \/ CallbackEnds(t)

Spec == Init /\ [][Next]_vars

(***************************************************************************)
(* Threads run, functors return, and a timer that is armed fires.          *)
(***************************************************************************)
FairSpec ==
  /\ Spec
  /\ \A t \in Threads : WF_vars(Step(t))
  /\ \A t \in Timers : WF_vars(TimerCallback(t))

-----------------------------------------------------------------------------
TypeOK ==
  /\ created \subseteq Objects /\ alive \subseteq Objects
  /\ s_isReady \in BOOLEAN /\ cleaned \in BOOLEAN
  /\ overlapped \in BOOLEAN /\ died \in BOOLEAN
  /\ built \in Nat
  /\ m_timerIds \in [Timers -> 0 .. MaxTimers] /\ m_size \in Nat
  /\ timers \in 0 .. MaxTimers
  /\ timer \in [Timers -> {"free", "armed", "idle", "fired", "deleted"}]
  /\ task \in [Timers -> Objects \cup {NoObject}]
  /\ pc \in [Threads -> {"off", "functor", "get", "lock", "schedule", "push",
                         "pushing", "back", "gone"}]
  /\ on \in [Threads -> Objects \cup {NoObject}]
  /\ timerid \in [Threads -> 0 .. MaxTimers]
  /\ end \in [Threads -> Nat]

(***************************************************************************)
(* From the call of the functor to timer_settime a thread works on the     *)
(* object.                                                                 *)
(***************************************************************************)
Executes(t) == pc[t] \in {"functor", "get", "lock", "schedule"}

(***************************************************************************)
(* No thread executes an object that was deleted, however soon the timer   *)
(* that schedule armed fires, and a callback runs a task that its wrapper  *)
(* still holds, although the object that owned the task is deleted under   *)
(* it.                                                                     *)
(***************************************************************************)
NoUseAfterDelete ==
  /\ \A t \in Threads : Executes(t) => on[t] \in alive
  /\ \A t \in Timers :
       (Executes(t) \/ pc[t] \in {"push", "pushing", "back"}) => task[t] = on[t]

(***************************************************************************)
(* A functor need not be thread safe: two threads never execute the same   *)
(* object, although the next timer is armed before the last call is over.  *)
(***************************************************************************)
RunsAlone ==
  \A t1, t2 \in Threads :
    (t1 # t2 /\ Executes(t1) /\ Executes(t2)) => on[t1] # on[t2]

(***************************************************************************)
(* Threads that call getInstance together construct one Scheduler.         *)
(***************************************************************************)
OneScheduler == built = (IF s_isReady THEN 1 ELSE 0)

(***************************************************************************)
(* The destructor of the Scheduler knows every timer that can still fire,  *)
(* except those whose push_back is not over, unless push_backs overlapped. *)
(***************************************************************************)
TimersRecorded ==
  (~overlapped /\ ~cleaned /\ ~died) =>
    \A t \in Timers : timer[t] = "armed" =>
      \/ t \in Recorded
      \/ \E s \in Threads : pc[s] \in {"push", "pushing"} /\ timerid[s] = t

(***************************************************************************)
(* An object whose functor returned false has it called again, if its      *)
(* interval is not 0 and the process neither exits nor dies; only a caller *)
(* of CreateInstance that has an exception from schedule loses its object. *)
(***************************************************************************)
CalledAgain ==
  \A o \in Objects \ ZeroInterval :
    (\E t \in Threads : pc[t] = "get" /\ on[t] = o)
      ~> \/ \E t \in Threads : pc[t] = "functor" /\ on[t] = o
         \/ cleaned \/ died \/ o \notin alive

=============================================================================
