------------------------------ MODULE ThreadPool ------------------------------
(***************************************************************************)
(* ThreadPool (framework/thread_pool/thread_pool.cpp): worker threads take *)
(* tasks from one priority queue.  Pausing and shrinking the pool is done  *)
(* by tasks too: a pause task blocks the worker that takes it, a suicide   *)
(* task ends it.  There are two pause flags, because DecreaseNumOfTheads   *)
(* on a paused pool must let workers through to their suicide tasks: it    *)
(* moves the pause from one flag to the other.                             *)
(*                                                                         *)
(* One client thread calls Run, Pause and SetNumOfThreads, as nothing      *)
(* protects m_numOfThreads; any thread calls AddTask.                      *)
(*                                                                         *)
(* Run, Pause and DecreaseNumOfTheads unlock a mutex that their lock_guard *)
(* unlocks again on return.  The second unlock of a mutex that somebody    *)
(* else may hold is undefined; with the default mutex of the build it      *)
(* frees the mutex whoever holds it.                                       *)
(***************************************************************************)
EXTENDS Integers, FiniteSets

CONSTANTS
  Threads,        \* identities for threads: a bound on the live ones
  NumOfThreads,   \* the constructor's argument
  Sizes,          \* the arguments of SetNumOfThreads
  Tasks,          \* the tasks that are added, each once
  Priority,       \* of each task
  Throwing,       \* the tasks that throw a std::exception
  Calls,          \* the calls the client makes
  MaxCalls,       \* bound on their number
  Free, None

ASSUME PoolAssumption ==
  /\ NumOfThreads \in Nat \ {0} /\ Sizes \subseteq Nat /\ MaxCalls \in Nat
  /\ Priority \in [Tasks -> Nat]
  /\ Throwing \subseteq Tasks
  /\ Calls \subseteq {"Run", "Pause", "Resize", "ResizePaused"}
  /\ IsFiniteSet(Threads) /\ Free \notin Threads

VARIABLES
  m_isRunning,    \* m_isRunning1 and m_isRunning2
  m_mutex,        \* the thread that holds it, "client", or Free
  m_numOfThreads,
  m_targetNumOfThreads,
  suicides,       \* m_thread_queue: its suicide tasks,
  pauses,         \*   its PauseTask1 and PauseTask2 tasks,
  queued,         \*   and the tasks of the users
  m_zombie_queue,
  m_thread_map,   \* the threads created and not joined
  pc, flag,       \* thread -> where it is, the flag its pause task waits for
  running,        \* thread -> the task it runs, or that ended it
  ctl,            \* where the client is in its call
  calls,          \* calls made so far
  added, started, \* history: the tasks added, and begun
  paused,         \* history: Pause has returned, and Run was not called since
  quiet           \* history: the tasks added while paused

queueVars  == <<suicides, pauses, queued>>
threadVars == <<pc, flag, running>>
sizeVars   == <<m_numOfThreads, m_targetNumOfThreads>>
vars == <<m_isRunning, m_mutex, sizeVars, queueVars, m_zombie_queue,
          m_thread_map, threadVars, ctl, calls, added, started,
          paused, quiet>>

One == "m_isRunning1"
Two == "m_isRunning2"
Flags == {One, Two}

(***************************************************************************)
(* The client's place: the label, how many tasks, threads or zombies are   *)
(* left at this label, and where Pause returns to.                         *)
(***************************************************************************)
At(label, left, back) == [at |-> label, left |-> left, back |-> back]
Idle == At("idle", 0, "idle")

(***************************************************************************)
(* The constructor pauses the pool and then creates the threads.           *)
(***************************************************************************)
Init ==
  /\ m_isRunning = [f \in Flags |-> FALSE]
  /\ m_mutex = Free
  /\ m_numOfThreads = NumOfThreads /\ m_targetNumOfThreads = NumOfThreads
  /\ suicides = 0 /\ pauses = [f \in Flags |-> 0] /\ queued = {}
  /\ m_zombie_queue = {} /\ m_thread_map = {}
  /\ pc = [t \in Threads |-> "none"]
  /\ flag = [t \in Threads |-> One]
  /\ running = [t \in Threads |-> None]
  /\ ctl = At("pause", 0, "construct")
  /\ calls = 0
  /\ added = {} /\ started = {} /\ paused = FALSE /\ quiet = {}

-----------------------------------------------------------------------------
(***************************************************************************)
(* A worker: ThreadFunction and the tasks it calls.                        *)
(***************************************************************************)
Move(t, label) == pc' = [pc EXCEPT ![t] = label]

clientUnchanged == UNCHANGED <<sizeVars, m_isRunning, m_thread_map, ctl, calls,
                               added, paused, quiet>>

PopSuicide(t) ==
  /\ pc[t] = "pop" /\ suicides > 0
  /\ suicides' = suicides - 1
  /\ m_zombie_queue' = m_zombie_queue \cup {t}
  /\ Move(t, "exited")
  /\ UNCHANGED <<m_mutex, pauses, queued, flag, running, started>>
  /\ clientUnchanged

PopPause(t, f) ==
  /\ pc[t] = "pop" /\ suicides = 0 /\ pauses[f] > 0
  /\ pauses' = [pauses EXCEPT ![f] = @ - 1]
  /\ flag' = [flag EXCEPT ![t] = f]
  /\ Move(t, "lock")
  /\ UNCHANGED <<m_mutex, suicides, queued, m_zombie_queue, running, started>>
  /\ clientUnchanged

PopTask(t, u) ==
  /\ pc[t] = "pop" /\ suicides = 0 /\ \A f \in Flags : pauses[f] = 0
  /\ u \in queued /\ \A v \in queued : Priority[v] <= Priority[u]
  /\ queued' = queued \ {u}
  /\ running' = [running EXCEPT ![t] = u]
  /\ started' = started \cup {u}
  /\ Move(t, "run")
  /\ UNCHANGED <<m_mutex, suicides, pauses, m_zombie_queue, flag>>
  /\ clientUnchanged

(***************************************************************************)
(* The task returns; an exception of it ends the thread, which is no       *)
(* zombie that anybody would join.                                         *)
(***************************************************************************)
FinishTask(t) ==
  /\ pc[t] = "run"
  /\ IF running[t] \in Throwing
       THEN Move(t, "exited") /\ UNCHANGED running
       ELSE Move(t, "pop") /\ running' = [running EXCEPT ![t] = None]
  /\ UNCHANGED <<m_mutex, queueVars, m_zombie_queue, flag, started>>
  /\ clientUnchanged

(***************************************************************************)
(* PauseTask1 and PauseTask2: lock, then while the flag is down, wait.     *)
(* Wait unlocks and sleeps at once, but not at once with the test.         *)
(***************************************************************************)
LockPause(t) ==
  /\ pc[t] = "lock" /\ m_mutex = Free
  /\ m_mutex' = t
  /\ Move(t, "test")
  /\ UNCHANGED <<queueVars, m_zombie_queue, flag, running, started>>
  /\ clientUnchanged

TestPause(t) ==
  /\ pc[t] = "test"
  /\ IF m_isRunning[flag[t]]
       THEN Move(t, "pop") /\ m_mutex' = Free
       ELSE Move(t, "wait") /\ UNCHANGED m_mutex
  /\ UNCHANGED <<queueVars, m_zombie_queue, flag, running, started>>
  /\ clientUnchanged

WaitPause(t) ==
  /\ pc[t] = "wait"
  /\ m_mutex' = Free
  /\ Move(t, "asleep")
  /\ UNCHANGED <<queueVars, m_zombie_queue, flag, running, started>>
  /\ clientUnchanged

SpuriousWakeup(t) ==
  /\ pc[t] = "asleep"
  /\ Move(t, "lock")
  /\ UNCHANGED <<m_mutex, queueVars, m_zombie_queue, flag, running, started>>
  /\ clientUnchanged

Worker(t) ==
  \/ PopSuicide(t)
  \/ \E f \in Flags : PopPause(t, f)
  \/ \E u \in Tasks : PopTask(t, u)
  \/ FinishTask(t) \/ LockPause(t) \/ TestPause(t) \/ WaitPause(t)

-----------------------------------------------------------------------------
(***************************************************************************)
(* AddTask, by any thread once the pool is constructed.                    *)
(***************************************************************************)
AddTask(u) ==
  /\ u \notin added
  /\ calls > 0 \/ ctl = Idle
  /\ queued' = queued \cup {u}
  /\ added'  = added \cup {u}
  /\ quiet'  = IF paused THEN quiet \cup {u} ELSE quiet
  /\ UNCHANGED <<m_isRunning, m_mutex, sizeVars, suicides, pauses,
                 m_zombie_queue, m_thread_map, threadVars, ctl, calls, started,
                 paused>>

-----------------------------------------------------------------------------
(***************************************************************************)
(* The client.  Call begins a call; a Step is a part of the call that the  *)
(* workers see as one: a critical section, a push, a notification.         *)
(***************************************************************************)
Call(c, where) ==
  /\ c \in Calls /\ ctl = Idle /\ calls < MaxCalls
  /\ calls' = calls + 1
  /\ ctl'   = where

Step(from, to) ==
  /\ ctl = from
  /\ ctl' = to
  /\ UNCHANGED calls

Lock == m_mutex = Free                  \* lock ... unlock, in one step
SecondUnlock == m_mutex' = Free         \* by the lock_guard, on return
SetFlag(f, b) == m_isRunning' = [m_isRunning EXCEPT ![f] = b]
NotifyAll ==
  pc' = [t \in Threads |-> IF pc[t] = "asleep" THEN "lock" ELSE pc[t]]

userUnchanged == UNCHANGED <<queued, flag, running, added, started>>

(***************************************************************************)
(* Run.                                                                    *)
(***************************************************************************)
CallRun ==
  /\ Call("Run", At("run", 0, "idle"))
  /\ paused' = FALSE /\ quiet' = {}
  /\ UNCHANGED <<m_isRunning, m_mutex, sizeVars, suicides, pauses,
                 m_zombie_queue, m_thread_map, pc>> /\ userUnchanged

RunSet ==
  /\ Step(At("run", 0, "idle"), At("runNotify", 0, "idle"))
  /\ Lock
  /\ m_isRunning' = [f \in Flags |-> TRUE]
  /\ UNCHANGED <<m_mutex, sizeVars, suicides, pauses, m_zombie_queue,
                 m_thread_map, pc, paused, quiet>> /\ userUnchanged

RunNotify ==
  /\ Step(At("runNotify", 0, "idle"), At("runReturn", 0, "idle"))
  /\ NotifyAll
  /\ UNCHANGED <<m_isRunning, m_mutex, sizeVars, suicides, pauses,
                 m_zombie_queue, m_thread_map, paused, quiet>> /\ userUnchanged

RunReturn ==
  /\ Step(At("runReturn", 0, "idle"), Idle)
  /\ SecondUnlock
  /\ UNCHANGED <<m_isRunning, sizeVars, suicides, pauses, m_zombie_queue,
                 m_thread_map, pc, paused, quiet>> /\ userUnchanged

(***************************************************************************)
(* Pause, called by the client, by the constructor or to grow.             *)
(***************************************************************************)
CallPause ==
  /\ Call("Pause", At("pause", 0, "idle"))
  /\ UNCHANGED <<m_isRunning, m_mutex, sizeVars, suicides, pauses,
                 m_zombie_queue, m_thread_map, pc, paused, quiet>>
  /\ userUnchanged

\* Mutant: the loop starts at 1.
PauseTasksOneLess ==
  m_targetNumOfThreads
    - (IF m_numOfThreads < m_targetNumOfThreads THEN m_numOfThreads ELSE 1)

PauseTasksToPush ==
  m_targetNumOfThreads
    - (IF m_numOfThreads < m_targetNumOfThreads THEN m_numOfThreads ELSE 0)

PauseSet(back) ==
  /\ Step(At("pause", 0, back), At("pausePush", PauseTasksToPush, back))
  /\ Lock
  /\ SetFlag(One, FALSE)
  /\ UNCHANGED <<m_mutex, sizeVars, suicides, pauses, m_zombie_queue,
                 m_thread_map, pc, paused, quiet>> /\ userUnchanged

PausePush(back) ==
  /\ ctl.left > 0
  /\ Step(At("pausePush", ctl.left, back), At("pausePush", ctl.left - 1, back))
  /\ pauses' = [pauses EXCEPT ![One] = @ + 1]
  /\ UNCHANGED <<m_isRunning, m_mutex, sizeVars, suicides, m_zombie_queue,
                 m_thread_map, pc, paused, quiet>> /\ userUnchanged

AfterPause(back) ==
  CASE back = "idle"      -> Idle
    [] back = "construct" -> At("create", m_targetNumOfThreads, "construct")
    [] back = "grow"      -> At("create", m_targetNumOfThreads - m_numOfThreads,
                                "grow")

PauseReturn(back) ==
  /\ Step(At("pausePush", 0, back), AfterPause(back))
  /\ SecondUnlock
  /\ paused' = (back = "grow" => paused)
  /\ UNCHANGED <<m_isRunning, sizeVars, suicides, pauses, m_zombie_queue,
                 m_thread_map, pc, quiet>> /\ userUnchanged

-----------------------------------------------------------------------------
(***************************************************************************)
(* SetNumOfThreads.  "Resize" is a call on a pool that runs, "ResizePaused"*)
(* on any.  The destructor is SetNumOfThreads(0).                          *)
(***************************************************************************)
CallSetNumOfThreads(n) ==
  LET where == IF n <= m_numOfThreads THEN At("kill", m_numOfThreads - n, "idle")
               ELSE IF m_isRunning[One] THEN At("create", n - m_numOfThreads, "grow")
               ELSE At("pause", 0, "grow")
  IN
  /\ \/ Call("ResizePaused", where)
     \/ Call("Resize", where) /\ \A f \in Flags : m_isRunning[f]
  /\ m_targetNumOfThreads' = n
  /\ UNCHANGED <<m_isRunning, m_mutex, m_numOfThreads, suicides, pauses,
                 m_zombie_queue, m_thread_map, pc, paused, quiet>>
  /\ userUnchanged

CreateThread(back) ==
  /\ ctl.left > 0
  /\ Step(At("create", ctl.left, back), At("create", ctl.left - 1, back))
  /\ \E t \in Threads :
       /\ pc[t] = "none"
       /\ pc' = [pc EXCEPT ![t] = "pop"]
       /\ m_thread_map' = m_thread_map \cup {t}
  /\ UNCHANGED <<m_isRunning, m_mutex, sizeVars, suicides, pauses,
                 m_zombie_queue, paused, quiet>> /\ userUnchanged

(***************************************************************************)
(* SetNumOfThreads returns: m_numOfThreads = m_targetNumOfThreads.         *)
(***************************************************************************)
ResizeDone ==
  /\ ctl.at \in {"create", "join"}
  /\ Step(At(ctl.at, 0, ctl.back), Idle)
  /\ m_numOfThreads' = m_targetNumOfThreads
  /\ UNCHANGED <<m_isRunning, m_mutex, m_targetNumOfThreads, suicides, pauses,
                 m_zombie_queue, m_thread_map, pc, paused, quiet>>
  /\ userUnchanged

ThreadToKill == m_numOfThreads - m_targetNumOfThreads

\* Mutant: one suicide task more than threads to kill.
PushSuicideTwice ==
  /\ ctl.left > 0
  /\ Step(At("kill", ctl.left, "idle"), At("kill", ctl.left - 1, "idle"))
  /\ suicides' = IF ctl.left = 1 THEN suicides + 2 ELSE suicides + 1
  /\ UNCHANGED <<m_isRunning, m_mutex, sizeVars, pauses, m_zombie_queue,
                 m_thread_map, pc, paused, quiet>> /\ userUnchanged

PushSuicide ==
  /\ ctl.left > 0
  /\ Step(At("kill", ctl.left, "idle"), At("kill", ctl.left - 1, "idle"))
  /\ suicides' = suicides + 1
  /\ UNCHANGED <<m_isRunning, m_mutex, sizeVars, pauses, m_zombie_queue,
                 m_thread_map, pc, paused, quiet>> /\ userUnchanged

(***************************************************************************)
(* A paused pool moves its pause to the other flag, f, so that workers     *)
(* asleep on the first one come out to their suicide tasks.                *)
(***************************************************************************)
OtherFlag(f) == IF f = One THEN Two ELSE One

ChooseFlag ==
  /\ Step(At("kill", 0, "idle"),
          IF ~m_isRunning[One] THEN At("shift", 0, Two)
          ELSE IF ~m_isRunning[Two] THEN At("shift", 0, One)
          ELSE At("join", ThreadToKill, "idle"))
  /\ UNCHANGED <<m_isRunning, m_mutex, sizeVars, suicides, pauses,
                 m_zombie_queue, m_thread_map, pc, paused, quiet>>
  /\ userUnchanged

(***************************************************************************)
(* for (i = thread_to_kill; i < m_targetNumOfThreads; ++i)                 *)
(***************************************************************************)
\* Mutant: the number of tasks is a difference, not the length of a loop.
ShiftTasksDifference == m_targetNumOfThreads - ThreadToKill

ShiftTasksToPush ==
  IF ThreadToKill < m_targetNumOfThreads
    THEN m_targetNumOfThreads - ThreadToKill ELSE 0

ShiftSet(f) ==
  /\ Step(At("shift", 0, f), At("shiftPush", ShiftTasksToPush, f))
  /\ Lock
  /\ SetFlag(f, FALSE)
  /\ UNCHANGED <<m_mutex, sizeVars, suicides, pauses, m_zombie_queue,
                 m_thread_map, pc, paused, quiet>> /\ userUnchanged

ShiftPush(f) ==
  /\ ctl.left > 0
  /\ Step(At("shiftPush", ctl.left, f), At("shiftPush", ctl.left - 1, f))
  /\ pauses' = [pauses EXCEPT ![f] = @ + 1]
  /\ UNCHANGED <<m_isRunning, m_mutex, sizeVars, suicides, m_zombie_queue,
                 m_thread_map, pc, paused, quiet>> /\ userUnchanged

ShiftFlip(f) ==
  /\ Step(At("shiftPush", 0, f), At("shiftNotify", 0, f))
  /\ Lock
  /\ SetFlag(OtherFlag(f), TRUE)
  /\ UNCHANGED <<m_mutex, sizeVars, suicides, pauses, m_zombie_queue,
                 m_thread_map, pc, paused, quiet>> /\ userUnchanged

\* Mutant: the sleeping workers are not notified.
ShiftWithoutNotify(f) ==
  /\ Step(At("shiftNotify", 0, f), At("shiftReturn", 0, f))
  /\ UNCHANGED <<m_isRunning, m_mutex, sizeVars, suicides, pauses,
                 m_zombie_queue, m_thread_map, pc, paused, quiet>>
  /\ userUnchanged

ShiftNotify(f) ==
  /\ Step(At("shiftNotify", 0, f), At("shiftReturn", 0, f))
  /\ NotifyAll
  /\ UNCHANGED <<m_isRunning, m_mutex, sizeVars, suicides, pauses,
                 m_zombie_queue, m_thread_map, paused, quiet>> /\ userUnchanged

(***************************************************************************)
(* Only the branch for the first flag has a lock_guard.                    *)
(***************************************************************************)
ShiftReturn(f) ==
  /\ Step(At("shiftReturn", 0, f), At("join", ThreadToKill, "idle"))
  /\ IF f = Two THEN SecondUnlock ELSE UNCHANGED m_mutex
  /\ UNCHANGED <<m_isRunning, sizeVars, suicides, pauses, m_zombie_queue,
                 m_thread_map, pc, paused, quiet>> /\ userUnchanged

\* Mutant: the joined thread stays in the map.
JoinWithoutErase ==
  /\ ctl.left > 0
  /\ Step(At("join", ctl.left, "idle"), At("join", ctl.left - 1, "idle"))
  /\ \E t \in m_zombie_queue :
       /\ pc[t] = "exited"
       /\ m_zombie_queue' = m_zombie_queue \ {t}
       /\ pc' = [pc EXCEPT ![t] = "none"]
  /\ UNCHANGED <<m_isRunning, m_mutex, sizeVars, suicides, pauses, m_thread_map,
                 paused, quiet>> /\ userUnchanged

JoinZombie ==
  /\ ctl.left > 0
  /\ Step(At("join", ctl.left, "idle"), At("join", ctl.left - 1, "idle"))
  /\ \E t \in m_zombie_queue :
       /\ pc[t] = "exited"
       /\ m_zombie_queue' = m_zombie_queue \ {t}
       /\ m_thread_map'   = m_thread_map \ {t}
       /\ pc' = [pc EXCEPT ![t] = "none"]
  /\ UNCHANGED <<m_isRunning, m_mutex, sizeVars, suicides, pauses, paused,
                 quiet>> /\ userUnchanged

Client ==
  \/ RunSet \/ RunNotify \/ RunReturn
  \/ \E back \in {"idle", "construct", "grow"} :
       \/ PauseSet(back) \/ PausePush(back) \/ PauseReturn(back)
       \/ CreateThread(back)
  \/ ResizeDone \/ PushSuicide \/ ChooseFlag \/ JoinZombie
  \/ \E f \in Flags : \/ ShiftSet(f) \/ ShiftPush(f) \/ ShiftFlip(f)
                      \/ ShiftNotify(f) \/ ShiftReturn(f)

-----------------------------------------------------------------------------
(***************************************************************************)
(* Between two calls the pool may rest.                                    *)
(***************************************************************************)
Rest == ctl = Idle /\ UNCHANGED vars

Next ==
  \/ \E t \in Threads : Worker(t) \/ SpuriousWakeup(t)
  \/ \E u \in Tasks : AddTask(u)
  \/ CallRun \/ CallPause \/ \E n \in Sizes : CallSetNumOfThreads(n)
  \/ Client
  \/ Rest

Spec == Init /\ [][Next]_vars

(***************************************************************************)
(* Threads run, and one that keeps asking for a mutex gets it in the end.  *)
(* Nothing obliges the client to make a call.                              *)
(***************************************************************************)
FairSpec ==
  /\ Spec
  /\ \A t \in Threads : WF_vars(Worker(t)) /\ SF_vars(LockPause(t))
  /\ SF_vars(Client)

-----------------------------------------------------------------------------
TypeOK ==
  /\ m_isRunning \in [Flags -> BOOLEAN]
  /\ m_mutex \in Threads \cup {Free}
  /\ m_numOfThreads \in Nat /\ m_targetNumOfThreads \in Nat
  /\ suicides \in Nat /\ pauses \in [Flags -> Nat]
  /\ queued \subseteq added /\ started \subseteq added /\ added \subseteq Tasks
  /\ m_zombie_queue \subseteq m_thread_map /\ m_thread_map \subseteq Threads
  /\ pc \in [Threads -> {"none", "pop", "run", "lock", "test", "wait",
                         "asleep", "exited"}]
  /\ flag \in [Threads -> Flags]
  /\ running \in [Threads -> Tasks \cup {None}]
  /\ ctl.left \in Nat
  /\ paused \in BOOLEAN
  /\ quiet \subseteq added

(***************************************************************************)
(* A task added after Pause has returned does not start before the next    *)
(* call of Run (thread_pool_test2.cpp tests it).                           *)
(***************************************************************************)
PausedStartsNothing == quiet \cap started = {}

(***************************************************************************)
(* Between two calls m_thread_map holds exactly the threads created and    *)
(* not joined, they are as many as m_numOfThreads says, no suicide task    *)
(* and no zombie is left over, and each of them serves the queue unless a  *)
(* task of the users threw in it.                                          *)
(***************************************************************************)
ThreadsAccountedFor ==
  ctl = Idle =>
    /\ m_thread_map = {t \in Threads : pc[t] # "none"}
    /\ Cardinality(m_thread_map) = m_numOfThreads
    /\ m_zombie_queue = {} /\ suicides = 0
    /\ \A t \in m_thread_map : pc[t] = "exited" => running[t] \in Throwing

(***************************************************************************)
(* Once Run has returned, a task that was added to a pool with threads     *)
(* starts, unless the client makes another call first.                     *)
(***************************************************************************)
Open == ctl = Idle /\ m_numOfThreads > 0 /\ \A f \in Flags : m_isRunning[f]

RunStartsTasks ==
  \A u \in Tasks : (u \in added /\ Open) ~> (u \in started \/ ~Open)

(***************************************************************************)
(* A shrink waits for its zombies, and a worker that sleeps for ever is    *)
(* none.  The pool is settled if the shrink will wake whoever it needs:    *)
(* workers are, or will be by a pause task that is still queued, in a      *)
(* pause on the flag that the shift raises only; and whoever tested it and *)
(* does not sleep yet holds the mutex, which a second unlock may have      *)
(* freed.                                                                  *)
(***************************************************************************)
Raised(f) == ~m_isRunning[f] /\ (f = One \/ m_isRunning[One])

Settled ==
  /\ \A f \in Flags : pauses[f] > 0 => Raised(f)
  /\ \A t \in Threads :
       /\ pc[t] \in {"lock", "test", "wait", "asleep"} => Raised(flag[t])
       /\ pc[t] \in {"test", "wait"} => m_mutex = t

Shrinking ==
  ctl.at \in {"kill", "shift", "shiftPush", "shiftNotify", "shiftReturn", "join"}
ShrinkBegins == ctl = At("kill", ThreadToKill, "idle")

(***************************************************************************)
(* Where no task throws, Run, Pause and a growing SetNumOfThreads return,  *)
(* and so does one that shrinks a settled pool, paused or not: it gets the *)
(* zombies that DecreaseNumOfTheads waits for.                             *)
(***************************************************************************)
CallsReturn ==
  Throwing = {} =>
    /\ (ctl # Idle /\ ~Shrinking) ~> ctl = Idle
    /\ (ShrinkBegins /\ Settled) ~> ctl = Idle

=============================================================================
