---------------------------- MODULE ThreadPoolProofs ----------------------------
(***************************************************************************)
(* For any number of threads, tasks and calls: ThreadPool keeps account of *)
(* its threads, whatever the client calls and whatever the tasks throw,    *)
(* and, as long as a paused pool is not resized, Pause holds back every    *)
(* task that is added after it has returned.                               *)
(***************************************************************************)
EXTENDS ThreadPool, FiniteSetTheorems, TLAPS

(***************************************************************************)
(* The client is at one of the labels of its calls, with the count and the *)
(* return label that go with it.                                           *)
(***************************************************************************)
Backs == {"idle", "construct", "grow"}

Shifts == {"shift", "shiftPush", "shiftNotify", "shiftReturn"}

Labels == {"idle", "run", "runNotify", "runReturn", "pause", "pausePush",
           "create", "kill", "join"} \cup Shifts

CtlOK ==
  /\ ctl \in [at : Labels, left : Nat, back : Backs \cup Flags]
  /\ ctl.at = "idle" => ctl = Idle
  /\ ctl.at \in {"pause", "pausePush", "create"} => ctl.back \in Backs
  /\ ctl.at = "create" => ctl.back # "idle"
  /\ ctl.at \in {"kill", "join"} => ctl.back = "idle"
  /\ ctl.at \in Shifts => ctl.back \in Flags

(***************************************************************************)
(* m_thread_map is the threads that exist; a zombie is one that took a     *)
(* suicide task, and a thread that ended otherwise ended by an exception.  *)
(***************************************************************************)
MapInv ==
  /\ m_thread_map = {t \in Threads : pc[t] # "none"}
  /\ \A t \in m_zombie_queue : pc[t] = "exited"
  /\ \A t \in Threads :
       (pc[t] = "exited" /\ t \notin m_zombie_queue) => running[t] \in Throwing

(***************************************************************************)
(* At every place of the client, how many threads exist, and how many of   *)
(* them are doomed: a suicide task waits for them, or they took one.       *)
(***************************************************************************)
Exist  == Cardinality(m_thread_map)
Doomed == suicides + Cardinality(m_zombie_queue)

CountInv ==
  /\ ctl.at \in {"idle", "run", "runNotify", "runReturn"} =>
       /\ m_targetNumOfThreads = m_numOfThreads
       /\ Exist = m_numOfThreads /\ Doomed = 0
  /\ ctl.at \in {"pause", "pausePush"} =>
       /\ IF ctl.back = "grow" THEN m_numOfThreads < m_targetNumOfThreads
                               ELSE m_targetNumOfThreads = m_numOfThreads
       /\ Exist = (IF ctl.back = "construct" THEN 0 ELSE m_numOfThreads)
       /\ Doomed = 0
  /\ ctl.at = "create" =>
       Exist + ctl.left = m_targetNumOfThreads /\ Doomed = 0
  /\ ctl.at = "kill" =>
       /\ Exist = m_numOfThreads
       /\ Doomed + ctl.left + m_targetNumOfThreads = m_numOfThreads
  /\ ctl.at \in Shifts =>
       /\ Exist = m_numOfThreads
       /\ Doomed + m_targetNumOfThreads = m_numOfThreads
  /\ ctl.at = "join" =>
       Exist = m_targetNumOfThreads + ctl.left /\ Doomed = ctl.left

PoolInv == TypeOK /\ CtlOK /\ MapInv /\ CountInv

(***************************************************************************)
(* The threads that could take a task of the users, or are in one.         *)
(***************************************************************************)
Active == {t \in Threads : pc[t] \in {"pop", "run"}}

(***************************************************************************)
(* If no paused pool is resized, the second flag is never used, ...        *)
(***************************************************************************)
OneFlagInv ==
  /\ pauses[Two] = 0 /\ \A t \in Threads : flag[t] = One
  /\ m_isRunning[One] => m_isRunning[Two]
  /\ ctl.at \in {"kill", "join"} => m_isRunning[One]
  /\ (ctl.at = "create" /\ ctl.back = "grow") => m_isRunning[One]
  /\ ctl.at = "pausePush" => ~m_isRunning[One]
  /\ ctl.at \notin Shifts
  /\ ctl.at \in {"pause", "pausePush"} => ctl.back # "grow"

(***************************************************************************)
(* ... and while the pool is paused there is a pause task in the queue for *)
(* every thread that is active, and for every one not yet created.         *)
(***************************************************************************)
EnoughPauses ==
  /\ ctl.at = "pausePush" =>
       IF ctl.back = "idle" THEN Cardinality(Active) <= pauses[One] + ctl.left
       ELSE m_targetNumOfThreads <= pauses[One] + ctl.left
  /\ (ctl.at = "create" /\ ctl.back = "construct") =>
       paused /\ Cardinality(Active) + ctl.left <= pauses[One]
  /\ paused => Cardinality(Active) <= pauses[One]

QuietInv ==
  /\ PausedStartsNothing
  /\ quiet # {} => paused
  /\ paused => ~m_isRunning[One] /\ ctl.at \notin {"run", "runNotify", "runReturn"}

PauseInv == OneFlagInv /\ EnoughPauses /\ QuietInv

-----------------------------------------------------------------------------
(***************************************************************************)
(* The sets of threads are finite, so the counts are numbers.              *)
(***************************************************************************)
LEMMA Counts ==
  ASSUME NEW S, S \subseteq Threads
  PROVE  IsFiniteSet(S) /\ Cardinality(S) \in Nat
BY PoolAssumption, FS_Subset, FS_CardinalityType

(***************************************************************************)
(* The constructor starts without threads, at the call of Pause.           *)
(***************************************************************************)
LEMMA PoolInit == Init => PoolInv
<1> SUFFICES ASSUME Init PROVE PoolInv
  OBVIOUS
<1>1. TypeOK
  <2>1. m_isRunning \in [Flags -> BOOLEAN] /\ paused \in BOOLEAN
    BY Zenon DEF Init
  <2> QED
    BY <2>1, PoolAssumption DEF Init, TypeOK, Flags, One, Two, At
<1>2. CtlOK
  BY DEF Init, CtlOK, At, Idle, Labels, Backs, Shifts
<1>3. MapInv
  BY DEF Init, MapInv
<1>4. CountInv
  BY FS_EmptySet DEF Init, CountInv, Exist, Doomed, At, Shifts
<1> QED
  BY <1>1, <1>2, <1>3, <1>4 DEF PoolInv

(***************************************************************************)
(* Every step keeps the types, and the client at a label that exists.      *)
(***************************************************************************)
LEMMA PoolTypes == PoolInv /\ [Next]_vars => TypeOK' /\ CtlOK'
<1> SUFFICES ASSUME PoolInv, [Next]_vars PROVE TypeOK' /\ CtlOK'
  OBVIOUS
<1> USE PoolAssumption
        DEF PoolInv, TypeOK, CtlOK, Labels, Shifts, Backs, Flags, One, Two, At, Idle,
            queueVars, threadVars, sizeVars
<1>1. ASSUME NEW t \in Threads, Worker(t) \/ SpuriousWakeup(t) PROVE TypeOK' /\ CtlOK'
  <2> USE DEF clientUnchanged, Move
  <2>1. CASE PopSuicide(t)
    BY <2>1 DEF PopSuicide, MapInv
  <2>2. ASSUME NEW f \in Flags, PopPause(t, f) PROVE TypeOK' /\ CtlOK'
    BY <2>2 DEF PopPause
  <2>3. ASSUME NEW u \in Tasks, PopTask(t, u) PROVE TypeOK' /\ CtlOK'
    BY <2>3 DEF PopTask
  <2>4. CASE FinishTask(t)
    BY <2>4 DEF FinishTask
  <2>5. CASE LockPause(t)
    BY <2>5 DEF LockPause
  <2>6. CASE TestPause(t)
    BY <2>6 DEF TestPause
  <2>7. CASE WaitPause(t)
    BY <2>7 DEF WaitPause
  <2>8. CASE SpuriousWakeup(t)
    BY <2>8 DEF SpuriousWakeup
  <2> QED
    BY <1>1, <2>1, <2>2, <2>3, <2>4, <2>5, <2>6, <2>7, <2>8 DEF Worker
<1>2. ASSUME NEW u \in Tasks, AddTask(u) PROVE TypeOK' /\ CtlOK'
  BY <1>2 DEF AddTask
<1> USE DEF Call, Step, Lock, SecondUnlock, SetFlag, NotifyAll, userUnchanged
<1>3. CASE CallRun
  BY <1>3 DEF CallRun
<1>4. CASE CallPause
  BY <1>4 DEF CallPause
<1>5. ASSUME NEW n \in Sizes, CallSetNumOfThreads(n) PROVE TypeOK' /\ CtlOK'
  BY <1>5 DEF CallSetNumOfThreads
<1>6. CASE RunSet
  BY <1>6 DEF RunSet
<1>7. CASE RunNotify
  BY <1>7 DEF RunNotify
<1>8. CASE RunReturn
  BY <1>8 DEF RunReturn
<1>9. ASSUME NEW back \in Backs, PauseSet(back) PROVE TypeOK' /\ CtlOK'
  BY <1>9 DEF PauseSet, PauseTasksToPush
<1>10. ASSUME NEW back \in Backs, PausePush(back) PROVE TypeOK' /\ CtlOK'
  BY <1>10 DEF PausePush
<1>11. ASSUME NEW back \in Backs, PauseReturn(back) PROVE TypeOK' /\ CtlOK'
  <2>1. paused' \in BOOLEAN
    BY <1>11, Zenon DEF PauseReturn
  <2> QED
    BY <1>11, <2>1 DEF PauseReturn, AfterPause, CountInv
<1>12. ASSUME NEW back \in Backs, CreateThread(back) PROVE TypeOK' /\ CtlOK'
  BY <1>12 DEF CreateThread
<1>13. CASE ResizeDone
  BY <1>13 DEF ResizeDone
<1>14. CASE PushSuicide
  BY <1>14 DEF PushSuicide
<1>15. CASE ChooseFlag
  BY <1>15, Counts DEF ChooseFlag, ThreadToKill, CountInv, Doomed
<1>16. CASE JoinZombie
  BY <1>16 DEF JoinZombie
<1>17. ASSUME NEW f \in Flags, ShiftSet(f) PROVE TypeOK' /\ CtlOK'
  BY <1>17 DEF ShiftSet, ShiftTasksToPush, ThreadToKill
<1>18. ASSUME NEW f \in Flags, ShiftPush(f) PROVE TypeOK' /\ CtlOK'
  BY <1>18 DEF ShiftPush
<1>19. ASSUME NEW f \in Flags, ShiftFlip(f) PROVE TypeOK' /\ CtlOK'
  BY <1>19 DEF ShiftFlip, OtherFlag
<1>20. ASSUME NEW f \in Flags, ShiftNotify(f) PROVE TypeOK' /\ CtlOK'
  BY <1>20 DEF ShiftNotify
<1>21. ASSUME NEW f \in Flags, ShiftReturn(f) PROVE TypeOK' /\ CtlOK'
  BY <1>21, Counts DEF ShiftReturn, ThreadToKill, CountInv, Doomed
<1>22. CASE UNCHANGED vars
  BY <1>22 DEF vars
<1> QED
  BY <1>1, <1>2, <1>3, <1>4, <1>5, <1>6, <1>7, <1>8, <1>9, <1>10, <1>11, <1>12, <1>13,
     <1>14, <1>15, <1>16, <1>17, <1>18, <1>19, <1>20, <1>21, <1>22
  DEF Next, Client, Rest

(***************************************************************************)
(* Every step keeps m_thread_map the threads that exist: the two actions   *)
(* that change it change the thread with it.                               *)
(***************************************************************************)
LEMMA PoolMap == PoolInv /\ [Next]_vars => MapInv'
<1> SUFFICES ASSUME PoolInv, [Next]_vars PROVE MapInv'
  OBVIOUS
<1> USE DEF PoolInv, TypeOK, MapInv, Flags, queueVars, threadVars, sizeVars
<1>1. ASSUME NEW t \in Threads, Worker(t) \/ SpuriousWakeup(t) PROVE MapInv'
  <2> USE DEF clientUnchanged, Move
  <2>1. CASE PopSuicide(t)
    BY <2>1 DEF PopSuicide
  <2>2. ASSUME NEW f \in Flags, PopPause(t, f) PROVE MapInv'
    BY <2>2 DEF PopPause
  <2>3. ASSUME NEW u \in Tasks, PopTask(t, u) PROVE MapInv'
    BY <2>3 DEF PopTask
  <2>4. CASE FinishTask(t)
    BY <2>4 DEF FinishTask
  <2>5. CASE LockPause(t)
    BY <2>5 DEF LockPause
  <2>6. CASE TestPause(t)
    BY <2>6 DEF TestPause
  <2>7. CASE WaitPause(t)
    BY <2>7 DEF WaitPause
  <2>8. CASE SpuriousWakeup(t)
    BY <2>8 DEF SpuriousWakeup
  <2> QED
    BY <1>1, <2>1, <2>2, <2>3, <2>4, <2>5, <2>6, <2>7, <2>8 DEF Worker
<1>2. ASSUME NEW u \in Tasks, AddTask(u) PROVE MapInv'
  BY <1>2 DEF AddTask
<1> USE DEF Call, Step, Lock, SecondUnlock, SetFlag, NotifyAll, userUnchanged
<1>3. CASE CallRun
  BY <1>3 DEF CallRun
<1>4. CASE CallPause
  BY <1>4 DEF CallPause
<1>5. ASSUME NEW n \in Sizes, CallSetNumOfThreads(n) PROVE MapInv'
  BY <1>5 DEF CallSetNumOfThreads
<1>6. CASE RunSet
  BY <1>6 DEF RunSet
<1>7. CASE RunNotify
  BY <1>7 DEF RunNotify
<1>8. CASE RunReturn
  BY <1>8 DEF RunReturn
<1>9. ASSUME NEW back \in Backs, PauseSet(back) PROVE MapInv'
  BY <1>9 DEF PauseSet
<1>10. ASSUME NEW back \in Backs, PausePush(back) PROVE MapInv'
  BY <1>10 DEF PausePush
<1>11. ASSUME NEW back \in Backs, PauseReturn(back) PROVE MapInv'
  BY <1>11 DEF PauseReturn
<1>12. ASSUME NEW back \in Backs, CreateThread(back) PROVE MapInv'
  BY <1>12 DEF CreateThread
<1>13. CASE ResizeDone
  BY <1>13 DEF ResizeDone
<1>14. CASE PushSuicide
  BY <1>14 DEF PushSuicide
<1>15. CASE ChooseFlag
  BY <1>15 DEF ChooseFlag
<1>16. CASE JoinZombie
  BY <1>16 DEF JoinZombie
<1>17. ASSUME NEW f \in Flags, ShiftSet(f) PROVE MapInv'
  BY <1>17 DEF ShiftSet
<1>18. ASSUME NEW f \in Flags, ShiftPush(f) PROVE MapInv'
  BY <1>18 DEF ShiftPush
<1>19. ASSUME NEW f \in Flags, ShiftFlip(f) PROVE MapInv'
  BY <1>19 DEF ShiftFlip
<1>20. ASSUME NEW f \in Flags, ShiftNotify(f) PROVE MapInv'
  BY <1>20 DEF ShiftNotify
<1>21. ASSUME NEW f \in Flags, ShiftReturn(f) PROVE MapInv'
  BY <1>21 DEF ShiftReturn
<1>22. CASE UNCHANGED vars
  BY <1>22 DEF vars
<1> QED
  BY <1>1, <1>2, <1>3, <1>4, <1>5, <1>6, <1>7, <1>8, <1>9, <1>10, <1>11, <1>12, <1>13,
     <1>14, <1>15, <1>16, <1>17, <1>18, <1>19, <1>20, <1>21, <1>22
  DEF Next, Client, Rest, Backs

(***************************************************************************)
(* Every step keeps the counts: a thread is doomed when PushSuicide pushes *)
(* a task for it, stays so when it takes the task, and JoinZombie takes it *)
(* out of both counts.                                                     *)
(***************************************************************************)
LEMMA PoolCount == PoolInv /\ [Next]_vars => CountInv'
<1> SUFFICES ASSUME PoolInv, [Next]_vars PROVE CountInv'
  OBVIOUS
<1>0. /\ IsFiniteSet(m_thread_map) /\ Cardinality(m_thread_map) \in Nat
      /\ IsFiniteSet(m_zombie_queue) /\ Cardinality(m_zombie_queue) \in Nat
  BY Counts DEF PoolInv, TypeOK
<1> USE <1>0, PoolAssumption
        DEF PoolInv, TypeOK, CtlOK, CountInv, Exist, Doomed, Labels, Shifts, Backs, Flags,
            One, Two, At, Idle, queueVars, threadVars, sizeVars
<1>1. ASSUME NEW t \in Threads, Worker(t) \/ SpuriousWakeup(t) PROVE CountInv'
  <2> USE DEF clientUnchanged, Move
  <2>1. CASE PopSuicide(t)
    <3>1. Cardinality(m_zombie_queue') = Cardinality(m_zombie_queue) + 1
      BY <2>1, FS_AddElement DEF PopSuicide, MapInv
    <3> QED
      BY <2>1, <3>1 DEF PopSuicide
  <2>2. ASSUME NEW f \in Flags, PopPause(t, f) PROVE CountInv'
    BY <2>2 DEF PopPause
  <2>3. ASSUME NEW u \in Tasks, PopTask(t, u) PROVE CountInv'
    BY <2>3 DEF PopTask
  <2>4. CASE FinishTask(t)
    BY <2>4 DEF FinishTask
  <2>5. CASE LockPause(t)
    BY <2>5 DEF LockPause
  <2>6. CASE TestPause(t)
    BY <2>6 DEF TestPause
  <2>7. CASE WaitPause(t)
    BY <2>7 DEF WaitPause
  <2>8. CASE SpuriousWakeup(t)
    BY <2>8 DEF SpuriousWakeup
  <2> QED
    BY <1>1, <2>1, <2>2, <2>3, <2>4, <2>5, <2>6, <2>7, <2>8 DEF Worker
<1>2. ASSUME NEW u \in Tasks, AddTask(u) PROVE CountInv'
  BY <1>2 DEF AddTask
<1> USE DEF Call, Step, Lock, SecondUnlock, SetFlag, NotifyAll, userUnchanged
<1>3. CASE CallRun
  BY <1>3 DEF CallRun
<1>4. CASE CallPause
  BY <1>4 DEF CallPause
<1>5. ASSUME NEW n \in Sizes, CallSetNumOfThreads(n) PROVE CountInv'
  BY <1>5 DEF CallSetNumOfThreads
<1>6. CASE RunSet
  BY <1>6 DEF RunSet
<1>7. CASE RunNotify
  BY <1>7 DEF RunNotify
<1>8. CASE RunReturn
  BY <1>8 DEF RunReturn
<1>9. ASSUME NEW back \in Backs, PauseSet(back) PROVE CountInv'
  BY <1>9 DEF PauseSet
<1>10. ASSUME NEW back \in Backs, PausePush(back) PROVE CountInv'
  <2>1. /\ ctl.at = "pausePush" /\ ctl'.at = "pausePush" /\ ctl'.back = ctl.back
        /\ UNCHANGED <<m_numOfThreads, m_targetNumOfThreads, suicides, m_zombie_queue,
                       m_thread_map>>
    BY <1>10 DEF PausePush
  <2> QED
    BY <2>1
<1>11. ASSUME NEW back \in Backs, PauseReturn(back) PROVE CountInv'
  BY <1>11 DEF PauseReturn, AfterPause
<1>12. ASSUME NEW back \in Backs, CreateThread(back) PROVE CountInv'
  <2>1. PICK t \in Threads : pc[t] = "none" /\ m_thread_map' = m_thread_map \cup {t}
    BY <1>12 DEF CreateThread
  <2>2. t \notin m_thread_map
    BY <2>1 DEF MapInv
  <2>3. Cardinality(m_thread_map') = Cardinality(m_thread_map) + 1
    BY <2>1, <2>2, FS_AddElement
  <2> QED
    BY <1>12, <2>3 DEF CreateThread
<1>13. CASE ResizeDone
  BY <1>13 DEF ResizeDone
<1>14. CASE PushSuicide
  BY <1>14 DEF PushSuicide
<1>15. CASE ChooseFlag
  BY <1>15 DEF ChooseFlag, ThreadToKill
<1>16. CASE JoinZombie
  <2>1. /\ Cardinality(m_thread_map') = Cardinality(m_thread_map) - 1
        /\ Cardinality(m_zombie_queue') = Cardinality(m_zombie_queue) - 1
    BY <1>16, FS_RemoveElement DEF JoinZombie
  <2> QED
    BY <1>16, <2>1 DEF JoinZombie
<1>17. ASSUME NEW f \in Flags, ShiftSet(f) PROVE CountInv'
  BY <1>17 DEF ShiftSet
<1>18. ASSUME NEW f \in Flags, ShiftPush(f) PROVE CountInv'
  BY <1>18 DEF ShiftPush
<1>19. ASSUME NEW f \in Flags, ShiftFlip(f) PROVE CountInv'
  BY <1>19 DEF ShiftFlip
<1>20. ASSUME NEW f \in Flags, ShiftNotify(f) PROVE CountInv'
  BY <1>20 DEF ShiftNotify
<1>21. ASSUME NEW f \in Flags, ShiftReturn(f) PROVE CountInv'
  BY <1>21 DEF ShiftReturn, ThreadToKill
<1>22. CASE UNCHANGED vars
  BY <1>22 DEF vars
<1> QED
  BY <1>1, <1>2, <1>3, <1>4, <1>5, <1>6, <1>7, <1>8, <1>9, <1>10, <1>11, <1>12, <1>13,
     <1>14, <1>15, <1>16, <1>17, <1>18, <1>19, <1>20, <1>21, <1>22
  DEF Next, Client, Rest, Backs

(***************************************************************************)
(* PoolInv is an invariant of the pool.                                    *)
(***************************************************************************)
LEMMA PoolInvariance == Spec => []PoolInv
<1>1. PoolInv /\ [Next]_vars => PoolInv'
  BY PoolTypes, PoolMap, PoolCount DEF PoolInv
<1> QED
  BY PoolInit, <1>1, PTL DEF Spec

(***************************************************************************)
(* For any number of threads, tasks and calls the pool keeps every         *)
(* variable in its type: in particular no count of tasks or threads that a *)
(* call has left becomes negative.                                         *)
(***************************************************************************)
THEOREM TypeCorrect == Spec => []TypeOK
<1>1. PoolInv => TypeOK
  BY DEF PoolInv
<1> QED
  BY <1>1, PoolInvariance, PTL

(***************************************************************************)
(* For any number of threads, tasks and calls, and whatever the client     *)
(* calls, m_numOfThreads is the number of threads between two calls, and   *)
(* SetNumOfThreads leaves neither a suicide task nor a zombie behind.      *)
(***************************************************************************)
THEOREM EveryThreadAccountedFor == Spec => []ThreadsAccountedFor
<1>1. PoolInv => ThreadsAccountedFor
  <2> SUFFICES ASSUME PoolInv, ctl = Idle
               PROVE  /\ m_thread_map = {t \in Threads : pc[t] # "none"}
                      /\ Cardinality(m_thread_map) = m_numOfThreads
                      /\ m_zombie_queue = {} /\ suicides = 0
                      /\ \A t \in m_thread_map : pc[t] = "exited" => running[t] \in Throwing
    BY DEF ThreadsAccountedFor
  <2>1. IsFiniteSet(m_zombie_queue) /\ Cardinality(m_zombie_queue) \in Nat
    BY Counts DEF PoolInv, TypeOK
  <2>2. Exist = m_numOfThreads /\ Doomed = 0
    BY DEF PoolInv, CountInv, Idle, At
  <2>3. suicides = 0 /\ Cardinality(m_zombie_queue) = 0
    BY <2>1, <2>2 DEF PoolInv, TypeOK, Doomed
  <2>4. m_zombie_queue = {}
    BY <2>1, <2>3, FS_EmptySet
  <2> QED
    BY <2>2, <2>3, <2>4 DEF PoolInv, TypeOK, MapInv, Exist
<1> QED
  BY <1>1, PoolInvariance, PTL

(***************************************************************************)
(* If no paused pool is resized, every step leaves the second flag alone:  *)
(* SetNumOfThreads finds both flags up and neither pauses nor shifts.      *)
(***************************************************************************)
LEMMA PauseOneFlag ==
  ASSUME "ResizePaused" \notin Calls, PoolInv, PauseInv, [Next]_vars
  PROVE  OneFlagInv'
<1> USE DEF PoolInv, TypeOK, CtlOK, PauseInv, OneFlagInv, QuietInv, Labels, Shifts, Backs,
            Flags, One, Two, At, Idle, queueVars, threadVars, sizeVars
<1>1. ASSUME NEW t \in Threads, Worker(t) \/ SpuriousWakeup(t) PROVE OneFlagInv'
  <2> USE DEF clientUnchanged, Move
  <2>1. CASE PopSuicide(t)
    BY <2>1 DEF PopSuicide
  <2>2. ASSUME NEW f \in Flags, PopPause(t, f) PROVE OneFlagInv'
    BY <2>2 DEF PopPause
  <2>3. ASSUME NEW u \in Tasks, PopTask(t, u) PROVE OneFlagInv'
    BY <2>3 DEF PopTask
  <2>4. CASE FinishTask(t)
    BY <2>4 DEF FinishTask
  <2>5. CASE LockPause(t)
    BY <2>5 DEF LockPause
  <2>6. CASE TestPause(t)
    BY <2>6 DEF TestPause
  <2>7. CASE WaitPause(t)
    BY <2>7 DEF WaitPause
  <2>8. CASE SpuriousWakeup(t)
    BY <2>8 DEF SpuriousWakeup
  <2> QED
    BY <1>1, <2>1, <2>2, <2>3, <2>4, <2>5, <2>6, <2>7, <2>8 DEF Worker
<1>2. ASSUME NEW u \in Tasks, AddTask(u) PROVE OneFlagInv'
  BY <1>2 DEF AddTask
<1> USE DEF Call, Step, Lock, SecondUnlock, SetFlag, NotifyAll, userUnchanged
<1>3. CASE CallRun
  BY <1>3 DEF CallRun
<1>4. CASE CallPause
  BY <1>4 DEF CallPause
<1>5. ASSUME NEW n \in Sizes, CallSetNumOfThreads(n) PROVE OneFlagInv'
  BY <1>5 DEF CallSetNumOfThreads
<1>6. CASE RunSet
  BY <1>6 DEF RunSet
<1>7. CASE RunNotify
  BY <1>7 DEF RunNotify
<1>8. CASE RunReturn
  BY <1>8 DEF RunReturn
<1>9. ASSUME NEW back \in Backs, PauseSet(back) PROVE OneFlagInv'
  BY <1>9 DEF PauseSet
<1>10. ASSUME NEW back \in Backs, PausePush(back) PROVE OneFlagInv'
  BY <1>10 DEF PausePush
<1>11. ASSUME NEW back \in Backs, PauseReturn(back) PROVE OneFlagInv'
  BY <1>11 DEF PauseReturn, AfterPause
<1>12. ASSUME NEW back \in Backs, CreateThread(back) PROVE OneFlagInv'
  BY <1>12 DEF CreateThread
<1>13. CASE ResizeDone
  BY <1>13 DEF ResizeDone
<1>14. CASE PushSuicide
  BY <1>14 DEF PushSuicide
<1>15. CASE ChooseFlag
  BY <1>15 DEF ChooseFlag
<1>16. CASE JoinZombie
  BY <1>16 DEF JoinZombie
<1>17. ASSUME NEW f \in Flags, ShiftSet(f) PROVE OneFlagInv'
  BY <1>17 DEF ShiftSet
<1>18. ASSUME NEW f \in Flags, ShiftPush(f) PROVE OneFlagInv'
  BY <1>18 DEF ShiftPush
<1>19. ASSUME NEW f \in Flags, ShiftFlip(f) PROVE OneFlagInv'
  BY <1>19 DEF ShiftFlip
<1>20. ASSUME NEW f \in Flags, ShiftNotify(f) PROVE OneFlagInv'
  BY <1>20 DEF ShiftNotify
<1>21. ASSUME NEW f \in Flags, ShiftReturn(f) PROVE OneFlagInv'
  BY <1>21 DEF ShiftReturn
<1>22. CASE UNCHANGED vars
  BY <1>22 DEF vars
<1> QED
  BY <1>1, <1>2, <1>3, <1>4, <1>5, <1>6, <1>7, <1>8, <1>9, <1>10, <1>11, <1>12, <1>13,
     <1>14, <1>15, <1>16, <1>17, <1>18, <1>19, <1>20, <1>21, <1>22
  DEF Next, Client, Rest, Backs

(***************************************************************************)
(* If no paused pool is resized, every step keeps a pause task for every   *)
(* thread that is active while the pool is paused: a thread stops being    *)
(* active with the pause task it takes, and none comes out while the flag  *)
(* is down.                                                                *)
(***************************************************************************)
LEMMA PauseEnough ==
  ASSUME "ResizePaused" \notin Calls, PoolInv, PauseInv, [Next]_vars
  PROVE  EnoughPauses'
<1> USE PoolAssumption
        DEF PoolInv, TypeOK, CtlOK, PauseInv, OneFlagInv, QuietInv, EnoughPauses, Labels,
            Shifts, Backs, Flags, One, Two, At, Idle, queueVars, threadVars, sizeVars
<1>0. IsFiniteSet(Active) /\ Cardinality(Active) \in Nat
  BY Counts DEF Active
<1> USE <1>0
<1>1. ASSUME NEW t \in Threads, Worker(t) \/ SpuriousWakeup(t) PROVE EnoughPauses'
  <2> USE DEF clientUnchanged, Move
  <2>1. CASE PopSuicide(t)
    <3>1. Active' = Active \ {t} /\ t \in Active
      BY <2>1 DEF PopSuicide, Active
    <3>2. Cardinality(Active') = Cardinality(Active) - 1
      BY <3>1, FS_RemoveElement
    <3> QED
      BY <2>1, <3>2 DEF PopSuicide
  <2>2. ASSUME NEW f \in Flags, PopPause(t, f) PROVE EnoughPauses'
    <3>1. Active' = Active \ {t} /\ t \in Active
      BY <2>2 DEF PopPause, Active
    <3>2. Cardinality(Active') = Cardinality(Active) - 1
      BY <3>1, FS_RemoveElement
    <3>3. f = One /\ pauses'[One] = pauses[One] - 1
      BY <2>2 DEF PopPause
    <3>4. pauses[One] \in Nat /\ UNCHANGED <<ctl, paused, m_targetNumOfThreads>>
      BY <2>2 DEF PopPause
    <3>5. pauses'[One] = pauses[One] - 1 /\ ctl.left \in Nat /\ m_targetNumOfThreads \in Nat
      BY <3>3
    <3>6. ctl.at = "pausePush" =>
            ctl.back = "idle" /\ Cardinality(Active') <= pauses'[One] + ctl.left
      <4>1. Cardinality(m_thread_map) # 0
        BY <2>2, Counts, FS_EmptySet DEF PopPause, MapInv
      <4>2. ctl.at = "pausePush" => ctl.back = "idle"
        BY <4>1 DEF CountInv, Exist
      <4> QED
        BY <3>2, <3>4, <3>5, <4>2
    <3>7. (ctl.at = "create" /\ ctl.back = "construct") =>
            paused /\ Cardinality(Active') + ctl.left <= pauses'[One]
      BY <3>2, <3>4, <3>5
    <3>8. paused => Cardinality(Active') <= pauses'[One]
      BY <3>2, <3>4, <3>5
    <3> QED
      BY <3>4, <3>6, <3>7, <3>8
  <2>3. ASSUME NEW u \in Tasks, PopTask(t, u) PROVE EnoughPauses'
    <3>1. Active' = Active
      BY <2>3 DEF PopTask, Active
    <3> QED
      BY <2>3, <3>1 DEF PopTask
  <2>4. CASE FinishTask(t)
    <3>1. Active' \subseteq Active
      BY <2>4 DEF FinishTask, Active
    <3>2. Cardinality(Active') \in Nat /\ Cardinality(Active') <= Cardinality(Active)
      BY <3>1, FS_Subset, FS_CardinalityType
    <3> QED
      BY <2>4, <3>2 DEF FinishTask
  <2>5. CASE LockPause(t)
    <3>1. Active' = Active
      BY <2>5 DEF LockPause, Active
    <3> QED
      BY <2>5, <3>1 DEF LockPause
  <2>6. CASE TestPause(t)
    <3>1. CASE m_isRunning[One]
      BY <2>6, <3>1 DEF TestPause
    <3>2. CASE ~m_isRunning[One]
      <4>1. Active' = Active
        BY <2>6, <3>2 DEF TestPause, Active
      <4> QED
        BY <2>6, <4>1 DEF TestPause
    <3> QED
      BY <3>1, <3>2
  <2>7. CASE WaitPause(t)
    <3>1. Active' = Active
      BY <2>7 DEF WaitPause, Active
    <3> QED
      BY <2>7, <3>1 DEF WaitPause
  <2>8. CASE SpuriousWakeup(t)
    <3>1. Active' = Active
      BY <2>8 DEF SpuriousWakeup, Active
    <3> QED
      BY <2>8, <3>1 DEF SpuriousWakeup
  <2> QED
    BY <1>1, <2>1, <2>2, <2>3, <2>4, <2>5, <2>6, <2>7, <2>8 DEF Worker
<1>2. ASSUME NEW u \in Tasks, AddTask(u) PROVE EnoughPauses'
  <2>1. Active' = Active
    BY <1>2 DEF AddTask, Active
  <2> QED
    BY <1>2, <2>1 DEF AddTask
<1> USE DEF Call, Step, Lock, SecondUnlock, SetFlag, NotifyAll, userUnchanged
<1>3. CASE CallRun
  <2>1. Active' = Active
    BY <1>3 DEF CallRun, Active
  <2> QED
    BY <1>3, <2>1 DEF CallRun
<1>4. CASE CallPause
  <2>1. Active' = Active
    BY <1>4 DEF CallPause, Active
  <2> QED
    BY <1>4, <2>1 DEF CallPause
<1>5. ASSUME NEW n \in Sizes, CallSetNumOfThreads(n) PROVE EnoughPauses'
  <2>1. Active' = Active
    BY <1>5 DEF CallSetNumOfThreads, Active
  <2> QED
    BY <1>5, <2>1 DEF CallSetNumOfThreads
<1>6. CASE RunSet
  <2>1. Active' = Active
    BY <1>6 DEF RunSet, Active
  <2> QED
    BY <1>6, <2>1 DEF RunSet
<1>7. CASE RunNotify
  <2>1. Active' = Active
    BY <1>7 DEF RunNotify, Active
  <2> QED
    BY <1>7, <2>1 DEF RunNotify
<1>8. CASE RunReturn
  <2>1. Active' = Active
    BY <1>8 DEF RunReturn, Active
  <2> QED
    BY <1>8, <2>1 DEF RunReturn
<1>9. ASSUME NEW back \in Backs, PauseSet(back) PROVE EnoughPauses'
  <2>1. Active' = Active
    BY <1>9 DEF PauseSet, Active
  <2>2. Cardinality(Active) <= Cardinality(m_thread_map)
    BY PoolAssumption, Counts, FS_Subset DEF MapInv, Active
  <2> QED
    BY <1>9, <2>1, <2>2 DEF PauseSet, PauseTasksToPush, CountInv, Exist
<1>10. ASSUME NEW back \in Backs, PausePush(back) PROVE EnoughPauses'
  <2>1. Active' = Active
    BY <1>10 DEF PausePush, Active
  <2> QED
    BY <1>10, <2>1 DEF PausePush
<1>11. ASSUME NEW back \in Backs, PauseReturn(back) PROVE EnoughPauses'
  <2>1. Active' = Active
    BY <1>11 DEF PauseReturn, Active
  <2>2. back = "construct" => Cardinality(Active) = 0
    <3>1. back = "construct" => Cardinality(m_thread_map) = 0
      BY <1>11 DEF PauseReturn, CountInv, Exist
    <3>2. Cardinality(Active) <= Cardinality(m_thread_map)
      BY PoolAssumption, Counts, FS_Subset DEF MapInv, Active
    <3> QED
      BY <3>1, <3>2
  <2>3. /\ UNCHANGED <<pauses, m_targetNumOfThreads>>
        /\ ctl.at = "pausePush" /\ ctl.left = 0 /\ ctl.back = back
    BY <1>11 DEF PauseReturn
  <2>4. CASE back = "idle"
    BY <1>11, <2>1, <2>3, <2>4 DEF PauseReturn, AfterPause
  <2>5. CASE back = "construct"
    <3>1. ctl'.at = "create" /\ ctl'.left = m_targetNumOfThreads /\ paused'
      BY <1>11, <2>5 DEF PauseReturn, AfterPause
    <3> QED
      BY <2>1, <2>2, <2>3, <2>5, <3>1
  <2> QED
    BY <2>3, <2>4, <2>5
<1>12. ASSUME NEW back \in Backs, CreateThread(back) PROVE EnoughPauses'
  <2>1. PICK t \in Threads : pc[t] = "none" /\ pc' = [pc EXCEPT ![t] = "pop"]
    BY <1>12 DEF CreateThread
  <2>2. Active' = Active \cup {t} /\ t \notin Active
    BY <2>1 DEF Active
  <2>3. Cardinality(Active') = Cardinality(Active) + 1
    BY <2>2, FS_AddElement
  <2> QED
    BY <1>12, <2>3 DEF CreateThread
<1>13. CASE ResizeDone
  <2>1. Active' = Active
    BY <1>13 DEF ResizeDone, Active
  <2> QED
    BY <1>13, <2>1 DEF ResizeDone
<1>14. CASE PushSuicide
  <2>1. Active' = Active
    BY <1>14 DEF PushSuicide, Active
  <2> QED
    BY <1>14, <2>1 DEF PushSuicide
<1>15. CASE ChooseFlag
  <2>1. Active' = Active
    BY <1>15 DEF ChooseFlag, Active
  <2> QED
    BY <1>15, <2>1 DEF ChooseFlag
<1>16. CASE JoinZombie
  <2>1. Active' = Active
    BY <1>16 DEF JoinZombie, Active
  <2> QED
    BY <1>16, <2>1 DEF JoinZombie
<1>17. ASSUME NEW f \in Flags, ShiftSet(f) PROVE EnoughPauses'
  <2>1. Active' = Active
    BY <1>17 DEF ShiftSet, Active
  <2> QED
    BY <1>17, <2>1 DEF ShiftSet
<1>18. ASSUME NEW f \in Flags, ShiftPush(f) PROVE EnoughPauses'
  <2>1. Active' = Active
    BY <1>18 DEF ShiftPush, Active
  <2> QED
    BY <1>18, <2>1 DEF ShiftPush
<1>19. ASSUME NEW f \in Flags, ShiftFlip(f) PROVE EnoughPauses'
  <2>1. Active' = Active
    BY <1>19 DEF ShiftFlip, Active
  <2> QED
    BY <1>19, <2>1 DEF ShiftFlip
<1>20. ASSUME NEW f \in Flags, ShiftNotify(f) PROVE EnoughPauses'
  <2>1. Active' = Active
    BY <1>20 DEF ShiftNotify, Active
  <2> QED
    BY <1>20, <2>1 DEF ShiftNotify
<1>21. ASSUME NEW f \in Flags, ShiftReturn(f) PROVE EnoughPauses'
  <2>1. Active' = Active
    BY <1>21 DEF ShiftReturn, Active
  <2> QED
    BY <1>21, <2>1 DEF ShiftReturn
<1>22. CASE UNCHANGED vars
  BY <1>22 DEF vars, Active
<1> QED
  BY <1>1, <1>2, <1>3, <1>4, <1>5, <1>6, <1>7, <1>8, <1>9, <1>10, <1>11, <1>12, <1>13,
     <1>14, <1>15, <1>16, <1>17, <1>18, <1>19, <1>20, <1>21, <1>22
  DEF Next, Client, Rest, Backs

(***************************************************************************)
(* If no paused pool is resized, every step keeps the tasks added while    *)
(* the pool is paused in the queue: a worker that is about to take a task  *)
(* finds a pause task before it.                                           *)
(***************************************************************************)
LEMMA PauseQuiet ==
  ASSUME "ResizePaused" \notin Calls, PoolInv, PauseInv, [Next]_vars
  PROVE  QuietInv'
<1> USE DEF PoolInv, TypeOK, CtlOK, PauseInv, OneFlagInv, QuietInv, PausedStartsNothing, Labels,
            Shifts, Backs, Flags, One, Two, At, Idle, queueVars, threadVars, sizeVars
<1>1. ASSUME NEW t \in Threads, Worker(t) \/ SpuriousWakeup(t) PROVE QuietInv'
  <2> USE DEF clientUnchanged, Move
  <2>1. CASE PopSuicide(t)
    BY <2>1 DEF PopSuicide
  <2>2. ASSUME NEW f \in Flags, PopPause(t, f) PROVE QuietInv'
    BY <2>2 DEF PopPause
  <2>3. ASSUME NEW u \in Tasks, PopTask(t, u) PROVE QuietInv'
    <3>1. ~paused
      <4> SUFFICES ASSUME paused PROVE FALSE
        OBVIOUS
      <4>1. Cardinality(Active) <= pauses[One] /\ pauses[One] = 0
        BY <2>3 DEF PopTask, EnoughPauses
      <4>2. IsFiniteSet(Active) /\ Cardinality(Active) \in Nat
        BY Counts DEF Active
      <4>3. Active = {}
        BY <4>1, <4>2, FS_EmptySet
      <4>4. t \in Active
        BY <2>3 DEF PopTask, Active
      <4> QED
        BY <4>3, <4>4
    <3> QED
      BY <2>3, <3>1 DEF PopTask
  <2>4. CASE FinishTask(t)
    BY <2>4 DEF FinishTask
  <2>5. CASE LockPause(t)
    BY <2>5 DEF LockPause
  <2>6. CASE TestPause(t)
    BY <2>6 DEF TestPause
  <2>7. CASE WaitPause(t)
    BY <2>7 DEF WaitPause
  <2>8. CASE SpuriousWakeup(t)
    BY <2>8 DEF SpuriousWakeup
  <2> QED
    BY <1>1, <2>1, <2>2, <2>3, <2>4, <2>5, <2>6, <2>7, <2>8 DEF Worker
<1>2. ASSUME NEW u \in Tasks, AddTask(u) PROVE QuietInv'
  BY <1>2 DEF AddTask
<1> USE DEF Call, Step, Lock, SecondUnlock, SetFlag, NotifyAll, userUnchanged
<1>3. CASE CallRun
  BY <1>3 DEF CallRun
<1>4. CASE CallPause
  BY <1>4 DEF CallPause
<1>5. ASSUME NEW n \in Sizes, CallSetNumOfThreads(n) PROVE QuietInv'
  BY <1>5 DEF CallSetNumOfThreads
<1>6. CASE RunSet
  BY <1>6 DEF RunSet
<1>7. CASE RunNotify
  BY <1>7 DEF RunNotify
<1>8. CASE RunReturn
  BY <1>8 DEF RunReturn
<1>9. ASSUME NEW back \in Backs, PauseSet(back) PROVE QuietInv'
  BY <1>9 DEF PauseSet
<1>10. ASSUME NEW back \in Backs, PausePush(back) PROVE QuietInv'
  BY <1>10 DEF PausePush
<1>11. ASSUME NEW back \in Backs, PauseReturn(back) PROVE QuietInv'
  BY <1>11 DEF PauseReturn, AfterPause
<1>12. ASSUME NEW back \in Backs, CreateThread(back) PROVE QuietInv'
  BY <1>12 DEF CreateThread
<1>13. CASE ResizeDone
  BY <1>13 DEF ResizeDone
<1>14. CASE PushSuicide
  BY <1>14 DEF PushSuicide
<1>15. CASE ChooseFlag
  BY <1>15 DEF ChooseFlag
<1>16. CASE JoinZombie
  BY <1>16 DEF JoinZombie
<1>17. ASSUME NEW f \in Flags, ShiftSet(f) PROVE QuietInv'
  BY <1>17 DEF ShiftSet
<1>18. ASSUME NEW f \in Flags, ShiftPush(f) PROVE QuietInv'
  BY <1>18 DEF ShiftPush
<1>19. ASSUME NEW f \in Flags, ShiftFlip(f) PROVE QuietInv'
  BY <1>19 DEF ShiftFlip
<1>20. ASSUME NEW f \in Flags, ShiftNotify(f) PROVE QuietInv'
  BY <1>20 DEF ShiftNotify
<1>21. ASSUME NEW f \in Flags, ShiftReturn(f) PROVE QuietInv'
  BY <1>21 DEF ShiftReturn
<1>22. CASE UNCHANGED vars
  BY <1>22 DEF vars
<1> QED
  BY <1>1, <1>2, <1>3, <1>4, <1>5, <1>6, <1>7, <1>8, <1>9, <1>10, <1>11, <1>12, <1>13,
     <1>14, <1>15, <1>16, <1>17, <1>18, <1>19, <1>20, <1>21, <1>22
  DEF Next, Client, Rest, Backs

(***************************************************************************)
(* As long as no paused pool is resized, and for any number of threads,    *)
(* tasks and calls, a task that is added after Pause has returned does not *)
(* start before the next call of Run.  (Resizing a paused pool breaks it.) *)
(***************************************************************************)
THEOREM PauseHoldsBackTasks ==
  ASSUME "ResizePaused" \notin Calls
  PROVE  Spec => []PausedStartsNothing
<1>1. Init => PauseInv
  <2> SUFFICES ASSUME Init PROVE PauseInv
    OBVIOUS
  <2>1. Active = {}
    BY DEF Init, Active
  <2> QED
    BY <2>1, FS_EmptySet
    DEF Init, PauseInv, OneFlagInv, EnoughPauses, QuietInv, PausedStartsNothing, Flags, One,
        Two, At, Shifts
<1>2. PoolInv /\ PauseInv /\ [Next]_vars => PauseInv'
  BY PauseOneFlag, PauseEnough, PauseQuiet DEF PauseInv
<1>3. PauseInv => PausedStartsNothing
  BY DEF PauseInv, QuietInv
<1> QED
  BY PoolInvariance, <1>1, <1>2, <1>3, PTL DEF Spec

=============================================================================
