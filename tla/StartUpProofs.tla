----------------------------- MODULE StartUpProofs -----------------------------
(***************************************************************************)
(* Theorems on StartUp, for any number of IoT devices, any failing system  *)
(* call and any order in which the processes run, die or are disconnected. *)
(***************************************************************************)
EXTENDS StartUp, SequenceTheorems, TLAPS

AllFds == {"sp0", "sp1", "nbd"}

(***************************************************************************)
(* What each process has open and returned, at every point of NbdOpen.     *)
(***************************************************************************)
ParentInv ==
  LET at == pc["parent"] IN
  /\ at \notin {"none", "closeOwn", "setSock", "doIt"}
  /\ at \in Dead \cup {"socketpair", "error"} => fds["parent"] = {}
  /\ at = "open" => fds["parent"] = {"sp0", "sp1"}
  /\ at \in {"setSize", "fork", "return"} => fds["parent"] = AllFds
  /\ at \in {"connect", "select", "spinning"} => fds["parent"] = {"sp1"}

ChildInv ==
  LET at == pc["child"] IN
  /\ at \notin {"socketpair", "open", "setSize", "fork", "spinning"}
  /\ at = "closeOwn" => fds["child"] = AllFds
  /\ at \in {"setSock", "doIt", "return"} => fds["child"] = {"sp0", "nbd"}
  /\ at \in Dead \cup {"none", "error", "connect", "select"} => fds["child"] = {}

ReturnInv ==
  \A p \in Procs :
    /\ pc[p] = "error" => m_nbdSocket[p] = "error"
    /\ pc[p] \in {"connect", "select", "spinning"} => m_nbdSocket[p] = Returned(p)

FdInv == TypeOK /\ ParentInv /\ ChildInv /\ ReturnInv

(***************************************************************************)
(* Why a device gets the daemon: while the daemon lives and the driver was *)
(* not disconnected too early, a child that connects finds every device    *)
(* the daemon's already, or with the daemon first in its backlog.          *)
(***************************************************************************)
AcceptInv ==
  \A i \in Iots : dataSock[i] = Nobody <=> iot[i] \in {"start", "listening"}

Undisturbed == Alive("parent") /\ ~early

ChildComesLast ==
  Undisturbed /\ pc["child"] \in {"return", "connect", "select"}
    => next["parent"] > NumOfIots

ParentFirst ==
  Undisturbed =>
    \A i \in Iots :
      /\ next["parent"] <= i => backlog[i] = <<>> /\ dataSock[i] = Nobody
      /\ next["parent"] > i => \/ dataSock[i] = "parent"
                               \/ /\ dataSock[i] = Nobody /\ backlog[i] # <<>>
                                  /\ Head(backlog[i]) = "parent"

-----------------------------------------------------------------------------
(***************************************************************************)
(* Every step keeps what NbdOpen has open and returned.                    *)
(***************************************************************************)
LEMMA FdInvInit == Init => FdInv
<1> SUFFICES ASSUME Init PROVE FdInv
  OBVIOUS
<1>1. <<>> \in Seq(Procs) /\ next \in [Procs -> 1 .. (NumOfIots + 1)]
  BY NumOfIotsAssumption DEF Init
<1>2. TypeOK
  BY <1>1 DEF Init, TypeOK, Pcs, Dead
<1>3. ParentInv /\ ChildInv /\ ReturnInv
  BY DEF Init, ParentInv, ChildInv, ReturnInv, Procs, Dead
<1> QED BY <1>2, <1>3 DEF FdInv

LEMMA DieKeepsFdInv ==
  ASSUME FdInv, NEW p \in Procs, NEW how \in Dead, Alive(p), Die(p, how)
  PROVE  FdInv'
  BY DEF Die, Alive, FdInv, TypeOK, ParentInv, ChildInv, ReturnInv, Procs, Pcs,
     Dead, Returned

LEMMA ReturnErrorKeepsFdInv ==
  ASSUME FdInv, NEW p \in Procs, NEW from, ReturnError(p, from)
  PROVE  FdInv'
  BY DEF ReturnError, Goto, NbdVars, FdInv, TypeOK, ParentInv, ChildInv,
     ReturnInv, Procs, Pcs, Dead, Returned

LEMMA FdInvStep == FdInv /\ [Next]_vars => FdInv'
<1> SUFFICES ASSUME FdInv, [Next]_vars PROVE FdInv'
  OBVIOUS
<1> USE DEF FdInv, TypeOK, Procs, Pcs, Dead
<1>1. ASSUME NEW p \in Procs, Throw(p) PROVE FdInv'
  BY <1>1, DieKeepsFdInv DEF Throw, Alive
<1>2. ASSUME NEW p \in Procs, Kill(p) PROVE FdInv'
  BY <1>2, DieKeepsFdInv DEF Kill
<1>3. ASSUME NEW p \in Procs, Return(p) PROVE FdInv'
  BY <1>3 DEF Return, Goto, NbdVars, ClosedAtReturn, Returned, ParentInv,
     ChildInv, ReturnInv, AllFds
<1>4. ASSUME NEW p \in Procs, Connect(p) PROVE FdInv'
  <2>1. CASE Die(p, "exited")
    BY <1>4, <2>1, DieKeepsFdInv DEF Connect, Alive
  <2>2. CASE ~Die(p, "exited")
    <3> DEFINE j == next[p]
    <3>1. /\ j \in Iots /\ j + 1 \in 1 .. (NumOfIots + 1)
          /\ backlog' = [backlog EXCEPT ![j] = Append(@, p)]
          /\ next' = [next EXCEPT ![p] = j + 1]
          /\ UNCHANGED <<pc, fds, m_nbdSocket, sock, iot, dataSock, early>>
      BY <1>4, <2>2, NumOfIotsAssumption DEF Connect, Iots
    <3>2. Append(backlog[j], p) \in Seq(Procs)
      BY <3>1
    <3>3. ParentInv' /\ ChildInv' /\ ReturnInv'
      BY <3>1 DEF ParentInv, ChildInv, ReturnInv
    <3>4. backlog' \in [Iots -> Seq(Procs)]
      BY <3>1, <3>2
    <3> QED BY <3>1, <3>3, <3>4
  <2> QED BY <2>1, <2>2
<1>5. ASSUME NEW p \in Procs, FrameworkRun(p) PROVE FdInv'
  <2>1. CASE Die(p, "thrown")
    BY <1>5, <2>1, DieKeepsFdInv DEF FrameworkRun, Goto, Alive
  <2>2. CASE ~Die(p, "thrown")
    BY <1>5, <2>2 DEF FrameworkRun, Goto, NbdVars, ParentInv, ChildInv,
       ReturnInv, Returned
  <2> QED BY <2>1, <2>2
<1>6. ASSUME NEW p \in Procs, NbdGetRequest(p) PROVE FdInv'
  <2>1. CASE Die(p, "aborted")
    BY <1>6, <2>1, DieKeepsFdInv DEF NbdGetRequest, Alive
  <2>2. CASE ~Die(p, "aborted")
    BY <1>6, <2>2 DEF NbdGetRequest, Goto, NbdVars, ParentInv, ChildInv,
       ReturnInv, Returned
  <2> QED BY <2>1, <2>2
<1>7. CASE Socketpair
  <2>1. CASE ReturnError("parent", "socketpair")
    BY <2>1, ReturnErrorKeepsFdInv
  <2>2. CASE ~ReturnError("parent", "socketpair")
    BY <1>7, <2>2 DEF Socketpair, Goto, NbdVars, ParentInv, ChildInv,
       ReturnInv, Returned
  <2> QED BY <2>1, <2>2
<1>8. CASE Open
  <2>1. CASE ReturnError("parent", "open")
    BY <2>1, ReturnErrorKeepsFdInv
  <2>2. CASE ~ReturnError("parent", "open")
    BY <1>8, <2>2 DEF Open, Goto, NbdVars, AllFds, ParentInv, ChildInv,
       ReturnInv, Returned
  <2> QED BY <2>1, <2>2
<1>9. CASE SetSize
  <2>1. CASE ReturnError("parent", "setSize")
    BY <2>1, ReturnErrorKeepsFdInv
  <2>2. CASE ~ReturnError("parent", "setSize")
    BY <1>9, <2>2 DEF SetSize, Goto, NbdVars, ParentInv, ChildInv,
       ReturnInv, Returned
  <2> QED BY <2>1, <2>2
<1>10. CASE Fork
  <2>1. CASE ReturnError("parent", "fork")
    BY <2>1, ReturnErrorKeepsFdInv
  <2>2. CASE ~ReturnError("parent", "fork")
    BY <1>10, <2>2 DEF Fork, NbdVars, ParentInv, ChildInv,
       ReturnInv, Returned
  <2> QED BY <2>1, <2>2
<1>11. CASE ChildCloses
  BY <1>11 DEF ChildCloses, ChildEnds, Goto, NbdVars, ParentInv, ChildInv,
     ReturnInv, Returned, AllFds
<1>12. CASE SetSock
  <2>1. CASE ReturnError("child", "setSock")
    BY <2>1, ReturnErrorKeepsFdInv
  <2>2. CASE ~ReturnError("child", "setSock")
    <3>1. /\ pc["child"] = "setSock" /\ pc' = [pc EXCEPT !["child"] = "doIt"]
          /\ sock' = TRUE
          /\ UNCHANGED <<fds, m_nbdSocket, next, iot, backlog, dataSock, early>>
      BY <1>12, <2>2 DEF SetSock, AfterSetSock, Goto
    <3>2. TypeOK'
      BY <3>1
    <3>3. ParentInv' /\ ChildInv' /\ ReturnInv'
      BY <3>1 DEF ParentInv, ChildInv, ReturnInv
    <3> QED BY <3>2, <3>3
  <2> QED BY <2>1, <2>2
<1>13. CASE DoItEnds
  <2>1. early' \in BOOLEAN /\ sock' \in BOOLEAN
    BY <1>13, Zenon DEF DoItEnds
  <2>2. UNCHANGED <<next, iot, backlog, dataSock>>
    BY <1>13 DEF DoItEnds
  <2>3. /\ pc' \in [Procs -> Pcs] /\ m_nbdSocket' \in [Procs -> {"sp1", "zero", "error", Nobody}]
        /\ fds' \in [Procs -> SUBSET {"sp0", "sp1", "nbd"}]
    BY <1>13 DEF DoItEnds, Goto
  <2>4. ParentInv' /\ ChildInv' /\ ReturnInv'
    BY <1>13 DEF DoItEnds, Goto, ParentInv, ChildInv, ReturnInv, Returned
  <2> QED BY <2>1, <2>2, <2>3, <2>4
<1>14. ASSUME NEW i \in Iots, Iot(i) PROVE FdInv'
  <2>1. ParentInv' /\ ChildInv' /\ ReturnInv'
    BY <1>14 DEF Iot, IotListen, IotAccept, IotClose, IotUnchanged, ParentInv,
       ChildInv, ReturnInv
  <2>2. CASE IotListen(i) \/ IotClose(i)
    BY <2>1, <2>2 DEF IotListen, IotClose, IotUnchanged
  <2>3. CASE IotAccept(i)
    <3>1. /\ backlog[i] \in Seq(Procs) /\ backlog[i] # <<>>
          /\ Head(backlog[i]) \in Procs /\ Tail(backlog[i]) \in Seq(Procs)
      BY <2>3, HeadTailProperties DEF IotAccept
    <3> QED BY <2>1, <2>3, <3>1 DEF IotAccept, IotUnchanged
  <2> QED BY <1>14, <2>2, <2>3 DEF Iot
<1>15. CASE UNCHANGED vars
  BY <1>15 DEF vars, ParentInv, ChildInv, ReturnInv
<1> QED
  BY <1>1, <1>2, <1>3, <1>4, <1>5, <1>6, <1>7, <1>8, <1>9, <1>10, <1>11, <1>12,
     <1>13, <1>14, <1>15 DEF Next, Process, Disconnect, PeerGone

(***************************************************************************)
(* The daemon comes first at its devices.                                  *)
(***************************************************************************)
DaemonInv == AcceptInv /\ ChildComesLast /\ ParentFirst

LEMMA DieKeepsDaemonInv ==
  ASSUME FdInv, DaemonInv, NEW p \in Procs, NEW how \in Dead, Die(p, how)
  PROVE  DaemonInv'
  BY DEF Die, Alive, FdInv, TypeOK, ParentInv, DaemonInv, AcceptInv,
     ChildComesLast, ParentFirst, Undisturbed, Procs, Dead

LEMMA ReturnErrorKeepsDaemonInv ==
  ASSUME FdInv, DaemonInv, NEW p \in Procs, NEW from, ReturnError(p, from),
         from \in Pcs \ (Dead \cup {"none"})
  PROVE  DaemonInv'
  BY DEF ReturnError, Goto, NbdVars, Alive, FdInv, TypeOK, ParentInv, DaemonInv,
     AcceptInv, ChildComesLast, ParentFirst, Undisturbed, Procs, Dead, Pcs

LEMMA DaemonInvStep == FdInv /\ DaemonInv /\ [Next]_vars => DaemonInv'
<1> SUFFICES ASSUME FdInv, DaemonInv, [Next]_vars PROVE DaemonInv'
  OBVIOUS
<1> USE DEF Procs, Dead, Alive, Undisturbed
<1>1. ASSUME NEW p \in Procs, Throw(p) \/ Kill(p) PROVE DaemonInv'
  BY <1>1, DieKeepsDaemonInv DEF Throw, Kill
<1>2. ASSUME NEW p \in Procs, Return(p) PROVE DaemonInv'
  BY <1>2 DEF Return, Goto, NbdVars, FdInv, TypeOK, DaemonInv, AcceptInv,
     ChildComesLast, ParentFirst
<1>3. ASSUME NEW p \in Procs, Connect(p) PROVE DaemonInv'
  <2>1. CASE Die(p, "exited")
    BY <2>1, DieKeepsDaemonInv
  <2>2. CASE ~Die(p, "exited")
    <3> DEFINE j == next[p]
    <3>1. /\ j \in Iots /\ Listens(j) /\ next \in [Procs -> Nat]
          /\ backlog \in [Iots -> Seq(Procs)]
          /\ backlog' = [backlog EXCEPT ![j] = Append(@, p)]
          /\ next' = [next EXCEPT ![p] = @ + 1]
          /\ UNCHANGED <<pc, fds, m_nbdSocket, sock, iot, dataSock, early>>
          /\ pc[p] = "connect"
      BY <1>3, <2>2, NumOfIotsAssumption DEF Connect, FdInv, TypeOK, Iots
    <3>2. /\ Append(backlog[j], p) # <<>>
          /\ backlog[j] # <<>> => Head(Append(backlog[j], p)) = Head(backlog[j])
          /\ backlog[j] = <<>> => Head(Append(backlog[j], p)) = p
      <4>1. backlog[j] \in Seq(Procs)
        BY <3>1
      <4>2. /\ Append(backlog[j], p) \in Seq(Procs) /\ Append(backlog[j], p) # <<>>
            /\ Len(Append(backlog[j], p)) = Len(backlog[j]) + 1
            /\ \A n \in 1 .. Len(backlog[j]) : Append(backlog[j], p)[n] = backlog[j][n]
            /\ Append(backlog[j], p)[Len(backlog[j]) + 1] = p
        BY <4>1, AppendProperties
      <4>3. /\ backlog[j] = <<>> => Len(backlog[j]) = 0
            /\ backlog[j] # <<>> => 1 \in 1 .. Len(backlog[j])
        BY <4>1, EmptySeq, HeadTailProperties
      <4> QED BY <4>1, <4>2, <4>3
    <3>3. AcceptInv' /\ ChildComesLast'
      BY <3>1, NumOfIotsAssumption DEF DaemonInv, AcceptInv, ChildComesLast
    <3>4. ASSUME Undisturbed', NEW i \in Iots
          PROVE  /\ next'["parent"] <= i => backlog'[i] = <<>> /\ dataSock'[i] = Nobody
                 /\ next'["parent"] > i =>
                      \/ dataSock'[i] = "parent"
                      \/ /\ dataSock'[i] = Nobody /\ backlog'[i] # <<>>
                         /\ Head(backlog'[i]) = "parent"
      <4>1. Undisturbed
        BY <3>1, <3>4
      <4>2. i \in Int /\ j \in Int /\ i <= NumOfIots
        BY <3>1, NumOfIotsAssumption DEF Iots
      <4>3. CASE p = "parent"
        BY <3>1, <3>2, <4>1, <4>2, <4>3 DEF DaemonInv, ParentFirst
      <4>4. CASE p = "child"
        <5>1. next["parent"] > NumOfIots
          BY <3>1, <4>1, <4>4 DEF DaemonInv, ChildComesLast
        <5> QED BY <3>1, <3>2, <4>1, <4>2, <4>4, <5>1, NumOfIotsAssumption
                DEF DaemonInv, ParentFirst
      <4> QED BY <4>3, <4>4
    <3> QED BY <3>3, <3>4 DEF DaemonInv, ParentFirst
  <2> QED BY <2>1, <2>2
<1>4. ASSUME NEW p \in Procs, FrameworkRun(p) PROVE DaemonInv'
  <2>1. CASE Die(p, "thrown")
    BY <2>1, DieKeepsDaemonInv
  <2>2. CASE ~Die(p, "thrown")
    BY <1>4, <2>2 DEF FrameworkRun, Goto, NbdVars, FdInv, TypeOK, DaemonInv,
       AcceptInv, ChildComesLast, ParentFirst
  <2> QED BY <2>1, <2>2
<1>5. ASSUME NEW p \in Procs, NbdGetRequest(p) PROVE DaemonInv'
  <2>1. CASE Die(p, "aborted")
    BY <2>1, DieKeepsDaemonInv
  <2>2. CASE ~Die(p, "aborted")
    BY <1>5, <2>2 DEF NbdGetRequest, Goto, NbdVars, FdInv, TypeOK, DaemonInv,
       AcceptInv, ChildComesLast, ParentFirst
  <2> QED BY <2>1, <2>2
<1>6. CASE Socketpair \/ Open \/ SetSize \/ Fork
  <2>1. \A from \in {"socketpair", "open", "setSize", "fork"} :
          ReturnError("parent", from) => DaemonInv'
    BY ReturnErrorKeepsDaemonInv DEF Pcs
  <2> QED
    BY <1>6, <2>1 DEF Socketpair, Open, SetSize, Fork, Goto, NbdVars, FdInv,
       TypeOK, DaemonInv, AcceptInv, ChildComesLast, ParentFirst
<1>7. CASE ChildCloses \/ SetSock
  <2>1. ReturnError("child", "setSock") => DaemonInv'
    BY ReturnErrorKeepsDaemonInv DEF Pcs
  <2> QED
    BY <1>7, <2>1 DEF ChildCloses, SetSock, AfterSetSock, Goto, NbdVars, FdInv,
       TypeOK, DaemonInv, AcceptInv, ChildComesLast, ParentFirst
<1>8. CASE DoItEnds
  <2>1. /\ UNCHANGED <<next, iot, backlog, dataSock>>
        /\ pc'["parent"] = pc["parent"] /\ next["parent"] \in Int
    BY <1>8, NumOfIotsAssumption DEF DoItEnds, Goto, FdInv, TypeOK
  <2>2. ~early' => ~early /\ (Alive("parent") => ~(next["parent"] <= NumOfIots))
    BY <1>8, Zenon DEF DoItEnds
  <2>3. Undisturbed' => Undisturbed /\ next["parent"] > NumOfIots
    BY <2>1, <2>2, NumOfIotsAssumption
  <2> QED BY <2>1, <2>3 DEF DaemonInv, AcceptInv, ChildComesLast, ParentFirst
<1>9. ASSUME NEW i \in Iots, Iot(i) PROVE DaemonInv'
  <2>1. CASE IotListen(i) \/ IotClose(i)
    <3>1. UNCHANGED <<pc, next, early, backlog, dataSock>>
      BY <2>1 DEF IotListen, IotClose, IotUnchanged
    <3>2. AcceptInv'
      <4>1. iot \in [Iots -> {"start", "listening", "serving", "closed"}]
        BY DEF FdInv, TypeOK
      <4>2. CASE IotListen(i)
        BY <3>1, <4>1, <4>2 DEF IotListen, DaemonInv, AcceptInv
      <4>3. CASE IotClose(i)
        BY <3>1, <4>1, <4>3 DEF IotClose, DaemonInv, AcceptInv
      <4> QED BY <2>1, <4>2, <4>3
    <3> QED BY <3>1, <3>2 DEF DaemonInv, ChildComesLast, ParentFirst
  <2>2. CASE IotAccept(i)
    <3>1. backlog[i] # <<>> /\ Head(backlog[i]) \in Procs
      BY <2>2, HeadTailProperties DEF IotAccept, FdInv, TypeOK
    <3>2. dataSock[i] = Nobody
      BY <2>2 DEF IotAccept, DaemonInv, AcceptInv
    <3> QED BY <2>2, <3>1, <3>2, NobodyAssumption DEF IotAccept, IotUnchanged,
               FdInv, TypeOK, DaemonInv, AcceptInv, ChildComesLast, ParentFirst
  <2> QED BY <1>9, <2>1, <2>2 DEF Iot
<1>10. CASE UNCHANGED vars
  BY <1>10 DEF vars, DaemonInv, AcceptInv, ChildComesLast, ParentFirst
<1> QED
  BY <1>1, <1>2, <1>3, <1>4, <1>5, <1>6, <1>7, <1>8, <1>9, <1>10
  DEF Next, Process, Disconnect, PeerGone

-----------------------------------------------------------------------------
LEMMA Inductive == Spec => [](FdInv /\ DaemonInv)
<1>1. Init => FdInv /\ DaemonInv
  BY FdInvInit, NumOfIotsAssumption, NobodyAssumption DEF Init, DaemonInv,
     AcceptInv, ChildComesLast, ParentFirst, Iots, Procs
<1>2. FdInv /\ DaemonInv /\ [Next]_vars => (FdInv /\ DaemonInv)'
  BY FdInvStep, DaemonInvStep
<1> QED BY <1>1, <1>2, PTL DEF Spec

(***************************************************************************)
(* main, NbdOpen and the devices keep their variables in their types, for  *)
(* any number of devices.                                                  *)
(***************************************************************************)
THEOREM TypeCorrect == Spec => []TypeOK
<1>1. FdInv /\ DaemonInv => TypeOK
  BY DEF FdInv
<1> QED BY <1>1, Inductive, PTL

(***************************************************************************)
(* Whatever path of NbdOpen a process takes, and whoever dies meanwhile,   *)
(* it keeps exactly the descriptor it serves.                              *)
(***************************************************************************)
THEOREM NbdOpenReleases == Spec => []DescriptorsClosed
<1>1. FdInv /\ DaemonInv => DescriptorsClosed
  BY DEF FdInv, TypeOK, ParentInv, ChildInv, ReturnInv, DescriptorsClosed,
     Returned, Alive, Procs, Dead
<1> QED BY <1>1, Inductive, PTL

(***************************************************************************)
(* For any number of devices, each serves the daemon and not its child,    *)
(* save after an early disconnect or the daemon's death.                   *)
(***************************************************************************)
THEOREM DevicesGetTheDaemon == Spec => []DeviceServesDaemon
<1>1. ASSUME FdInv, DaemonInv, NEW i \in Iots, dataSock[i] = "child"
      PROVE  ~Undisturbed
  <2>1. i \in Int /\ next["parent"] \in Int
    BY <1>1, NumOfIotsAssumption DEF FdInv, TypeOK, Iots, Procs
  <2>2. dataSock[i] # Nobody /\ dataSock[i] # "parent"
    BY <1>1, NobodyAssumption DEF Procs
  <2> QED BY <1>1, <2>1, <2>2 DEF DaemonInv, ParentFirst
<1>2. FdInv /\ DaemonInv => DeviceServesDaemon
  BY <1>1, Zenon DEF DeviceServesDaemon, Undisturbed
<1> QED BY <1>2, Inductive, PTL

=============================================================================
