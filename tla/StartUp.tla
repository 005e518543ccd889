-------------------------------- MODULE StartUp --------------------------------
(***************************************************************************)
(* How the daemon starts and how it ends: main of daemon_main.cpp, NbdOpen *)
(* (concrete/nbd_buse/buse.c), the constructors of NBDCommunication,       *)
(* IoTManager and Framework, Framework::Run up to the reactor, and the     *)
(* life of the IoT devices (concrete/atlas/iotserver_simple.cpp) around    *)
(* their loop.                                                             *)
(*                                                                         *)
(* NbdOpen makes a socket pair and forks.  The child hands sp[0] to the    *)
(* nbd driver and stays in the ioctl NBD_DO_IT; the parent keeps sp[1] and *)
(* serves the requests.  When the ioctl ends, NbdOpen returns 0 in the     *)
(* child, and the child goes through main like its parent.                 *)
(*                                                                         *)
(* The end of a stream is seen only when every descriptor of the other end *)
(* is closed, in both processes and in the driver: each process must close *)
(* the end that is not its own.  Either process may be killed.             *)
(***************************************************************************)
EXTENDS Integers, Sequences

CONSTANTS
  NumOfIots,      \* NUM_OF_IOTS
  Nobody

Procs == {"parent", "child"}

ASSUME NumOfIotsAssumption == NumOfIots \in Nat
ASSUME NobodyAssumption == Nobody \notin Procs

Iots  == 1 .. NumOfIots

VARIABLES
  pc,            \* process -> where it is in main
  fds,           \* process -> descriptors of NbdOpen that it has open
  m_nbdSocket,   \* process -> "sp1", "zero", "error", or Nobody before
  sock,          \* the nbd driver holds a reference to sp[0]
  next,          \* process -> the device it connects to next
  iot,           \* device -> "start", "listening", "serving", "closed"
  backlog,       \* device -> the processes that connected, in order
  dataSock,      \* device -> the process whose connection it accepted
  early          \* history: NBD_DO_IT ended before the parent had connected

vars == <<pc, fds, m_nbdSocket, sock, next, iot, backlog, dataSock, early>>

Dead == {"thrown", "exited", "aborted", "killed"}
Alive(p) == pc[p] \notin Dead \cup {"none"}

Init ==
  /\ pc  = [p \in Procs |-> IF p = "parent" THEN "socketpair" ELSE "none"]
  /\ fds = [p \in Procs |-> {}]
  /\ m_nbdSocket = [p \in Procs |-> Nobody]
  /\ sock = FALSE
  /\ next = [p \in Procs |-> 1]
  /\ iot = [i \in Iots |-> "start"]
  /\ backlog  = [i \in Iots |-> <<>>]
  /\ dataSock = [i \in Iots |-> Nobody]
  /\ early = FALSE

Goto(p, from, to) == pc[p] = from /\ pc' = [pc EXCEPT ![p] = to]

(***************************************************************************)
(* The end of a process closes all its descriptors; a driver that is in    *)
(* NBD_DO_IT for it lets go of the socket.                                 *)
(***************************************************************************)
Die(p, how) ==
  /\ pc'   = [pc EXCEPT ![p] = how]
  /\ fds'  = [fds EXCEPT ![p] = {}]
  /\ sock' = (sock /\ p # "child")
  /\ UNCHANGED <<m_nbdSocket, next, iot, backlog, dataSock, early>>

Kill(p) == Alive(p) /\ Die(p, "killed")

-----------------------------------------------------------------------------
(***************************************************************************)
(* NbdOpen.  Every error path closes what is open and returns ERROR, upon  *)
(* which the constructor of NBDCommunication throws, in either process.    *)
(***************************************************************************)
NbdVars == <<sock, next, iot, backlog, dataSock, early>>

\* Mutant: an error path that forgets the descriptors.
ReturnErrorOpen(p, from) ==
  /\ Goto(p, from, "error")
  /\ m_nbdSocket' = [m_nbdSocket EXCEPT ![p] = "error"]
  /\ UNCHANGED <<fds, NbdVars>>

ReturnError(p, from) ==
  /\ Goto(p, from, "error")
  /\ m_nbdSocket' = [m_nbdSocket EXCEPT ![p] = "error"]
  /\ fds' = [fds EXCEPT ![p] = {}]
  /\ UNCHANGED NbdVars

Throw(p) == pc[p] = "error" /\ Die(p, "thrown")

Socketpair ==
  \/ /\ Goto("parent", "socketpair", "open")
     /\ fds' = [fds EXCEPT !["parent"] = {"sp0", "sp1"}]
     /\ UNCHANGED <<m_nbdSocket, NbdVars>>
  \/ ReturnError("parent", "socketpair")

Open ==
  \/ /\ Goto("parent", "open", "setSize")
     /\ fds' = [fds EXCEPT !["parent"] = @ \cup {"nbd"}]
     /\ UNCHANGED <<m_nbdSocket, NbdVars>>
  \/ ReturnError("parent", "open")

SetSize ==
  \/ Goto("parent", "setSize", "fork") /\ UNCHANGED <<fds, m_nbdSocket, NbdVars>>
  \/ ReturnError("parent", "setSize")

(***************************************************************************)
(* The child has a copy of every descriptor and closes sp[1] at once.      *)
(***************************************************************************)
Fork ==
  \/ /\ pc["parent"] = "fork"
     /\ pc'  = [p \in Procs |-> IF p = "parent" THEN "return" ELSE "closeOwn"]
     /\ fds' = [fds EXCEPT !["child"] = fds["parent"]]
     /\ UNCHANGED <<m_nbdSocket, NbdVars>>
  \/ ReturnError("parent", "fork")

\* Mutant: the child keeps its copy of sp[1].
ChildKeepsPeer == fds["child"]

ChildEnds == fds["child"] \ {"sp1"}

ChildCloses ==
  /\ Goto("child", "closeOwn", "setSock")
  /\ fds' = [fds EXCEPT !["child"] = ChildEnds]
  /\ UNCHANGED <<m_nbdSocket, NbdVars>>

\* Mutant: the child does not wait for the driver.
WithoutDoIt == "return"

AfterSetSock == "doIt"

SetSock ==
  \/ /\ Goto("child", "setSock", AfterSetSock)
     /\ sock' = TRUE
     /\ UNCHANGED <<fds, m_nbdSocket, next, iot, backlog, dataSock, early>>
  \/ ReturnError("child", "setSock")

(***************************************************************************)
(* The driver serves the device until it is disconnected, which a user can *)
(* ask for at any time, or until its end of the pair is at its end.        *)
(***************************************************************************)
PeerClosed == \A p \in Procs : "sp1" \notin fds[p]

DoItEnds ==
  /\ sock' = FALSE
  /\ early' = (early \/ (Alive("parent") /\ next["parent"] <= NumOfIots))
  /\ UNCHANGED <<next, iot, backlog, dataSock>>
  /\ \/ /\ Goto("child", "doIt", "return")
        /\ UNCHANGED <<fds, m_nbdSocket>>
     \/ /\ Goto("child", "doIt", "error")
        /\ m_nbdSocket' = [m_nbdSocket EXCEPT !["child"] = "error"]
        /\ fds' = [fds EXCEPT !["child"] = {}]

Disconnect == ~PeerClosed /\ DoItEnds
PeerGone   == PeerClosed /\ DoItEnds

(***************************************************************************)
(* NbdOpen returns: sp[1] in the parent, 0 in the child.                   *)
(***************************************************************************)
\* Mutant: the wrong descriptor.
ReturnsDevice(p) == IF p = "child" THEN "zero" ELSE "nbd"

Returned(p) == IF p = "child" THEN "zero" ELSE "sp1"

\* Mutant: the parent keeps its copy of sp[0].
ParentKeepsPeer(p) == {"nbd"}

ClosedAtReturn(p) == {"nbd", "sp0"}

Return(p) ==
  /\ Goto(p, "return", "connect")
  /\ m_nbdSocket' = [m_nbdSocket EXCEPT ![p] = Returned(p)]
  /\ fds' = [fds EXCEPT ![p] = @ \ ClosedAtReturn(p)]
  /\ UNCHANGED NbdVars

-----------------------------------------------------------------------------
(***************************************************************************)
(* main: one IoTManager for each device; it exits when a connection is     *)
(* refused.  A device that listens queues every connection.                *)
(***************************************************************************)
Listens(i) == iot[i] \in {"listening", "serving"}

Connect(p) ==
  /\ pc[p] = "connect" /\ next[p] <= NumOfIots
  /\ \/ /\ Listens(next[p])
        /\ backlog' = [backlog EXCEPT ![next[p]] = Append(@, p)]
        /\ next' = [next EXCEPT ![p] = @ + 1]
        /\ UNCHANGED <<pc, fds, m_nbdSocket, sock, iot, dataSock, early>>
     \/ ~Listens(next[p]) /\ Die(p, "exited")

(***************************************************************************)
(* Framework registers the descriptors; Run loads the commands, which may  *)
(* end the process (module Plugins), starts the pool and the reactor.      *)
(***************************************************************************)
FrameworkRun(p) ==
  /\ next[p] > NumOfIots
  /\ \/ /\ Goto(p, "connect", "select")
        /\ UNCHANGED <<fds, m_nbdSocket, NbdVars>>
     \/ pc[p] = "connect" /\ Die(p, "thrown")

(***************************************************************************)
(* The handler of m_nbdSocket: NbdGetRequest asserts that it is positive.  *)
(* The child's is descriptor 0, which may become readable.  At the end of  *)
(* the stream ReadRequest loops for ever.                                  *)
(***************************************************************************)
DriverClosed == ~sock /\ \A p \in Procs : "sp0" \notin fds[p]

NbdGetRequest(p) ==
  /\ pc[p] = "select"
  /\ \/ m_nbdSocket[p] = "zero" /\ Die(p, "aborted")
     \/ /\ m_nbdSocket[p] = "sp1"
        /\ Goto(p, "select", IF DriverClosed THEN "spinning" ELSE "select")
        /\ UNCHANGED <<fds, m_nbdSocket, NbdVars>>

-----------------------------------------------------------------------------
(***************************************************************************)
(* A device listens, accepts one connection, the first, and serves it      *)
(* until it ends: ReadAll returns -1, the loop breaks, and both sockets    *)
(* are closed.                                                             *)
(***************************************************************************)
IotUnchanged == UNCHANGED <<pc, fds, m_nbdSocket, sock, next, early>>

IotListen(i) ==
  /\ iot[i] = "start"
  /\ iot' = [iot EXCEPT ![i] = "listening"]
  /\ UNCHANGED <<backlog, dataSock>> /\ IotUnchanged

IotAccept(i) ==
  /\ iot[i] = "listening" /\ backlog[i] # <<>>
  /\ iot' = [iot EXCEPT ![i] = "serving"]
  /\ dataSock' = [dataSock EXCEPT ![i] = Head(backlog[i])]
  /\ backlog' = [backlog EXCEPT ![i] = Tail(@)]
  /\ IotUnchanged

IotClose(i) ==
  /\ iot[i] = "serving" /\ ~Alive(dataSock[i])
  /\ iot' = [iot EXCEPT ![i] = "closed"]
  /\ UNCHANGED <<backlog, dataSock>> /\ IotUnchanged

-----------------------------------------------------------------------------
Process(p) ==
  \/ Throw(p) \/ Return(p) \/ Connect(p) \/ FrameworkRun(p)
  \/ p = "parent" /\ (Socketpair \/ Open \/ SetSize \/ Fork)
  \/ p = "child" /\ (ChildCloses \/ SetSock)

Iot(i) == IotListen(i) \/ IotAccept(i) \/ IotClose(i)

Next ==
  \/ \E p \in Procs : Process(p) \/ Kill(p) \/ NbdGetRequest(p)
  \/ Disconnect \/ PeerGone
  \/ \E i \in Iots : Iot(i)

Spec == Init /\ [][Next]_vars

(***************************************************************************)
(* Processes and devices are scheduled, the driver sees the end of its     *)
(* stream, and the reactor that of the parent's.  Nothing makes a user     *)
(* disconnect, kill a process, or type on the child's descriptor 0.        *)
(***************************************************************************)
FairSpec ==
  /\ Spec
  /\ \A p \in Procs : WF_vars(Process(p))
  /\ WF_vars(NbdGetRequest("parent")) /\ WF_vars(PeerGone)
  /\ \A i \in Iots : WF_vars(Iot(i))

-----------------------------------------------------------------------------
Pcs == {"none", "socketpair", "open", "setSize", "fork", "closeOwn", "setSock",
        "doIt", "return", "error", "connect", "select", "spinning"} \cup Dead

TypeOK ==
  /\ pc \in [Procs -> Pcs]
  /\ fds \in [Procs -> SUBSET {"sp0", "sp1", "nbd"}]
  /\ m_nbdSocket \in [Procs -> {"sp1", "zero", "error", Nobody}]
  /\ sock \in BOOLEAN /\ early \in BOOLEAN
  /\ next \in [Procs -> 1 .. (NumOfIots + 1)]
  /\ iot \in [Iots -> {"start", "listening", "serving", "closed"}]
  /\ backlog \in [Iots -> Seq(Procs)]
  /\ dataSock \in [Iots -> Procs \cup {Nobody}]

(***************************************************************************)
(* When NbdOpen has returned, by whatever path, a process holds of its     *)
(* descriptors exactly the one that m_nbdSocket names: the parent its end  *)
(* of the pair, the child that runs on after NBD_DO_IT and a process that  *)
(* failed none.  So the device and the pair are not held by a forgotten    *)
(* copy, and no process takes requests from a descriptor it has closed.    *)
(***************************************************************************)
DescriptorsClosed ==
  \A p \in Procs :
    pc[p] \in Dead \cup {"error", "connect", "select", "spinning"} =>
      fds[p] = IF Alive(p) /\ m_nbdSocket[p] = "sp1" THEN {"sp1"} ELSE {}

(***************************************************************************)
(* A device serves the daemon, not the child that runs on as a second one, *)
(* unless the driver was disconnected before the daemon had connected to   *)
(* its devices, or the daemon is dead.                                     *)
(***************************************************************************)
DeviceServesDaemon ==
  \A i \in Iots : dataSock[i] = "child" => early \/ ~Alive("parent")

(***************************************************************************)
(* When the daemon dies, whenever that is, the driver sees the end of the  *)
(* stream and the child leaves NBD_DO_IT: the device does not hang.        *)
(***************************************************************************)
PeerDeathSeen ==
  (pc["child"] = "doIt" /\ ~Alive("parent")) ~> pc["child"] # "doIt"

(***************************************************************************)
(* When the driver lets the device go, or the child fails before it had    *)
(* it, the daemon's read comes to the end of the stream.                   *)
(***************************************************************************)
EndSeen ==
  (pc["child"] \in Dead \cup {"connect", "select"} /\ pc["parent"] = "select")
    ~> pc["parent"] # "select"

=============================================================================
