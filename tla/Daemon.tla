-------------------------------- MODULE Daemon --------------------------------
(***************************************************************************)
(* The data path of the cloud: the kernel's nbd driver, the daemon         *)
(* (concrete/daemon/daemon_main.cpp) with its reactor thread and its pool  *)
(* of workers, and the IoT devices that keep the bytes                     *)
(* (concrete/atlas/iotserver_simple.cpp).                                  *)
(*                                                                         *)
(*   kernel --nbdSocket--> reactor --tasks--> worker --toIot[i]--> IoT i   *)
(*   kernel <--answered--- worker <--tasks-- reactor <--fromIot[i]-- IoT i *)
(*                                                                         *)
(* A request of the kernel is held by a shared_ptr whose deleter answers   *)
(* the kernel: nobody calls NbdRequestDone, whoever drops the last         *)
(* reference does.  The references are the reactor's (until AddTask        *)
(* returns), the queued task's, the running worker's, the slicer's in      *)
(* m_slicerMap, and the local slicer_ptr of a worker in Splicer::Reply.    *)
(*                                                                         *)
(* A socket is a bounded sequence of messages; header and data are sent    *)
(* and received by separate calls and are separate messages.  The pool's   *)
(* queue is abstracted to a set: every task has priority highest, and a    *)
(* heap returns equal elements in no particular order.                     *)
(*                                                                         *)
(* A device may fail.  Nobody tests what send and ReadAll return: what is  *)
(* sent to it is lost or raises SIGPIPE, and its connection, at its end,   *)
(* stays readable and is read as a reply, whose header is what the stack   *)
(* had, with the beginning of a cut one over it: any bytes at all.         *)
(***************************************************************************)
EXTENDS Striping, Sequences, FiniteSets

CONSTANTS
  Handles,        \* the handles of the kernel's requests, each used once
  Shapes,         \* the requests the kernel may make
  Workers,        \* the threads of the pool
  NumOfIots,      \* NUM_OF_IOTS
  DeviceSize,     \* SIZE
  UidSpace,       \* 2^32: m_requestUid is a uint32_t
  SocketCap,      \* messages a socket holds before send blocks
  Breakable,      \* the IoT devices that may fail
  MaxEofReads,    \* bound: replies read at the end of a device's stream
  Unset, Zero, Junk, Nobody

ASSUME NumOfIotsAssumption == NumOfIots \in Nat \ {0}
ASSUME UidSpaceAssumption == UidSpace \in Nat \ {0}
ASSUME SocketCapAssumption == SocketCap \in Nat \ {0}
ASSUME BoundsAssumption == DeviceSize \in Nat /\ MaxEofReads \in Nat
ASSUME NamesAssumption ==
  /\ Nobody \notin Handles \cup Workers
  /\ Unset \notin Shapes /\ Unset \notin 0 .. (UidSpace - 1)

(***************************************************************************)
(* The nbd driver asks for whole blocks of 1024 bytes within the device.   *)
(* NbdOpen sets no NBD_FLAG, so FLUSH and TRIM never come.                 *)
(***************************************************************************)
ASSUME ShapesAssumption ==
  \A s \in Shapes :
    /\ s.type \in {"READ", "WRITE", "DISC"}
    /\ s.from \in Nat /\ s.len \in Nat
    /\ (s.from % FRAGMENT_SIZE) = 0 /\ (s.len % FRAGMENT_SIZE) = 0
    /\ s.from + s.len <= DeviceSize
    /\ (s.type = "DISC") <=> (s.len = 0)

VARIABLES
  request,        \* handle -> the request the kernel made, or Unset
  nbdSocket,      \* handles of the requests on their way to the daemon
  nbdUp,          \* the kernel has not shut the socket down
  answered,       \* handle -> what the kernel was answered, or Unset
  buffer,         \* handle -> m_data of the request
  reactor,        \* where the reactor thread is
  eofReads,       \* how many replies it made up at the end of a stream
  tasks,          \* m_thread_queue
  pc, task,       \* worker -> where it is, and its task
  frag,           \* worker -> the fragment it sends next
  held,           \* worker -> the request it keeps a reference to, or Nobody
  request_counter,
  m_requestUid,   \* handle -> uid of its slicer
  m_countSlices,  \* handle -> replies its slicer waits for
  m_slicerMap,    \* uid -> handle of the slicer, or Nobody
  senderMutex,    \* g_mutex of slicer.cpp: the worker that holds it
  toIot, fromIot, \* IoT -> the two directions of its connection
  iot,            \* IoT -> where its loop is
  storage,        \* IoT -> offset -> data
  effect,         \* history: handle -> what each fragment read or wrote
  status          \* "up", or what ended the daemon

kernelVars  == <<request, nbdSocket, nbdUp>>
requestVars == <<answered, buffer>>
reactorVars == <<reactor, eofReads>>
workerVars  == <<pc, task, frag, held>>
slicerVars  == <<request_counter, m_requestUid, m_countSlices, m_slicerMap>>
netVars     == <<toIot, fromIot>>
iotVars     == <<iot, storage, effect>>
vars == <<kernelVars, requestVars, reactorVars, tasks, workerVars, slicerVars,
          senderMutex, netVars, iotVars, status>>

Iots      == 0 .. (NumOfIots - 1)
Offsets   == {a \in 0 .. DeviceSize : (a % FRAGMENT_SIZE) = 0}
Blocks(s) == 0 .. (NumOfFragments(s.len) - 1)
Uids      == 0 .. (UidSpace - 1)

(***************************************************************************)
(* What a WRITE carries for its k-th block.                                *)
(***************************************************************************)
Payload(h, k) == <<h, k>>

Header(u, k, type, offset, h) ==
  [kind |-> "header", m_requestUid |-> u, m_fragmentIdx |-> k, m_type |-> type,
   m_iotOffset |-> offset, owner |-> h]     \* owner: history, read by no code

Data(v) == [kind |-> "data", bytes |-> v]

RequestTask(h)  == [kind |-> "request", h |-> h]
ReplyTask(m, v) == [kind |-> "reply", header |-> m, bytes |-> v]

Select         == [at |-> "select"]
Returning(h)   == [at |-> "return", h |-> h]
ReadingData(i, m) == [at |-> "data", iot |-> i, header |-> m]
Spinning       == [at |-> "spinning"]

IotIdle == [at |-> "header"]
Closed  == [at |-> "closed"]
IotAt(where, m) == [at |-> where, header |-> m]

Init ==
  /\ request   = [h \in Handles |-> Unset]
  /\ nbdSocket = <<>>
  /\ nbdUp     = TRUE
  /\ answered  = [h \in Handles |-> Unset]
  /\ buffer    = [h \in Handles |-> Unset]
  /\ reactor   = Select
  /\ eofReads  = 0
  /\ tasks     = {}
  /\ pc        = [w \in Workers |-> "pop"]
  /\ task      = [w \in Workers |-> Nobody]
  /\ frag      = [w \in Workers |-> 0]
  /\ held      = [w \in Workers |-> Nobody]
  /\ request_counter = 0
  /\ m_requestUid  = [h \in Handles |-> Unset]
  /\ m_countSlices = [h \in Handles |-> 0]
  /\ m_slicerMap   = [u \in 0 .. (UidSpace - 1) |-> Nobody]
  /\ senderMutex = Nobody
  /\ toIot     = [i \in Iots |-> <<>>]
  /\ fromIot   = [i \in Iots |-> <<>>]
  /\ iot       = [i \in Iots |-> IotIdle]
  /\ storage   = [i \in Iots |-> [o \in Offsets |-> Zero]]
  /\ effect    = [h \in Handles |-> [k \in {} |-> Zero]]
  /\ status    = "up"

-----------------------------------------------------------------------------
(***************************************************************************)
(* The kernel.  After a disconnect it makes no request, and shuts the      *)
(* socket down at any time later, answered or not.                         *)
(***************************************************************************)
Disconnecting == \E h \in Handles : request[h] # Unset /\ request[h].type = "DISC"

KernelSubmit(h, s) ==
  /\ request[h] = Unset
  /\ ~Disconnecting
  /\ request'   = [request EXCEPT ![h] = s]
  /\ nbdSocket' = Append(nbdSocket, h)
  /\ UNCHANGED <<requestVars, reactorVars, workerVars, slicerVars, netVars,
                 iotVars, nbdUp, tasks, senderMutex, status>>

KernelShutdown ==
  /\ Disconnecting /\ nbdUp
  /\ nbdUp' = FALSE
  /\ UNCHANGED <<requestVars, reactorVars, workerVars, slicerVars, netVars,
                 iotVars, request, nbdSocket, tasks, senderMutex, status>>

-----------------------------------------------------------------------------
(***************************************************************************)
(* References to a request, and the deleter that runs when the last one    *)
(* goes: NbdRequestDone writes the reply, with the buffer for a READ.  A   *)
(* write to a socket that was shut down raises SIGPIPE, which the daemon   *)
(* does not handle.                                                        *)
(***************************************************************************)
Referenced(h) ==
  \/ reactor = Returning(h)
  \/ RequestTask(h) \in tasks
  \/ \E w \in Workers : held[w] = h
  \/ \E u \in DOMAIN m_slicerMap : m_slicerMap[u] = h

NbdReply(h) == IF request[h].type = "READ" THEN buffer[h] ELSE <<>>

DropReference(h) ==
  IF Referenced(h)'
    THEN UNCHANGED <<answered, status>>
    ELSE IF nbdUp
      THEN /\ answered' = [answered EXCEPT ![h] = NbdReply(h)]
           /\ UNCHANGED status
      ELSE status' = "SIGPIPE" /\ UNCHANGED answered

-----------------------------------------------------------------------------
(***************************************************************************)
(* The reactor thread.                                                     *)
(***************************************************************************)

(***************************************************************************)
(* ManageRequests through Framework::AddTask, until the task is queued.    *)
(* The buffer is malloc'ed: only a WRITE fills it.                         *)
(***************************************************************************)
ManageRequests ==
  /\ status = "up" /\ reactor = Select
  /\ nbdSocket # <<>>
  /\ LET h == Head(nbdSocket) IN
       /\ buffer'  = [buffer EXCEPT ![h] =
                        [k \in Blocks(request[h]) |->
                           IF request[h].type = "WRITE" THEN Payload(h, k)
                                                        ELSE Junk]]
       /\ tasks'   = tasks \cup {RequestTask(h)}
       /\ reactor' = Returning(h)
  /\ nbdSocket' = Tail(nbdSocket)
  /\ UNCHANGED <<workerVars, slicerVars, netVars, iotVars, request, nbdUp,
                 answered, eofReads, senderMutex, status>>

(***************************************************************************)
(* AddTask returns and its taskAndKey goes.                                *)
(***************************************************************************)
ReactorReturn ==
  /\ status = "up" /\ reactor.at = "return"
  /\ reactor' = Select
  /\ UNCHANGED <<kernelVars, workerVars, slicerVars, netVars, iotVars, buffer,
                 eofReads, tasks, senderMutex>>
  /\ \E h \in Handles : reactor = Returning(h) /\ DropReference(h)

(***************************************************************************)
(* At the end of the stream read returns 0 and ReadRequest loops for ever. *)
(***************************************************************************)
ReactorAtEof ==
  /\ status = "up" /\ reactor = Select
  /\ ~nbdUp /\ nbdSocket = <<>>
  /\ reactor' = Spinning
  /\ UNCHANGED <<kernelVars, requestVars, workerVars, slicerVars, netVars,
                 iotVars, eofReads, tasks, senderMutex, status>>

(***************************************************************************)
(* ManageReplies: the header and, of a READ, the data; the buffer for the  *)
(* data is new and a WRITE leaves it uninitialised.                        *)
(***************************************************************************)
AtEof(i) == iot[i] = Closed /\ fromIot[i] = <<>>

\* Mutant: the data of a READ stays in the stream.
ManageRepliesHeader(i) ==
  /\ status = "up" /\ reactor = Select
  /\ fromIot[i] # <<>>
  /\ tasks'   = tasks \cup {ReplyTask(Head(fromIot[i]), Junk)}
  /\ fromIot' = [fromIot EXCEPT ![i] = Tail(@)]
  /\ UNCHANGED <<kernelVars, requestVars, reactorVars, workerVars, slicerVars,
                 iotVars, senderMutex, toIot, status>>

ManageReplies(i) ==
  /\ status = "up" /\ reactor = Select
  /\ fromIot[i] # <<>>
  /\ LET m == Head(fromIot[i]) IN
       IF m.m_type = "READ"
         THEN reactor' = ReadingData(i, m) /\ UNCHANGED tasks
         ELSE tasks' = tasks \cup {ReplyTask(m, Junk)} /\ UNCHANGED reactor
  /\ fromIot' = [fromIot EXCEPT ![i] = Tail(@)]
  /\ UNCHANGED <<kernelVars, requestVars, workerVars, slicerVars, iotVars,
                 eofReads, senderMutex, toIot, status>>

ManageRepliesData(i) ==
  LET m == reactor.header IN
  /\ status = "up" /\ reactor.at = "data" /\ reactor.iot = i
  /\ \/ /\ fromIot[i] # <<>>
        /\ tasks'   = tasks \cup {ReplyTask(m, Head(fromIot[i]).bytes)}
        /\ fromIot' = [fromIot EXCEPT ![i] = Tail(@)]
     \/ /\ AtEof(i)
        /\ tasks' = tasks \cup {ReplyTask(m, Junk)}
        /\ UNCHANGED fromIot
  /\ reactor' = Select
  /\ UNCHANGED <<kernelVars, requestVars, workerVars, slicerVars, iotVars,
                 eofReads, senderMutex, toIot, status>>

(***************************************************************************)
(* At the end of a device's stream ReadAll fails and nobody looks.  The    *)
(* header is uninitialised, but for what recv put over it of one that was  *)
(* cut: made up, it may say anything (Targets).  If it asks for more       *)
(* memory than there is, the process ends; if it says READ, ReadAll fails  *)
(* again.                                                                  *)
(***************************************************************************)
MadeUp == [kind |-> "made up"]

ManageRepliesEof(i) ==
  /\ status = "up" /\ reactor = Select /\ AtEof(i)
  /\ \/ /\ eofReads < MaxEofReads
        /\ eofReads' = eofReads + 1
        /\ tasks' = tasks \cup {ReplyTask(MadeUp, Junk)}
        /\ UNCHANGED status
     \/ status' = "terminated" /\ UNCHANGED <<eofReads, tasks>>
  /\ UNCHANGED <<kernelVars, requestVars, workerVars, slicerVars, netVars,
                 iotVars, reactor, senderMutex>>

-----------------------------------------------------------------------------
(***************************************************************************)
(* A worker: ThreadPool::ThreadFunction pops a task and calls it.          *)
(***************************************************************************)
GoTo(w, where) == pc' = [pc EXCEPT ![w] = where]

Pop(w) ==
  /\ status = "up" /\ pc[w] = "pop"
  /\ \E t \in tasks :
       /\ tasks' = tasks \ {t}
       /\ task'  = [task EXCEPT ![w] = t]
       /\ IF t.kind = "request"
            THEN GoTo(w, "slice") /\ held' = [held EXCEPT ![w] = t.h]
            ELSE GoTo(w, "reply") /\ UNCHANGED held
  /\ UNCHANGED <<kernelVars, requestVars, reactorVars, slicerVars, netVars,
                 iotVars, frag, senderMutex, status>>

(***************************************************************************)
(* Splicer::Request: Slice takes a uid and cuts the request, then the      *)
(* slicer is entered in the map, before anything is sent.  A slicer that   *)
(* the map held under the same uid goes.                                   *)
(***************************************************************************)
Slice(w) ==
  /\ status = "up" /\ pc[w] = "slice"
  /\ m_requestUid'    = [m_requestUid EXCEPT
                           ![held[w]] = request_counter % UidSpace]
  /\ request_counter' = request_counter + 1
  /\ m_countSlices'   = [m_countSlices EXCEPT
                           ![held[w]] = NumOfFragments(request[held[w]].len)]
  /\ GoTo(w, "insert")
  /\ UNCHANGED <<kernelVars, requestVars, reactorVars, netVars, iotVars, tasks,
                 task, frag, held, m_slicerMap, senderMutex, status>>

InsertSlicer(w) ==
  LET h   == held[w]
      old == m_slicerMap[m_requestUid[h]]
  IN
  /\ status = "up" /\ pc[w] = "insert"
  /\ m_slicerMap' = [m_slicerMap EXCEPT ![m_requestUid[h]] = h]
  /\ frag' = [frag EXCEPT ![w] = 0]
  /\ GoTo(w, IF Blocks(request[h]) = {} THEN "release" ELSE "send")
  /\ UNCHANGED <<kernelVars, reactorVars, netVars, iotVars, buffer, tasks,
                 task, held, request_counter, m_requestUid, m_countSlices,
                 senderMutex>>
  /\ \/ old = Nobody /\ UNCHANGED <<answered, status>>
     \/ \E o \in Handles : old = o /\ DropReference(o)

(***************************************************************************)
(* RequestSender::Send: one Sender per fragment.  It locks, sends the      *)
(* header and for a WRITE the data, and unlocks; send blocks while the     *)
(* socket is full.                                                         *)
(***************************************************************************)
DeviceRequest(h, k) ==
  LET p == Positions(request[h].from, NumOfFragments(request[h].len), NumOfIots)[k]
  IN  [iot    |-> p.iot,
       header |-> Header(m_requestUid[h], k, request[h].type, p.offset, h),
       bytes  |-> buffer[h][k]]

Current(w) == DeviceRequest(held[w], frag[w])

SendTo(i, m) ==
  \/ /\ iot[i] # Closed /\ Len(toIot[i]) < SocketCap
     /\ toIot' = [toIot EXCEPT ![i] = Append(@, m)]
  \/ iot[i] = Closed /\ UNCHANGED toIot

NextFragment(w) ==
  /\ senderMutex' = Nobody
  /\ frag' = [frag EXCEPT ![w] = @ + 1]
  /\ GoTo(w, IF frag[w] + 1 < NumOfFragments(request[held[w]].len)
               THEN "send" ELSE "release")

\* Mutant: the sender does not take the mutex.
SenderWithoutLock(w) ==
  /\ status = "up" /\ pc[w] = "send"
  /\ GoTo(w, "sendHeader")
  /\ UNCHANGED <<kernelVars, requestVars, reactorVars, slicerVars, netVars,
                 iotVars, tasks, task, frag, held, senderMutex, status>>

SenderLock(w) ==
  /\ status = "up" /\ pc[w] = "send"
  /\ senderMutex = Nobody
  /\ senderMutex' = w
  /\ GoTo(w, "sendHeader")
  /\ UNCHANGED <<kernelVars, requestVars, reactorVars, slicerVars, netVars,
                 iotVars, tasks, task, frag, held, status>>

SendHeader(w) ==
  /\ status = "up" /\ pc[w] = "sendHeader"
  /\ SendTo(Current(w).iot, Current(w).header)
  /\ IF request[held[w]].type = "WRITE"
       THEN GoTo(w, "sendData") /\ UNCHANGED <<senderMutex, frag>>
       ELSE NextFragment(w)
  /\ UNCHANGED <<kernelVars, requestVars, reactorVars, slicerVars, iotVars,
                 tasks, task, held, fromIot, status>>

SendData(w) ==
  /\ status = "up" /\ pc[w] = "sendData"
  /\ SendTo(Current(w).iot, Data(Current(w).bytes))
  /\ NextFragment(w)
  /\ UNCHANGED <<kernelVars, requestVars, reactorVars, slicerVars, iotVars,
                 tasks, task, held, fromIot, status>>

SendFails(w) ==
  /\ status = "up" /\ pc[w] \in {"sendHeader", "sendData"}
  /\ iot[Current(w).iot] = Closed
  /\ status' = "SIGPIPE"
  /\ UNCHANGED <<kernelVars, requestVars, reactorVars, workerVars, slicerVars,
                 netVars, iotVars, tasks, senderMutex>>

(***************************************************************************)
(* Splicer::Reply, all under g_mutex: find the slicer, copy the data (for  *)
(* a WRITE too), and after the last reply forget the slicer.  A uid that   *)
(* is not in the map gives a null slicer, which is dereferenced.  A memcpy *)
(* past the end of the buffer overwrites what is not the request's:        *)
(* nothing more is known of the daemon, which the model then stops.  A     *)
(* count below 0 stands for a size_t that wrapped.                         *)
(***************************************************************************)
\* Mutants: the count is compared one reply too early, or before decrementing.
ReadyOneEarly(count) == count - 1 <= 1
ReadyBeforeDecrement(count) == count = 0

IsReplyReady(count) == count - 1 = 0

\* Mutant: the offset of the fragment in the buffer is forgotten.
CopyToFront(h, ks, v) == buffer' = [buffer EXCEPT ![h][0] = v]

CopyFragment(h, ks, v) ==
  buffer' = [buffer EXCEPT ![h] = [k \in DOMAIN @ |-> IF k \in ks THEN v ELSE @[k]]]

(***************************************************************************)
(* The uid a header names, and the blocks of the request's buffer that the *)
(* m_dataLen bytes at m_dataLen * m_fragmentIdx lie in: that of the        *)
(* fragment, but of a made-up header any stretch, also past every buffer.  *)
(***************************************************************************)
Stretches == LET last == NumOfFragments(DeviceSize) IN {a .. b : a, b \in 0 .. last}

Targets(m) ==
  IF m = MadeUp THEN [uid : Uids, blocks : Stretches]
                ELSE {[uid |-> m.m_requestUid, blocks |-> {m.m_fragmentIdx}]}

Reply(w) ==
  /\ status = "up" /\ pc[w] = "reply"
  /\ \E target \in Targets(task[w].header) :
       LET h == m_slicerMap[target.uid] IN
       \/ /\ h = Nobody
          /\ status' = "null slicer"
          /\ UNCHANGED <<buffer, m_countSlices, m_slicerMap, held, pc>>
       \/ /\ h # Nobody /\ ~(target.blocks \subseteq Blocks(request[h]))
          /\ status' = "overwritten"
          /\ UNCHANGED <<buffer, m_countSlices, m_slicerMap, held, pc>>
       \/ /\ h # Nobody /\ target.blocks \subseteq Blocks(request[h])
          /\ CopyFragment(h, target.blocks, task[w].bytes)
          /\ m_countSlices' = [m_countSlices EXCEPT ![h] = @ - 1]
          /\ m_slicerMap' = IF IsReplyReady(m_countSlices[h])
               THEN [m_slicerMap EXCEPT ![target.uid] = Nobody]
               ELSE m_slicerMap
          /\ held' = [held EXCEPT ![w] = h]
          /\ GoTo(w, "release")
          /\ UNCHANGED status
  /\ UNCHANGED <<kernelVars, reactorVars, netVars, iotVars, answered, tasks,
                 task, frag, request_counter, m_requestUid, senderMutex>>

(***************************************************************************)
(* The task returns and its references go.                                 *)
(***************************************************************************)
Release(w) ==
  /\ status = "up" /\ pc[w] = "release"
  /\ GoTo(w, "pop")
  /\ task' = [task EXCEPT ![w] = Nobody]
  /\ held' = [held EXCEPT ![w] = Nobody]
  /\ UNCHANGED <<kernelVars, reactorVars, slicerVars, netVars, iotVars, buffer,
                 tasks, frag, senderMutex>>
  /\ \E h \in Handles : held[w] = h /\ DropReference(h)

Worker(w) ==
  \/ Pop(w) \/ Slice(w) \/ InsertSlicer(w)
  \/ SenderLock(w) \/ SendHeader(w) \/ SendData(w) \/ SendFails(w)
  \/ Reply(w) \/ Release(w)

-----------------------------------------------------------------------------
(***************************************************************************)
(* An IoT device serves one fragment at a time: the main loop of           *)
(* iotserver_simple.cpp.  It outlives the daemon.                          *)
(***************************************************************************)
iotUnchanged == UNCHANGED <<kernelVars, requestVars, reactorVars, workerVars,
                            slicerVars, tasks, senderMutex, status>>

Record(m, v) ==
  effect' = [effect EXCEPT
    ![m.owner] = [j \in DOMAIN @ \cup {m.m_fragmentIdx} |->
                    IF j = m.m_fragmentIdx THEN v ELSE @[j]]]

IotReadHeader(i) ==
  /\ iot[i].at = "header"
  /\ toIot[i] # <<>>
  /\ LET m == Head(toIot[i]) IN
       iot' = [iot EXCEPT ![i] = IotAt(IF m.m_type = "READ" THEN "read" ELSE "write", m)]
  /\ toIot' = [toIot EXCEPT ![i] = Tail(@)]
  /\ UNCHANGED <<fromIot, storage, effect>> /\ iotUnchanged

IotWrite(i) ==
  LET m == iot[i].header IN
  /\ iot[i].at = "write"
  /\ toIot[i] # <<>>
  /\ storage' = [storage EXCEPT ![i][m.m_iotOffset] = Head(toIot[i]).bytes]
  /\ Record(m, Head(toIot[i]).bytes)
  /\ toIot' = [toIot EXCEPT ![i] = Tail(@)]
  /\ iot' = [iot EXCEPT ![i] = IotAt("ack", m)]
  /\ UNCHANGED fromIot /\ iotUnchanged

IotSendHeader(i) ==
  /\ iot[i].at \in {"read", "ack"}
  /\ Len(fromIot[i]) < SocketCap
  /\ fromIot' = [fromIot EXCEPT ![i] = Append(@, iot[i].header)]
  /\ iot' = [iot EXCEPT ![i] = IF @.at = "read" THEN IotAt("sendData", @.header)
                                                ELSE IotIdle]
  /\ UNCHANGED <<toIot, storage, effect>> /\ iotUnchanged

IotSendData(i) ==
  LET m == iot[i].header
      v == storage[i][m.m_iotOffset]
  IN
  /\ iot[i].at = "sendData"
  /\ Len(fromIot[i]) < SocketCap
  /\ fromIot' = [fromIot EXCEPT ![i] = Append(@, Data(v))]
  /\ Record(m, v)
  /\ iot' = [iot EXCEPT ![i] = IotIdle]
  /\ UNCHANGED <<toIot, storage>> /\ iotUnchanged

(***************************************************************************)
(* A device fails.  What it sent and the daemon has not read arrives up to *)
(* some byte; a message that is cut there is no message any more, and is   *)
(* met in ManageRepliesData and ManageRepliesEof.                          *)
(***************************************************************************)
IotFail(i) ==
  /\ i \in Breakable /\ iot[i] # Closed
  /\ iot' = [iot EXCEPT ![i] = Closed]
  /\ toIot' = [toIot EXCEPT ![i] = <<>>]
  /\ \E n \in 0 .. Len(fromIot[i]) : fromIot' = [fromIot EXCEPT ![i] = SubSeq(@, 1, n)]
  /\ UNCHANGED <<storage, effect>> /\ iotUnchanged

Iot(i) == IotReadHeader(i) \/ IotWrite(i) \/ IotSendHeader(i) \/ IotSendData(i)

-----------------------------------------------------------------------------
Pending(h) == request[h] # Unset /\ answered[h] = Unset

(***************************************************************************)
(* The system may stop: nothing is pending, or the daemon is dead or in    *)
(* the endless loop at the end of the stream.                              *)
(***************************************************************************)
Stop ==
  /\ \/ \A h \in Handles : ~Pending(h)
     \/ status # "up"
     \/ reactor = Spinning
  /\ UNCHANGED vars

Reactor ==
  \/ ManageRequests \/ ReactorReturn \/ ReactorAtEof
  \/ \E i \in Iots :
       ManageReplies(i) \/ ManageRepliesData(i) \/ ManageRepliesEof(i)

Next ==
  \/ \E h \in Handles, s \in Shapes : KernelSubmit(h, s)
  \/ KernelShutdown
  \/ Reactor
  \/ \E w \in Workers : Worker(w)
  \/ \E i \in Iots : Iot(i) \/ IotFail(i)
  \/ Stop

Spec == Init /\ [][Next]_vars

(***************************************************************************)
(* Threads and devices keep running.  Each wake-up of the reactor serves   *)
(* every descriptor that is ready.                                         *)
(***************************************************************************)
Fairness ==
  /\ WF_vars(ManageRequests) /\ WF_vars(ReactorReturn)
  /\ \A i \in Iots : WF_vars(ManageReplies(i) \/ ManageRepliesData(i))
  /\ \A w \in Workers : WF_vars(Worker(w))
  /\ \A i \in Iots : WF_vars(Iot(i))

FairSpec == Spec /\ Fairness

-----------------------------------------------------------------------------
Headers == [kind : {"header"}, m_requestUid : Uids, m_fragmentIdx : Nat,
            m_type : {"READ", "WRITE"}, m_iotOffset : Offsets, owner : Handles]
IsMessage(m) == m \in Headers \/ m.kind = "data"

TypeOK ==
  /\ request \in [Handles -> Shapes \cup {Unset}]
  /\ nbdSocket \in Seq(Handles)
  /\ nbdUp \in BOOLEAN
  /\ reactor.at \in {"select", "return", "data", "spinning"}
  /\ \A t \in tasks : \/ t.kind = "request" /\ t.h \in Handles
                      \/ t.kind = "reply" /\ t.header \in Headers \cup {MadeUp}
  /\ pc \in [Workers -> {"pop", "slice", "insert", "send", "sendHeader",
                         "sendData", "reply", "release"}]
  /\ frag \in [Workers -> Nat]
  /\ held \in [Workers -> Handles \cup {Nobody}]
  /\ request_counter \in Nat
  /\ m_requestUid \in [Handles -> Uids \cup {Unset}]
  /\ m_countSlices \in [Handles -> Int]
  /\ m_slicerMap \in [Uids -> Handles \cup {Nobody}]
  /\ senderMutex \in Workers \cup {Nobody}
  /\ \A i \in Iots : /\ \A j \in 1 .. Len(toIot[i]) : IsMessage(toIot[i][j])
                     /\ \A j \in 1 .. Len(fromIot[i]) : IsMessage(fromIot[i][j])
                     /\ Len(toIot[i]) <= SocketCap
                     /\ Len(fromIot[i]) <= SocketCap
  /\ \A i \in Iots : DOMAIN storage[i] = Offsets
  /\ eofReads \in 0 .. MaxEofReads
  /\ status \in {"up", "null slicer", "overwritten", "SIGPIPE", "terminated"}

(***************************************************************************)
(* While the devices are up Splicer::Reply never looks up a uid that is    *)
(* not in the map: whatever the interleaving of workers, a slicer is       *)
(* entered before the first reply to it can arrive and stays until the     *)
(* last one was processed.                                                 *)
(***************************************************************************)
Broken == \E i \in Iots : iot[i] = Closed

NoNullSlicer == status = "null slicer" => Broken

(***************************************************************************)
(* The headers and data of different workers never mix on a connection:    *)
(* what an IoT device reads as a header is one, and the data it stores is  *)
(* that of the header before it, as long as no made-up reply may have been *)
(* copied over it.  The same for the replies.                              *)
(***************************************************************************)
StreamsFramed ==
  \A i \in Iots :
    /\ \A j \in 1 .. Len(toIot[i]) :
         LET before == IF j > 1 THEN toIot[i][j - 1]
                       ELSE IF iot[i].at = "write" THEN iot[i].header
                       ELSE Data(Zero)
             isData == toIot[i][j].kind = "data"
         IN  /\ isData <=> (before.kind = "header" /\ before.m_type = "WRITE")
             /\ isData /\ eofReads = 0 =>
                  toIot[i][j].bytes = Payload(before.owner, before.m_fragmentIdx)
    /\ \A j \in 1 .. Len(fromIot[i]) :
         LET before == IF j > 1 THEN fromIot[i][j - 1]
                       ELSE IF reactor.at = "data" /\ reactor.iot = i
                         THEN reactor.header
                       ELSE Data(Zero)
         IN  (fromIot[i][j].kind = "data")
               <=> (before.kind = "header" /\ before.m_type = "READ")

(***************************************************************************)
(* The daemon with its IoT devices is a block device: a request takes      *)
(* effect once on each of its blocks, is answered once, only after its     *)
(* last block took effect, and a READ is answered with what it found on    *)
(* the devices and never with an uninitialised or mixed-up buffer.  When a *)
(* device is lost neither the answers nor the bytes that a WRITE stores    *)
(* are worth anything any more, but still a WRITE changes its own blocks   *)
(* alone, each of them once, and is answered once; until a made-up header  *)
(* lets Reply copy outside a buffer (ruined): then nothing is promised.    *)
(***************************************************************************)
Address(s, k) == s.from + (k * FRAGMENT_SIZE)

Device == INSTANCE BlockDevice WITH
  Addresses <- Offsets \ {DeviceSize},
  disk      <- [a \in Offsets \ {DeviceSize} |->
                  storage[Home(a, NumOfIots).iot][Home(a, NumOfIots).offset]],
  submitted <- request,
  broken    <- Broken,
  ruined    <- status = "overwritten"

IsBlockDevice == Device!Spec

(***************************************************************************)
(* Every READ and WRITE is answered while the kernel keeps the connection. *)
(***************************************************************************)
EveryRequestAnswered ==
  \A h \in Handles : Pending(h) ~> answered[h] # Unset

=============================================================================
