# A TLA+ model of the privately distributed cloud

The repository mounts a block device (`/dev/nbd0`, 512 MB) whose bytes live on IoT
devices. The Linux nbd driver sends block requests to a daemon; the daemon cuts them
into fragments of 1024 bytes, stripes the fragments over the IoT devices, gathers
their replies and answers the kernel. Below the daemon is a framework written for it:
a reactor, a thread pool, a waitable queue, and a set of utilities (logger, scheduler,
dispatcher, directory monitor, plug-in loader, factory, singleton).

Paths below are relative to `src/`.

## 1. Inventory

| Part | State | Operations | What makes it hard |
|---|---|---|---|
| `concrete/nbd_buse/buse.c`, `concrete/nbd_communication` | the nbd socket; one malloc'ed request per handle | `NbdOpen`, `NbdGetRequest`, `NbdRequestDone` | two processes share a socket pair; the kernel is answered by the deleter of a `shared_ptr`, on whichever thread drops the last reference |
| `concrete/slicer` | the fragments and the count of replies of one request; a static uid counter | `Slice`, `IsReplyReady`, `Sender` | arithmetic of the striping; two `send`s per WRITE fragment from many threads |
| `concrete/communication_manager` | `m_slicerMap`: uid to slicer | `Splicer::Request`, `Splicer::Reply`, `RequestSender::Send` | replies to one request on several workers at once; a slicer must be found until its last reply |
| `concrete/daemon/daemon_main.cpp` | the descriptors | `main`, `ManageRequests`, `ManageReplies` | the reactor reads from a device and blocks; the results of `send` and `ReadAll` are ignored |
| `concrete/atlas/iotserver_simple.cpp` | 512 MB of storage | listen, accept one connection, a loop: read a header, serve it | blocks in `send` while the daemon blocks in `send`; ends with its connection |
| `framework/waitable_queue` | a container, a mutex, a condition variable | `Push`, `Pop`, `Pop` with a timeout, `IsEmpty` | notification outside the mutex, spurious wakeups, timeouts |
| `framework/thread_pool` | a priority queue of tasks, two pause flags, threads, zombies | `Run`, `Pause`, `SetNumOfThreads`, `AddTask` | pausing and shrinking by tasks in the queue; a mutex unlocked twice |
| `framework/reactor` | the registered descriptors and handlers | `RegisterReadEventHandler`, `DeregisterEventHandler`, `Run` | stale ready counts and `m_maxfd` after deregistration |
| `framework/framework` | reactor and pool | `Run`, `Add`, `Remove`, `AddTask` | glue; loads plug-ins before it runs |
| `framework/logger` | a queue of messages, a worker | `Log`, destructor | the destructor joins a worker blocked in `Pop` |
| `framework/scheduler`, `framework/async_injection` | timers; an object that reschedules itself | `schedule`, `CreateInstance`, `Execute` | callbacks on timer threads; no mutex |
| `framework/dispatcher`, `framework/dir_monitor`, `framework/dll_loader` | subscribers; an inotify descriptor and a thread; library handles | `Notify`, `Subscribe`, `load`, `unload` | notify against subscribe and death; several inotify events in one read |
| `framework/factory`, `framework/singleton`, `framework/command` | creators by key; one object; two plug-in libraries | `Add`, `Set`, `Create`, `getInstance`, `cleanup` | double-checked locking on a plain `bool` |

`concrete/nbd_buse/BUSE*` is vendored, `framework/reactor/unused` and
`daemon_main_old_draft.cpp` are not built. `command_library.cpp` registers nothing (its
calls of `Add` are commented out), `library2.cpp` registers both commands.

How the parts interact:

    kernel --nbd socket--> reactor --task queue--> worker --socket--> IoT device
    kernel <---deleter---- worker <--task queue-- reactor <--socket-- IoT device

    main: NbdOpen --fork--> child in NBD_DO_IT
          connect to the devices; Framework::Run: load the commands, start the pool, react

    inotify --> monitor's thread --Dispatcher--> Callback --> DllLoader --> Factory <-- main thread

What makes the parts correct: a fragment is where its address says (striping); the
daemon and its devices together are a block device (safety) that answers (liveness);
the queue is a queue and loses no wakeup; a reactor serves what is ready; an object that
reschedules itself is never used by two threads or after its end; a process holds the
descriptors it serves and no others, so that each side sees the other's end; a plug-in is
found, its code is mapped while it can be called, and the loader is not called once it is
gone; a pool that is paused is paused, one that
runs starts its tasks, and calls on it return.

`PROJECT.json` lists the hazards behind these properties, each at its line.

## 2. Modules

| Module | Models | Kind |
|---|---|---|
| `Striping` | the arithmetic of `Slicer::Slice` | operators |
| `Slicer` | `Slicer::Slice`, one loop iteration per step | state machine |
| `SlicerProofs` | theorems on both | proofs |
| `BlockDevice` | what the daemon promises the kernel | abstract specification |
| `Daemon`, `MCDaemon` | kernel, reactor thread, workers, IoT devices and the sockets between them | composition |
| `DaemonProofs` | theorems on it, the refinement of `BlockDevice` among them | proofs |
| `BlockingQueue` | what a queue between threads promises | abstract specification |
| `WaitableQueue` | `waitable_queue.hpp` | state machine |
| `WaitableQueueProofs` | theorems on it | proofs |
| `ThreadPool`, `MCThreadPool` | `thread_pool.cpp` | state machine |
| `ThreadPoolProofs` | theorems on it | proofs |
| `Reactor` | `reactor.hpp`, `imonitor.cpp` | state machine |
| `ReactorProofs` | theorems on it | proofs |
| `Asyncinjection` | `async_injection.cpp`, `scheduler.cpp`, `singleton.hpp` | state machine |
| `AsyncinjectionProofs` | theorems on it | proofs |
| `StartUp` | `main`, `NbdOpen` in both processes, `Framework`'s start, the life of the devices | composition |
| `StartUpProofs` | theorems on it | proofs |
| `Plugins` | `MonitorAndLoadCommandFactory` with `DirMonitor`, `Dispatcher`, `Callback`, `DllLoader`, `Factory` and the libraries | composition |
| `PluginsProofs` | theorems on it | proofs |

An operator introduced by the comment `Mutant:` is a plausible bug of the definition
below it. No specification uses it: it shows that a property can fail.

### Striping and Slicer

`StartPosition` and `NextPosition` are the code's `(curr_iot, starting_offset)` and its
advance, `Home` the closed form of a round-robin striping that they are compared with.
`Slicer` has the variables of `Slice`; `Iterate` is one pass of the `for` loop with all
fields of the `DeviceRequest` that differ between fragments, `Return` stores
`m_countSlices`. Header fields are taken modulo `UINT32`.

### Daemon

One variable per piece of shared state, one action per step that another thread can
observe:

- reactor thread: `ManageRequests` (`NbdGetRequest`, the task, `ThreadPool::AddTask`),
  `ReactorReturn` (the local reference of `Framework::AddTask` goes), `ManageReplies`
  (header) and `ManageRepliesData` (data of a READ; the reactor waits for it),
  `ReactorAtEof`;
- worker: `Pop`, then for a request `Slice`, `InsertSlicer`, and per fragment
  `SenderLock`, `SendHeader`, `SendData`; for a reply `Reply`; last `Release`;
- IoT device: `IotReadHeader`, `IotWrite`, `IotSendHeader`, `IotSendData`;
- IoT device failing: `IotFail` closes its connection at any point of its loop and cuts
  what the daemon has not read yet; then `SendFails` (the ignored error of `send`, or SIGPIPE
  on the second one), `ManageRepliesEof` (the header that `ReadAll` did not fill becomes a
  task) and the end of the stream in `ManageRepliesData`;
- kernel (external): `KernelSubmit`, `KernelShutdown`.

Nobody calls `NbdRequestDone`: the deleter of the request's `shared_ptr` does. The
model has the references (`Referenced`): the reactor's until `AddTask` returns, the
queued task's, the running worker's, the slicer's in `m_slicerMap`, and the
`slicer_ptr` of `Splicer::Reply`. `DropReference` answers the kernel when the last one
goes. So "answered once, after the last fragment" is a property of the interleavings,
not of a single line.

Abstractions: a socket is a bounded sequence of messages, with header and data
separate because they are sent by separate calls; a fragment's bytes are one value;
the pool's queue is a set, because all tasks have the same priority and a heap returns
equal elements in no particular order. The uninitialised buffers of `malloc` and
`new char[]` are `Junk`. A write to a socket that the kernel shut down is SIGPIPE,
which the daemon does not handle, and reading at the end of the stream is the endless
loop of `ReadRequest`. Every operation of `g_mutex` in `Splicer` is a single action;
`g_mutex` of `slicer.cpp` is held across two sends and is a variable.

The kernel asks for whole blocks of 1024 bytes: `NbdOpen` sets no block size and the
driver's default is 1024. It sends no FLUSH or TRIM, because `NbdOpen` sets no flags.

A device that is gone is readable for ever and every round of the reactor queues another
reply, up to `MaxEofReads` of them here. Its header is a local of `ManageReplies` that nobody
initialises and that `recv` filled not at all, or in part if the device was cut off within
one: it may say anything. The model does not track those bytes. Such a header is `MadeUp`,
and `Reply` chooses for it any uid and any stretch of blocks (`Targets`), also one that
reaches past the request's buffer. So a made-up reply may

- name a uid that has no slicer, upon which `operator[]` makes a null one and the daemon
  crashes (`null slicer`);
- copy its bytes into the buffer of any request that waits, a WRITE's too, whose fragments
  may still have to be sent: the device then stores what the kernel did not write;
- copy past the end of that buffer (`overwritten`). Nothing can be said of a heap that was
  overwritten, and the model stops the daemon there;
- lower the count of replies of any request: it is answered early, or its count passes 0
  (the code's `size_t` wraps, the model's goes below 0) and it is never answered;
- ask `new` for more than there is (`terminated`).

Before the failure nothing is weakened. After it `BlockDevice` promises much less (`broken`):
an answer says nothing, and a WRITE may store other bytes than the kernel gave; what remains
is that a block changes only by a WRITE for it, once for each, and that no request is answered
twice. Once a copy has left a buffer (`ruined`) nothing is promised. `StreamsFramed` is
divided in the same way: that header and data alternate holds whatever fails, that the data
is the kernel's until a header was made up (`eofReads = 0`).

### StartUp

Two processes run the same `main`; `pc` says where each is. `NbdOpen` is one action per
system call that can fail (`Socketpair`, `Open`, `SetSize`, `Fork`, `SetSock`, the end of
`NBD_DO_IT`), each with its error path, which closes what is open and makes the
constructor of `NBDCommunication` throw. `fds` has the descriptors each process holds;
the end of a stream is seen when no process and no driver holds the other end
(`PeerClosed`, `DriverClosed`). Any process may be killed and the device disconnected at
any time. When `NBD_DO_IT` ends the child returns 0 from `NbdOpen` and goes on through
`main`: it connects to every device, starts a framework, and waits on descriptor 0 until
`assert(nbd_socket > 0)` (`buse.c:134`) aborts it. `DeviceServesDaemon` says when this
second daemon does harm: a device accepts one connection, the first, and that is the
child's only if the disconnect came before the daemon had connected (`early`) or the
daemon is dead. `FrameworkRun` covers the loading of the commands by its two outcomes;
`Plugins` has the detail.

### Plugins

The main thread and the monitor's thread. The locals of `MonitorAndLoadCommandFactory`
go in reverse order, one action per destructor, `~DirMonitor` in three: it closes the
descriptor, resets `m_running` and joins. The monitor's thread is `MonitorLoop`,
`MonitorRead` (one or more events, of which the first is dispatched), `Notify`, `Load`,
`AddBegin` and `AddEnd` per key, `StoreHandle`, `NotifyReturn`. The files of the
directory are the new library, copies of it and one that is no library; others may
create, write and delete them (`FileEvent`). An exception on the monitor's thread ends
the process (`terminated`); a `Create` that overlaps an insertion, or a `Notify` whose
callback was freed, may crash it. `misused` records every object touched after its
destruction, `raced` that `~Callback` ran while `Notify` was in the callback. Nothing in
the code excludes that race; `NoUseAfterDestroy` says that it is the only one.

### WaitableQueue

Each action is one critical section of `m_mutex`, or what happens between two of them:
`Push` and its later `NotifyOne`; `Pop` up to its return or its first wait; `Recheck`
of a woken thread; `SpuriousWakeup`; `Timeout` and `ReturnFalse`. libstdc++ decides by
the clock, with the mutex held again, whether `wait_for` timed out. A thread that was
notified may thus report a timeout: `NotifiedTooLate` swallows the notification, and
the history variable `swallowed` counts these. The daemon has no timed consumers; a
client with both kinds should know.

### ThreadPool

One client calls `Run`, `Pause` and `SetNumOfThreads` (nothing protects
`m_numOfThreads`), any thread calls `AddTask`. A call is a sequence of steps: each
critical section, each push, each notification and each join is one. The queue is
counted by kind (suicides before pauses before user tasks by priority). `Run`, `Pause`
and `DecreaseNumOfTheads` unlock `m_mutex` by hand and their `lock_guard` unlocks it
again on return: undefined, and in the build a default pthread mutex is freed whoever
holds it. `SecondUnlock` does that. `PauseTask1` tests its flag and goes to sleep in
two steps, which the mutex normally makes one.

### Reactor

One thread, so one program counter `at`. A round of `Run` is `WaitForEvents`, then
`CallHandler` and `HandlerReturn` per event, then `RoundEnds`. The registration is kept
three times (`m_fdset[0]`, `m_registered_fds` with `m_maxfd`, `m_call_backs`) and the
ready set a fourth (`m_fdset[1]`, here `selected`). A handler may register and deregister
any descriptor in the middle of a round, except that it does not deregister itself: that
would destroy the `Function` that is running, whose code is not in the repository. Each
handler reads one message of its descriptor. `Run` is left by `SelectFails` or when
`m_call_backs.at` throws. `served` and `dropped` are histories.

### Asyncinjection

Users' threads and timer threads take the same steps: `ExecuteDone` or `ExecuteAgain`
(what the functor said), `GetInstance` and `Construct` (the test without and with
`s_mutex`), `Schedule` up to `timer_settime`, and `push_back` as a read (`PushBegin`) and
a write (`PushEnd`). A timer fires once and its thread has its name. The data race on
`m_timerIds` gives what libstdc++ gives: a slot written twice and an end put back, or a
buffer freed twice (`died`). `timer_create` fails after `MaxTimers`, because no timer is
deleted before exit (`ScheduleThrows`); `timer_settime` fails for an interval below 0 and
leaves the new timer neither armed nor recorded (`SetTimeThrows`). The exception ends a
timer's thread and with it the process, while a user's thread gets it and the object is
destroyed by the language. `Cleanup` is `exit`
on a user's thread; the other threads go on, and a `push_back` after it crashes.
`s_isReady` is a plain `bool`: stores are taken in program order, as on x86-64.

## 3. Runs

| Run | Instance | Shows |
|---|---|---|
| `slicer` | all aligned requests on 8 fragments of 2 bytes, 1-4 devices | `FragmentsAtHome`, `WithinStorage`, `CountsTheSlices` |
| `daemon` | 2 requests of 1-2 fragments, overlapping, READ or WRITE, or one and a disconnect; 2 workers, 2 devices, one of which may fail, sockets of 2 messages | `NoNullSlicer`, `StreamsFramed`, refinement of `BlockDevice` |
| `daemon_liveness` | 2-fragment requests, sockets of 1 message | `EveryRequestAnswered` |
| `queue` | 2 producers, 2 consumers, 2 timed ones, 4 items | `NoLostWakeup`, refinement of `BlockingQueue`, `DeliversAll` |
| `reactor` | 3 descriptors, 2 messages unread on each, 4 registrations and deregistrations | `SelectSeesAll`, `HandlerFound`, `RoundServesReady`, `NoStarvation` |
| `async` | 2 users' threads, 3 objects, one with interval 0, one below 0, 3 timers | `NoUseAfterDelete`, `RunsAlone`, `OneScheduler`, `TimersRecorded`, `CalledAgain` |
| `startup` | 2 devices; every failing call, kill and disconnect | `DescriptorsClosed`, `DeviceServesDaemon`, `PeerDeathSeen`, `EndSeen` |
| `plugins` | 2 libraries, a text file, 2 events by others, 2 attempts, reads of up to 2 events, both libraries' constructors | `NoUseAfterDestroy`, `CodeMapped`, `ReturnsClean`, `LibraryLoaded`, `FunctionReturns` |
| `pool_pause` | 2 threads; Run, Pause and resizing of a running pool, 4 calls; one task throws | `PausedStartsNothing`, `ThreadsAccountedFor` |
| `pool_resize` | 2 threads, resized to 0, 1 or 3, running or paused by the constructor, 2 calls | `CallsReturn`, `RunStartsTasks` |
| `pool_shrink_paused` | 3 threads paused, shrunk to 2 | violated: a task starts in a paused pool |
| `pool_lost_wakeup` | 1 thread, Run, Pause, Run | violated: Run leaves a worker asleep |

The refinement of `BlockDevice` says: each request takes effect on each of its blocks
once, is answered at most once and only after its last block, and a READ is answered
with exactly what its fragments found; with a device lost, only what `Daemon` above says.
The variable `effect` is a history: no code reads it. `BlockDevice` is atomic per block and not per request, as the code is.

Bounds. Two requests, two workers and two devices give every pair of threads in each
of the critical sections; a request of two fragments crosses devices and has replies
processed at the same time; a disconnect and one other request give every order of the
shutdown and the answer. Sockets of one message make every `send` block that can. For the striping,
8 fragments over up to 4 devices start on every device and wrap at least twice; the
theorems remove the bound. The pool's instances hold the smallest pools where a
resize goes up and down; `MaxCalls` bounds the client's calls. Three descriptors are a
lower, a middle and a highest one; four changes allow one to be deregistered and come
back within a round. Three timers let two objects be scheduled, one of them again, and
the limit be reached with a callback running. One failing device out of two leaves a
request with one fragment lost and one served; one made-up header is enough to answer it, to
overwrite the other request's buffer while its fragments are being sent, to crash the daemon
or to leave a buffer.
Two devices are one the daemon has reached and one it has not. Two attempts for the
code's ten let each command be asked for before and after the library registers it;
with two events by others an event can come before, between and behind the linker's two
in one read of two, and a library can be loaded twice. The theorems remove these bounds.

`CHECK_DEADLOCK FALSE` is said where the system may stop: `Slice` returns; a `select` with
nothing to read waits for ever; a program of `Asyncinjection`s ends, or dies; both
processes of `StartUp` may be dead, or wait for the kernel; and a
resize of a pool may wait for ever for a thread that a throwing task ended (`pool_pause`). Elsewhere `Stop` and `Rest`
say when the system may rest, and everything else that stops is an error.

Fairness. `Daemon`: weak fairness of each reactor handler, each worker and each device.
One wake-up of the reactor serves every ready descriptor, so no handler starves; the
threads are the operating system's. `WaitableQueue`: weak fairness of notifications,
consumers and of a timed `Pop` that returns; none of producers or spurious wakeups.
`DeliversAll` counts on a thread whose `Pop` timed out to ask again, as a client's loop
does. `Reactor`: weak fairness of its thread (handlers return); nobody has to write, and
`select` may fail at any time. `Asyncinjection`: weak fairness of every thread (functors
return) and of armed timers; none of calls or of exit. `ThreadPool`: weak fairness of
workers, strong fairness of taking a mutex that becomes free again and again; no
fairness of calls or of spurious wakeups. `StartUp`: weak fairness of the processes, the
devices, of the driver that is at the end of its stream and of the parent's reactor; none
of kills, disconnects or input on the child's descriptor 0. `Plugins`: weak fairness of
both threads (the compiler returns); none of events by others. `daemon_liveness` has no
failing device: a request whose fragment is lost is not answered.

### Disagreements between the code and its tests

The two violations concern `thread_pool_test2.cpp`, `SetTest`, which pauses a pool of six
threads, shrinks it to four and to one (129-131), adds a task and expects it not to run before
`Run` and to run after it (132-143):

- `pool_shrink_paused`: the loops at `thread_pool.cpp:155` and `171` push `target - kill` pause
  tasks instead of `target`, so that a paused pool that shrinks starts tasks;
- `pool_lost_wakeup`: the double unlock (48 and 56) can lose the wakeup of `Run`.

The same test also makes a call that may never return, the second shrink (131). It puts down
again the flag that the first shrink raised, and a worker on its way out of `PauseTask1` that
has not tested it yet sleeps on, as does one that takes a `PauseTask1` that was still queued;
its suicide task is never taken, and `m_zombie_queue.Pop` (186) waits for ever. So it is not
true that every call returns. `CallsReturn` says how far it is: without throwing tasks `Run`,
`Pause` and growing always return, and so does every shrink that begins on a settled pool
(`Settled`): no worker is in a pause task, and none is queued, for another flag than the one
that the shrink raises, and a worker between its test and its wait holds the mutex. A pool
that was never paused, or whose workers all sleep in the one pause task or were all released
from it, is settled. `pool_resize` shrinks a paused pool twice, and the second shrink, from one
thread to none, finds it settled or not; for each part that is left out of `Settled` TLC finds
a shrink that hangs. Calls of `Pause` are no part of that run, because of `RunStartsTasks`
(below); with them, all this is also so for two threads, `Sizes = {0, 1, 2}`, `Calls = {"Run",
"Pause", "ResizePaused"}` and `MaxCalls = 3`.

The passing runs of the pool avoid what the violations show: `pool_pause` resizes a pool only
while it runs; `pool_resize` asks of a paused pool that shrinks only what it does after `Run`,
not whether it stays paused, and has no call of `Pause` but the one of growing, as that is how
a wakeup gets lost.

## 4. Proofs

`SlicerProofs`, for every fragment size, device size, number of devices and request
(assumptions: the sizes are positive, `DeviceSize <= StorageSize <= UINT32`):

- `HomeIsInjective`: two blocks never share a cell;
- `SliceFollowsStriping`, `SliceStaysWithinStorage`, `SliceCounts`, `TypeCorrect`.

`FragmentsAtHome` is not inductive: it speaks of the fragments already made, and the
next one depends on where the walk is. `WalkInv` adds that: `curr` is the cell of
fragment `first + fragment_counter`, and the vector has `fragment_counter` fragments.
`IInv == TypeOK /\ WalkInv /\ FragmentsAtHome /\ WithinStorage` is inductive. The heart
is `DivisionStep`: to advance the remainder modulo n and carry when it wraps to 0 is
to add one.

`WaitableQueueProofs`, for any finite sets of threads:

- `WakeupsAreNotLost`: `NoLostWakeup`, with `IInv == TypeOK /\ OnePlace /\ NoLostWakeup`.
  `OnePlace` is needed because a thread that moves from `waiting` to `woken` must add
  one to the cardinality of `woken`;
- `ImplementsQueue`: every step is a `Put`, a `Take` or a stutter of `BlockingQueue`;
- `TypeCorrect`.

`ReactorProofs`, for any finite set of descriptors, any bounds and any order of calls:

- `SelectComplete`, `RunFindsHandlers`, `RoundComplete`, `TypeCorrect`.

`HandlerFound` and `RoundServesReady` need to know how a round stands: `RoundAt(n, k)` says
that the `k` events that `ready_fds` still counts are exactly the selected descriptors
from `n` on, that each of them has something to read and a handler, or lost it in this
round, and that the others were served. `RegistryInv` (the copies agree) carries it from
`select` to the dispatch. The step is `NextEvent`: while the count is positive the search
finds the least descriptor left (`LeastElement`, from the well-foundedness of `<`), and
beyond it one less is left. `TypeOK` needs both: no handler runs with nothing to read.

`AsyncinjectionProofs`, for any objects, users' threads and number of timers:

- `ObjectsOutliveUse`, `FunctorsRunAlone`, `SchedulerIsSingle`, `ArmedTimersOnRecord`,
  `TypeCorrect`.

The inductive invariant is that an object has one owner, the thread that executes it or
the timer armed for it (`OneOwner`, `ArmedForAlive`), and that a timer that did not fire
has no thread (`Unfired`). `Schedule` hands the object over in the step that arms the
timer: nothing after it in `schedule` or `Execute` touches the object.
`ArmedTimersOnRecord` needs `SlotsInv`: while no two `push_back`s overlapped, the slots in
use hold different timers, and none that a thread is about to push.

`StartUpProofs`, for any number of devices, any failing call and any order of events
(assumptions: `NumOfIots` is a natural number, `Nobody` is no process):

- `NbdOpenReleases`, `DevicesGetTheDaemon`, `TypeCorrect`.

`FdInv` gives the descriptors at every point of `NbdOpen`, from which those at its end
follow. `DeviceServesDaemon` needs the order of connections: `ChildComesLast` (a child
past `NBD_DO_IT` means that the daemon has connected to all) and `ParentFirst` (a device
the daemon connected to serves it or has it at the head of its backlog; one it did not
connect to has no connection).

`PluginsProofs`, for any libraries, events, buffer and number of attempts:

- `ObjectsOutliveCallbacks`, `CommandsInMappedCode`, `LeavesNothingBehind`,
  `NewLibraryIsLoaded`, `TypeCorrect`.

The invariant says by the point of the main thread which objects exist (`ObjectInv`) and
by that of the monitor's what it holds (`ThreadInv`); that whatever has a handle, a
creator or a command is mapped while the loader exists (`MappedInv`); that the linker's
count is the number of loads, and every loaded path but the one being loaded has a handle
(`CountInv`); and where the new library's event is: queued, skipped, being handled, or
loaded (`DeliveryInv`). Each rests on `ObjectInv`: a load that begins finds the callback
subscribed.

`ThreadPoolProofs`, for any finite set of threads, any tasks and any number of calls:

- `EveryThreadAccountedFor` and `TypeCorrect`, whatever the client calls;
- `PauseHoldsBackTasks`: `PausedStartsNothing`, on the hypothesis that no paused pool is
  resized (`"ResizePaused" \notin Calls`). Without it the property is false: this is what
  `pool_shrink_paused` shows.

`ThreadsAccountedFor` speaks of a client between two calls only. `CountInv` says for each
point inside a call how many threads exist and how many are doomed (a suicide task waits
for them, or they are zombies). The second result rests on `EnoughPauses`: while the pool
is paused the queue holds a pause task for every thread that could take one of the users',
and pause tasks come first. `OneFlagInv` says that without a resize of a paused pool no
thread waits on the second flag, and no pause task for it exists.

`DaemonProofs`, for any requests, workers, devices, fragment size and socket capacity,
with any set of devices that fail (assumptions: those of `Daemon`; the requests are those
the driver makes, whole blocks within the device):

- `TypeCorrect`, `Framing` (`StreamsFramed`), `SlicerAlwaysFound` (`NoNullSlicer`);
- `ImplementsBlockDevice`: every step maps to a step of `BlockDevice` or to a stutter, made-up
  replies included: what is proved is all of a block device while the devices are up, and the
  little that `broken` and `ruined` leave of it afterwards;
- `NoWrap` and `BlockDeviceWhileUidsSuffice`.

The first four are stated of `Spec /\ []UidsLast`: `Slice` has not given more uids than a
`uint32_t` tells apart. The code does nothing at the wrap: a new slicer would evict one
that still waits under the same uid, and a reply to the old request would be copied into
the buffer of the new one. `NoWrap` proves the hypothesis for at most 2^32 requests, and
`BlockDeviceWhileUidsSuffice` puts the two together. Beyond that nothing is proved.

The inductive invariant `Inv` is built in layers, each of which uses the ones before:

- `TypeInv`; `ServeInv`: a request is in the socket, in one task, or with one worker, and
  has its buffer from then on; `UidInv`: uids are different and the map leads to the
  request with the uid;
- `HeaderInv`: every header anywhere but a made-up one, which needs `eofReads > 0` and with
  it a device that failed (`MadeUpWhenBroken`), is that of a fragment of a sliced request that
  was sent, and is at the device of its home; with the striping (`Walk`, `FragmentAtHome`)
  this gives every offset its bounds;
- `FrameInv`, `OnceInv`, `BufferInv`: a header of a WRITE at the end of a stream belongs
  to the worker that holds `g_mutex` and is about to send its data, which is still the
  kernel's unless a header was made up;
- `UniqueInv`: while the devices are up a header that was not replied to is in one of six
  places, and there once. `SlicerInv`: `m_countSlices` is the number of fragments not yet
  sent or in one of those places, and while there is one the slicer is kept. So `Reply`
  finds it, and the reply that brings the count to 0 is the last. `NoNullSlicer` alone
  says nothing of that and is far from inductive;
- `EffectInv`: a fragment takes effect once, after it was sent. `TellInv`: while the
  devices are up a reply, its task and the buffer hold what the fragment found. `RefInv`:
  somebody holds a reference to a request until it is answered, to a disconnect for ever.

For the refinement (`StepMaps`) most steps are hidden. `IotWrite` and `IotSendData` are
`WriteBlock` and `ReadBlock`: the block was not done (`Untaken`), the bytes are the
request's or the device is broken (`FrameInv`), and no other block has the same home (`HomeInjective`). A dropped
reference is an `Answer` if it was the last: `AllFinished` derives from `SlicerInv`,
`TellInv` and `RefInv` that then every block is done and the buffer of a READ is complete.
`IotFail` is `Break`, and a `Reply` that copies out of a buffer is `Ruin` (`ReplyDoes`).

Only model-checked: all liveness (`EveryRequestAnswered`, `DeliversAll`, `CallsReturn`,
`RunStartsTasks`, `NoStarvation`, `CalledAgain`, `PeerDeathSeen`, `EndSeen`,
`FunctionReturns`), as liveness under fairness is out of the prover's reach. Every
invariant of the passing runs, and both refinements, are proved.

## 5. Not modelled, and the plan

Not modelled:

- `Logger`: its header declares the worker thread a reference that the constructor does
  not initialise, so the class does not compile; nothing uses it. Its queue is
  `WaitableQueue`.
- The vendored BUSE sources, `framework/reactor/unused` and the drafts: not linked.
- What nothing in the daemon calls: `Slicer::Merge`, `SetFdVector`, `GetVector`,
  `DllLoader::unload`, `Factory::Set`, `Callback::OnDispatcherDeath`.
- `read` or `malloc` failing on a request of an open nbd socket.
- Requests that are no multiple of 1024 bytes: the rest is lost and one below 1024 is
  never answered, but the driver does not send them with the block size it has.
- Singletons that use one another at exit (`singleton.cpp` tries them out); the daemon's
  do not.
- Terminal output, the argument handling of `main`, addresses and ports.

What is left to prove:

1. The data path beyond 2^32 requests, on a weaker hypothesis than `UidsLast`: that no
   slicer, header or reply with the uid is left when `Slice` gives it again.
2. That a pool shrunk while it is paused still accounts for its pause tasks as far as the
   code does, to say exactly how many tasks of the users may start.
