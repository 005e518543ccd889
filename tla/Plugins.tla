-------------------------------- MODULE Plugins --------------------------------
(***************************************************************************)
(* How the framework gets its commands: MonitorAndLoadCommandFactory       *)
(* (framework/framework/framework.cpp), which Framework::Run calls before  *)
(* anything else, with the parts it is made of: a DirMonitor with its      *)
(* thread and its three Dispatchers, a Callback, a DllLoader and the       *)
(* Factory, a Singleton that outlives it.                                  *)
(*                                                                         *)
(* The main thread constructs these objects as locals, has the library     *)
(* compiled into the watched directory, asks the Factory for the commands  *)
(* a few times, and destroys the locals in reverse order.  Meanwhile the   *)
(* monitor's thread reads inotify events and notifies the dispatcher of    *)
(* the event; the callback loads the file, and the library's constructor   *)
(* Func enters its creators in the Factory.  Nothing is protected by a     *)
(* mutex.  An exception on the monitor's thread ends the process.          *)
(***************************************************************************)
EXTENDS Integers, Sequences

CONSTANTS
  Library,           \* libcommand_library.so, the file the compiler writes
  Libraries,         \* the files that dlopen loads: the library, copies of it
  Text,              \* a file of the directory that is no library
  maxRetryAttempts,
  BufferEvents,      \* events that one read may return
  MaxEvents,         \* bound: events others cause in the directory
  None

Keys        == {"READ", "WRITE"}
Files       == Libraries \cup {Text}
Dispatchers == {"creation", "deletion", "modify"}
Events      == [mask : Dispatchers \cup {"other"}, file : Files]
Event(mask, f) == [mask |-> mask, file |-> f]

ASSUME FilesAssumption ==
  /\ Library \in Libraries /\ Text \notin Libraries
  /\ None \notin Files \cup Dispatchers
ASSUME BoundsAssumption ==
  /\ maxRetryAttempts \in Nat \ {0} /\ BufferEvents \in Nat \ {0}
  /\ MaxEvents \in Nat

VARIABLES
  main, retryCount,      \* the main thread, in MonitorAndLoadCommandFactory
  commands,              \* key -> readCommand, writeCommand: its library
  alive,                 \* the objects that exist
  monitor, event,        \* the monitor's thread, and the event it handles
  m_running, m_fd,       \* DirMonitor; m_fd: the descriptor is open
  queue, emitted,        \* inotify's queue
  m_subscribers,         \* dispatcher -> is the callback in its set
  m_dispatcher,          \* the callback's dispatcher, or None
  m_handles,             \* DllLoader: the paths it has a handle of
  opens,                 \* library -> the dynamic linker's count of it
  Func,                  \* the keys a library's constructor Adds, in order
  toAdd, inserting,      \* the keys still to Add, the one being inserted
  m_creators,            \* Factory: key -> the library of its creator
  status,                \* "up", "terminated" (an exception), "crashed"
  linked, skipped, loads, raced, misused        \* history

mainVars    == <<main, retryCount, commands>>
monitorVars == <<monitor, event>>
watchVars   == <<m_running, m_fd, queue, emitted, skipped>>
objectVars  == <<alive, m_subscribers, m_dispatcher>>
loaderVars  == <<m_handles, opens, loads>>
factoryVars == <<Func, toAdd, inserting, m_creators>>
history     == <<linked, raced, misused>>
vars == <<mainVars, monitorVars, watchVars, objectVars, loaderVars, factoryVars,
          history, status>>

(***************************************************************************)
(* The constructor of command_library.cpp, whose Adds are commented out,   *)
(* and that of library2.cpp.                                               *)
(***************************************************************************)
Constructors == {<<>>, <<"READ", "WRITE">>}

Init ==
  /\ main = "construct" /\ retryCount = 0
  /\ commands = [k \in Keys |-> None]
  /\ alive = {}
  /\ monitor = "none" /\ event = None
  /\ m_running = FALSE /\ m_fd = FALSE
  /\ queue = <<>> /\ emitted = 0
  /\ m_subscribers = [d \in Dispatchers |-> FALSE]
  /\ m_dispatcher = None
  /\ m_handles = {} /\ opens = [f \in Libraries |-> 0]
  /\ Func \in Constructors /\ toAdd = <<>> /\ inserting = None
  /\ m_creators = [k \in Keys |-> None]
  /\ status = "up"
  /\ linked = FALSE /\ skipped = {} /\ raced = FALSE /\ misused = {}
  /\ loads = [f \in Libraries |-> 0]

Up == status = "up"
Goto(from, to) == Up /\ main = from /\ main' = to
Use(objects) == misused' = misused \cup (objects \ alive)

(***************************************************************************)
(* The directory: others create, write and delete files; "other" is the    *)
(* mask of a new subdirectory or of an overflow.                           *)
(***************************************************************************)
Emit(e) == queue' = Append(queue, e)

FileEvent(e) ==
  /\ Up /\ m_fd /\ emitted < MaxEvents
  /\ Emit(e) /\ emitted' = emitted + 1
  /\ UNCHANGED <<mainVars, monitorVars, objectVars, loaderVars, factoryVars,
                 history, m_running, m_fd, skipped, status>>

-----------------------------------------------------------------------------
(***************************************************************************)
(* The main thread.  The constructor of DirMonitor throws when inotify     *)
(* fails; nobody catches it.                                               *)
(***************************************************************************)
Construct ==
  /\ \/ /\ Goto("construct", "subscribe")
        /\ alive' = {"dispatchers", "loader", "callback"}
        /\ m_fd' = TRUE /\ m_running' = TRUE /\ monitor' = "loop"
        /\ UNCHANGED status
     \/ /\ Up /\ main = "construct" /\ status' = "terminated"
        /\ UNCHANGED <<main, alive, m_fd, m_running, monitor>>
  /\ UNCHANGED <<loaderVars, factoryVars, history, retryCount, commands, event,
                 queue, emitted, skipped, m_subscribers, m_dispatcher>>

SetDispatcher(d) ==
  /\ m_dispatcher' = d
  /\ m_subscribers' = [m_subscribers EXCEPT ![d] = TRUE]

SubscribeTo(d) ==
  /\ Goto("subscribe", "compile")
  /\ SetDispatcher(d)
  /\ UNCHANGED <<monitorVars, watchVars, loaderVars, factoryVars, history,
                 retryCount, commands, alive, status>>

\* Mutant: the wrong flag.
SubscribeToCreation == SubscribeTo("creation")

Subscribe == SubscribeTo("modify")

(***************************************************************************)
(* system(): the linker creates the library, writes and closes it, or the  *)
(* compilation fails, which is only reported.                              *)
(***************************************************************************)
CompileUnchanged ==
  UNCHANGED <<monitorVars, objectVars, loaderVars, factoryVars, retryCount,
              commands, m_running, m_fd, emitted, skipped, status, raced,
              misused>>

CompileFails ==
  Goto("compile", "create") /\ UNCHANGED <<queue, linked>> /\ CompileUnchanged

LinkerCreates ==
  /\ Goto("compile", "link") /\ Emit(Event("creation", Library))
  /\ UNCHANGED linked /\ CompileUnchanged

LinkerCloses ==
  /\ Goto("link", "create") /\ Emit(Event("modify", Library))
  /\ linked' = TRUE /\ CompileUnchanged

(***************************************************************************)
(* Factory::Create, and the retry after out_of_range.  A lookup that       *)
(* overlaps an insertion may find the table in between, or a creator that  *)
(* is still null.                                                          *)
(***************************************************************************)
\* Mutant: one attempt too many.
MayTryOnceMore == retryCount <= maxRetryAttempts

MayTry == retryCount < maxRetryAttempts

Create(k, from, to) ==
  /\ MayTry
  /\ \/ /\ m_creators[k] # None
        /\ Goto(from, to)
        /\ commands' = [commands EXCEPT ![k] = m_creators[k]]
        /\ UNCHANGED <<retryCount, status>>
     \/ /\ m_creators[k] = None
        /\ Goto(from, "create")
        /\ retryCount' = retryCount + 1
        /\ UNCHANGED <<commands, status>>
     \/ /\ m_creators[k] = None /\ inserting # None
        /\ Up /\ main = from /\ status' = "crashed"
        /\ UNCHANGED mainVars
  /\ UNCHANGED <<monitorVars, watchVars, objectVars, loaderVars, factoryVars,
                 history>>

CreateRead  == Create("READ", "create", "createWrite")
CreateWrite == Create("WRITE", "createWrite", "~commands")

GiveUp ==
  /\ retryCount = maxRetryAttempts
  /\ Goto("create", "~commands")
  /\ UNCHANGED <<monitorVars, watchVars, objectVars, loaderVars, factoryVars,
                 history, retryCount, commands, status>>

-----------------------------------------------------------------------------
(***************************************************************************)
(* The locals go in reverse order of their construction.                   *)
(***************************************************************************)

\* Mutant: the commands outlive the function.
KeptCommands == commands

NoCommands == [k \in Keys |-> None]

DestroyCommands ==
  /\ Goto("~commands", "~callback")
  /\ commands' = NoCommands
  /\ UNCHANGED <<monitorVars, watchVars, objectVars, loaderVars, factoryVars,
                 history, retryCount, status>>

(***************************************************************************)
(* ~Callback unsubscribes from the dispatcher it was given, and does not   *)
(* ask whether there is one.  raced: Notify was in the callback.           *)
(***************************************************************************)
InCallback == monitor \in {"load", "func", "adding", "store", "return"}

CallbackGoes ==
  /\ Goto("~callback", "~loader")
  /\ alive' = alive \ {"callback"}
  /\ raced' = (raced \/ InCallback)
  /\ UNCHANGED <<monitorVars, watchVars, loaderVars, factoryVars, retryCount,
                 commands, m_dispatcher, status, linked>>

\* Mutant: the call in the destructor is commented out, like the lines above it.
DestroyCallbackOnly == CallbackGoes /\ UNCHANGED <<m_subscribers, misused>>

DestroyCallback ==
  /\ CallbackGoes
  /\ Use(IF m_dispatcher = None THEN {"dispatcher"} ELSE {"dispatchers"})
  /\ m_subscribers' = [m_subscribers EXCEPT ![m_dispatcher] = FALSE]

\* Mutant: the destructor forgets to close the libraries.
OpenAsBefore(f) == opens[f]

Closed(f) == IF f \in m_handles THEN opens[f] - 1 ELSE opens[f]

DestroyLoader ==
  /\ Goto("~loader", "~monitor")
  /\ alive' = alive \ {"loader"}
  /\ m_handles' = {}
  /\ opens' = [f \in Libraries |-> Closed(f)]
  /\ UNCHANGED <<monitorVars, watchVars, factoryVars, history, retryCount,
                 commands, m_subscribers, m_dispatcher, loads, status>>

DestroyUnchanged ==
  UNCHANGED <<monitorVars, loaderVars, factoryVars, history, retryCount,
              commands, m_subscribers, m_dispatcher, status>>

MonitorClose ==
  /\ Goto("~monitor", "stop")
  /\ m_fd' = FALSE /\ queue' = <<>>
  /\ UNCHANGED <<alive, m_running, emitted, skipped>> /\ DestroyUnchanged

\* Mutant: m_running is not reset.
MonitorGoesOn ==
  /\ Goto("stop", "join")
  /\ UNCHANGED <<watchVars, alive>> /\ DestroyUnchanged

MonitorStop ==
  /\ Goto("stop", "join")
  /\ m_running' = FALSE
  /\ UNCHANGED <<alive, m_fd, queue, emitted, skipped>> /\ DestroyUnchanged

(***************************************************************************)
(* join, and the members; ~Dispatcher calls every subscriber it has left.  *)
(***************************************************************************)
MonitorJoin ==
  /\ monitor = "ended"
  /\ Goto("join", "returned")
  /\ alive' = alive \ {"dispatchers"}
  /\ Use(IF \E d \in Dispatchers : m_subscribers[d] THEN {"callback"} ELSE {})
  /\ UNCHANGED <<monitorVars, watchVars, loaderVars, factoryVars, retryCount,
                 commands, m_subscribers, m_dispatcher, status, linked, raced>>

Main ==
  \/ Construct \/ Subscribe \/ CompileFails \/ LinkerCreates \/ LinkerCloses
  \/ CreateRead \/ CreateWrite \/ GiveUp
  \/ DestroyCommands \/ DestroyCallback \/ DestroyLoader
  \/ MonitorClose \/ MonitorStop \/ MonitorJoin

-----------------------------------------------------------------------------
(***************************************************************************)
(* The monitor's thread, DirMonitor::MonitorThread.                        *)
(***************************************************************************)
At(from) == Up /\ monitor = from

MonitorLoop ==
  /\ At("loop")
  /\ monitor' = IF m_running THEN "read" ELSE "ended"
  /\ UNCHANGED <<mainVars, watchVars, objectVars, loaderVars, factoryVars,
                 history, event, status>>

(***************************************************************************)
(* The descriptor does not block: without an event, or closed, read        *)
(* returns -1.  Otherwise it returns events as the buffer holds; the       *)
(* first one is handled and the others are dropped.                        *)
(***************************************************************************)
MonitorRead ==
  /\ At("read")
  /\ \/ /\ queue = <<>>
        /\ monitor' = "loop" /\ UNCHANGED <<event, queue, skipped, status>>
     \/ \E n \in 1 .. BufferEvents :
        /\ n <= Len(queue)
        /\ event' = Head(queue)
        /\ queue' = SubSeq(queue, n + 1, Len(queue))
        /\ skipped' = skipped \cup {queue[j] : j \in 2 .. n}
        /\ IF Head(queue).mask \in Dispatchers
             THEN monitor' = "notify" /\ UNCHANGED status
             ELSE status' = "terminated" /\ UNCHANGED monitor
  /\ UNCHANGED <<mainVars, objectVars, loaderVars, factoryVars, history,
                 m_running, m_fd, emitted>>

Notify ==
  /\ At("notify")
  /\ IF m_subscribers[event.mask]
       THEN monitor' = "load" /\ Use({"callback", "loader"})
       ELSE monitor' = "loop" /\ UNCHANGED misused
  /\ UNCHANGED <<mainVars, watchVars, objectVars, loaderVars, factoryVars,
                 event, status, linked, raced>>

(***************************************************************************)
(* DllLoader::load.  The first dlopen of a path maps the library and runs  *)
(* its constructor; further ones only count.                               *)
(***************************************************************************)
Load ==
  /\ At("load")
  /\ IF event.file \in Libraries
       THEN LET first == opens[event.file] = 0 IN
            /\ opens' = [opens EXCEPT ![event.file] = @ + 1]
            /\ loads' = [loads EXCEPT ![event.file] = @ + 1]
            /\ toAdd' = IF first THEN Func ELSE <<>>
            /\ monitor' = IF first /\ Func # <<>> THEN "func" ELSE "store"
            /\ UNCHANGED status
       ELSE status' = "terminated" /\ UNCHANGED <<opens, loads, toAdd,
                                                  monitor>>
  /\ UNCHANGED <<mainVars, watchVars, objectVars, history, event, m_handles,
                 Func, inserting, m_creators>>

(***************************************************************************)
(* Func Adds its creators; each insertion takes a while.                   *)
(***************************************************************************)
AddUnchanged ==
  UNCHANGED <<mainVars, watchVars, objectVars, loaderVars, history, event>>

AddBegin ==
  /\ At("func")
  /\ IF m_creators[Head(toAdd)] = None
       THEN monitor' = "adding" /\ inserting' = Head(toAdd) /\ UNCHANGED status
       ELSE status' = "terminated" /\ UNCHANGED <<monitor, inserting>>
  /\ UNCHANGED <<Func, toAdd, m_creators>> /\ AddUnchanged

AddEnd ==
  /\ At("adding")
  /\ m_creators' = [m_creators EXCEPT ![inserting] = event.file]
  /\ inserting' = None
  /\ toAdd' = Tail(toAdd)
  /\ monitor' = IF Tail(toAdd) = <<>> THEN "store" ELSE "func"
  /\ UNCHANGED <<Func, status>> /\ AddUnchanged

StoreHandle ==
  /\ At("store")
  /\ monitor' = "return"
  /\ Use({"loader"})
  /\ m_handles' = IF "loader" \in alive THEN m_handles \cup {event.file} ELSE m_handles
  /\ UNCHANGED <<mainVars, watchVars, objectVars, factoryVars, event, opens,
                 loads, status, linked, raced>>

(***************************************************************************)
(* The for_each of Notify goes on from the node of the callback, which     *)
(* UnSubscribe may have freed.                                             *)
(***************************************************************************)
NotifyReturn ==
  /\ At("return")
  /\ Use({"callback"})
  /\ \/ monitor' = "loop" /\ UNCHANGED status
     \/ "callback" \notin alive /\ status' = "crashed" /\ UNCHANGED monitor
  /\ UNCHANGED <<mainVars, watchVars, objectVars, loaderVars, factoryVars,
                 event, linked, raced>>

MonitorThread ==
  \/ MonitorLoop \/ MonitorRead \/ Notify \/ Load \/ AddBegin \/ AddEnd
  \/ StoreHandle \/ NotifyReturn

-----------------------------------------------------------------------------
Stop == (main = "returned" \/ ~Up) /\ UNCHANGED vars

Next == (\E e \in Events : FileEvent(e)) \/ Main \/ MonitorThread \/ Stop

Spec == Init /\ [][Next]_vars

(***************************************************************************)
(* Both threads are scheduled; a compilation ends.                         *)
(***************************************************************************)
FairSpec == Spec /\ WF_vars(Main) /\ WF_vars(MonitorThread)

-----------------------------------------------------------------------------
MainAt == {"construct", "subscribe", "compile", "link", "create", "createWrite",
           "~commands", "~callback", "~loader", "~monitor", "stop", "join",
           "returned"}
MonitorAt == {"none", "loop", "read", "notify", "load", "func", "adding", "store",
              "return", "ended"}
Locals == {"dispatchers", "loader", "callback"}

TypeOK ==
  /\ main \in MainAt /\ retryCount \in 0 .. maxRetryAttempts
  /\ commands \in [Keys -> Libraries \cup {None}]
  /\ alive \subseteq Locals
  /\ monitor \in MonitorAt /\ event \in Events \cup {None}
  /\ m_running \in BOOLEAN /\ m_fd \in BOOLEAN
  /\ queue \in Seq(Events) /\ emitted \in 0 .. MaxEvents
  /\ m_subscribers \in [Dispatchers -> BOOLEAN]
  /\ m_dispatcher \in Dispatchers \cup {None}
  /\ m_handles \subseteq Libraries
  /\ opens \in [Libraries -> Nat] /\ loads \in [Libraries -> Nat]
  /\ Func \in Constructors /\ toAdd \in Seq(Keys) /\ inserting \in Keys \cup {None}
  /\ m_creators \in [Keys -> Libraries \cup {None}]
  /\ status \in {"up", "terminated", "crashed"}
  /\ linked \in BOOLEAN /\ skipped \subseteq Events
  /\ raced \in BOOLEAN /\ misused \subseteq Locals \cup {"dispatcher"}

(***************************************************************************)
(* Neither thread touches an object that was destroyed, nor a dispatcher   *)
(* that is null, unless ~Callback ran while Notify was in the callback:    *)
(* once the callback has unsubscribed, no later event reaches the loader,  *)
(* and the dispatchers outlive the callback.                               *)
(***************************************************************************)
NoUseAfterDestroy == misused # {} => raced

(***************************************************************************)
(* Library code is called only while it is mapped: a command that exists,  *)
(* whose destructor is still to run, and a creator the main thread may     *)
(* still call belong to a library that is open.                            *)
(***************************************************************************)
CodeMapped ==
  /\ \A k \in Keys : commands[k] # None => opens[commands[k]] > 0
  /\ main \in {"create", "createWrite"} =>
       \A k \in Keys : m_creators[k] # None => opens[m_creators[k]] > 0

(***************************************************************************)
(* When the function returns the thread has ended, nobody is subscribed,   *)
(* and every library it loaded is closed, but for one count per reload of  *)
(* a path (load overwrites the handle) and loads that raced the end.       *)
(***************************************************************************)
ReturnsClean ==
  main = "returned" =>
    /\ monitor = "ended" /\ ~m_fd
    /\ \A d \in Dispatchers : ~m_subscribers[d]
    /\ \A f \in Libraries : \/ raced
                            \/ opens[f] = IF loads[f] = 0 THEN 0 ELSE loads[f] - 1

(***************************************************************************)
(* The subscription comes before the compilation, so the event of the new  *)
(* library is not missed: with the queue drained while the main thread     *)
(* asks for commands, the library is loaded, unless one read returned its  *)
(* event behind another.                                                   *)
(***************************************************************************)
LibraryLoaded ==
  (/\ Up /\ linked /\ main \in {"create", "createWrite"}
   /\ queue = <<>> /\ monitor \in {"loop", "read"})
     => \/ Library \in m_handles
        \/ Event("modify", Library) \in skipped

(***************************************************************************)
(* MonitorAndLoadCommandFactory returns: the attempts end, and join does   *)
(* not wait for a thread that reads for ever.                              *)
(***************************************************************************)
FunctionReturns == (main = "subscribe") ~> (main = "returned" \/ ~Up)

=============================================================================
