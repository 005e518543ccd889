----------------------------- MODULE PluginsProofs -----------------------------
(***************************************************************************)
(* Theorems on Plugins, for any libraries, any events in the directory and *)
(* any number of attempts.                                                 *)
(***************************************************************************)
EXTENDS Plugins, SequenceTheorems, TLAPS

SubscribedAt == {"compile", "link", "create", "createWrite", "~commands",
                 "~callback"}
LoaderGoneAt == {"~monitor", "stop", "join", "returned"}

(***************************************************************************)
(* Which objects exist and who is subscribed, by where the main thread is, *)
(* and what a monitor's thread still in the callback then means.           *)
(***************************************************************************)
ObjectInv ==
  /\ "dispatchers" \in alive <=> main \notin {"construct", "returned"}
  /\ "loader" \in alive <=> main \notin LoaderGoneAt \cup {"construct"}
  /\ "callback" \in alive <=> main \in SubscribedAt \cup {"subscribe"}
  /\ m_dispatcher = IF main \in {"construct", "subscribe"} THEN None ELSE "modify"
  /\ \A d \in Dispatchers : m_subscribers[d] <=> d = "modify" /\ main \in SubscribedAt
  /\ InCallback /\ main \notin SubscribedAt => raced

WatchInv ==
  /\ monitor = "none" <=> main = "construct"
  /\ main = "returned" => monitor = "ended"
  /\ m_fd <=> main \notin {"construct", "stop", "join", "returned"}

(***************************************************************************)
(* What the monitor's thread is at.                                        *)
(***************************************************************************)
Loading == monitor \in {"func", "adding", "store"}

ThreadInv ==
  /\ InCallback \/ monitor = "notify" => event \in Events /\ event.mask \in Dispatchers
  /\ Loading \/ monitor = "return" => event.file \in Libraries
  /\ monitor \in {"func", "adding"} => toAdd # <<>>
  /\ monitor = "adding" => inserting \in Keys

(***************************************************************************)
(* While the loader exists, what has a handle, a creator or a command is   *)
(* mapped.                                                                 *)
(***************************************************************************)
MappedInv ==
  /\ main \notin LoaderGoneAt =>
       /\ \A f \in m_handles : opens[f] > 0
       /\ Loading => opens[event.file] > 0
       /\ \A k \in Keys : m_creators[k] # None => opens[m_creators[k]] > 0
       /\ \A k \in Keys : commands[k] # None => opens[commands[k]] > 0
  /\ main \in LoaderGoneAt \cup {"~callback", "~loader"} =>
       commands = [k \in Keys |-> None]
  /\ main \in LoaderGoneAt => m_handles = {}

(***************************************************************************)
(* The dynamic linker's count of a library, without a race at the end.     *)
(***************************************************************************)
CountInv ==
  \/ raced
  \/ /\ main \notin LoaderGoneAt
     /\ \A f \in Libraries :
          /\ opens[f] = loads[f]
          /\ f \in m_handles => loads[f] > 0
          /\ loads[f] > 0 => f \in m_handles \/ (Loading /\ event.file = f)
  \/ /\ main \in LoaderGoneAt
     /\ \A f \in Libraries : opens[f] = IF loads[f] = 0 THEN 0 ELSE loads[f] - 1

(***************************************************************************)
(* Where the event of the new library is.                                  *)
(***************************************************************************)
NewLibrary == Event("modify", Library)

DeliveryInv ==
  /\ linked => main \notin {"construct", "subscribe", "compile", "link"}
  /\ linked /\ main \in {"create", "createWrite"} =>
       \/ Library \in m_handles \/ NewLibrary \in skipped
       \/ \E i \in 1 .. Len(queue) : queue[i] = NewLibrary
       \/ event = NewLibrary /\ (Loading \/ monitor \in {"notify", "load"})

Safe == NoUseAfterDestroy /\ ObjectInv /\ WatchInv /\ ThreadInv /\ MappedInv
          /\ CountInv /\ DeliveryInv

Inv == TypeOK /\ Safe

-----------------------------------------------------------------------------
(***************************************************************************)
(* A read that returns n events.                                           *)
(***************************************************************************)
FirstOf(n) ==
  /\ event' = Head(queue)
  /\ queue' = SubSeq(queue, n + 1, Len(queue))
  /\ skipped' = skipped \cup {queue[j] : j \in 2 .. n}
  /\ IF Head(queue).mask \in Dispatchers
       THEN monitor' = "notify" /\ UNCHANGED status
       ELSE status' = "terminated" /\ UNCHANGED monitor

(***************************************************************************)
(* Every step of either thread keeps the invariant.                        *)
(***************************************************************************)
LEMMA InvStep == Inv /\ [Next]_vars => Inv'
<1> SUFFICES ASSUME Inv, [Next]_vars PROVE Inv'
  OBVIOUS
<1> USE FilesAssumption, BoundsAssumption
    DEF Inv, Safe, mainVars, monitorVars, watchVars, objectVars, loaderVars,
        factoryVars, history, Up, Goto, At, Use, InCallback, Loading,
        SubscribedAt, LoaderGoneAt
<1>1. CASE \E e \in Events : FileEvent(e)
  BY <1>1 DEF FileEvent, Emit, TypeOK, NoUseAfterDestroy, ObjectInv,
     WatchInv, ThreadInv, MappedInv, CountInv, DeliveryInv
<1>2. CASE Construct
  <2>1. TypeOK'
    <3>1. /\ main' \in MainAt /\ alive' \subseteq Locals /\ monitor' \in MonitorAt
          /\ m_fd' \in BOOLEAN /\ m_running' \in BOOLEAN
          /\ status' \in {"up", "terminated", "crashed"}
      BY <1>2 DEF Construct, TypeOK, MainAt, MonitorAt, Locals
    <3>2. UNCHANGED <<loaderVars, factoryVars, history, retryCount, commands, event,
                      queue, emitted, skipped, m_subscribers, m_dispatcher>>
      BY <1>2 DEF Construct
    <3> QED BY <3>1, <3>2 DEF TypeOK
  <2>2. Safe'
    BY <1>2 DEF Construct, NoUseAfterDestroy, ObjectInv, WatchInv, ThreadInv,
       MappedInv, CountInv, DeliveryInv
  <2> QED BY <2>1, <2>2
<1>3. CASE Subscribe
  BY <1>3 DEF Subscribe, SubscribeTo, SetDispatcher, TypeOK, MainAt,
     NoUseAfterDestroy, ObjectInv, WatchInv, ThreadInv, MappedInv, CountInv,
     DeliveryInv, Dispatchers
<1>4. CASE CompileFails
  BY <1>4 DEF CompileFails, CompileUnchanged, TypeOK, MainAt,
     NoUseAfterDestroy, ObjectInv, WatchInv, ThreadInv, MappedInv, CountInv,
     DeliveryInv
<1>5. CASE LinkerCreates
  BY <1>5 DEF LinkerCreates, CompileUnchanged, Emit, TypeOK, MainAt,
     NoUseAfterDestroy, ObjectInv, WatchInv, ThreadInv, MappedInv, CountInv,
     DeliveryInv, Dispatchers, Files, Events, Event
<1>6. CASE LinkerCloses
  <2>1. TypeOK'
    <3>1. Event("modify", Library) \in Events
      BY DEF Event, Events, Files, Dispatchers
    <3> QED BY <1>6, <3>1 DEF LinkerCloses, CompileUnchanged, Emit, TypeOK, MainAt
  <2>2. Safe'
    BY <1>6 DEF LinkerCloses, CompileUnchanged, Emit, Locals,
       NoUseAfterDestroy, ObjectInv, WatchInv, ThreadInv, MappedInv,
       CountInv, DeliveryInv, Dispatchers, Files, Event, NewLibrary
  <2> QED BY <2>1, <2>2
<1>7. CASE CreateRead
  <2>1. main \in {"create", "createWrite"} /\ main' \in {"create", "createWrite", "~commands"}
    BY <1>7 DEF CreateRead, Create
  <2>2. /\ commands' \in {commands, [commands EXCEPT !["READ"] = m_creators["READ"]]}
        /\ retryCount' \in 0 .. maxRetryAttempts
        /\ status' \in {status, "crashed"}
    BY <1>7 DEF CreateRead, Create, MayTry, TypeOK
  <2>3. UNCHANGED <<monitorVars, watchVars, objectVars, loaderVars, factoryVars, history>>
    BY <1>7 DEF CreateRead, Create
  <2>4. TypeOK'
    <3>1. commands' \in [Keys -> Libraries \cup {None}]
      BY <2>2 DEF TypeOK, Keys
    <3> QED BY <2>1, <2>2, <2>3, <3>1 DEF TypeOK, MainAt
  <2>5. MappedInv'
    BY <2>1, <2>2, <2>3 DEF MappedInv, TypeOK, Keys
  <2>6. DeliveryInv'
    BY <2>1, <2>3 DEF DeliveryInv
  <2>7. NoUseAfterDestroy' /\ ObjectInv' /\ WatchInv' /\ ThreadInv' /\ CountInv'
    BY <2>1, <2>3 DEF NoUseAfterDestroy, ObjectInv, WatchInv, ThreadInv,
       CountInv
  <2> QED BY <2>4, <2>5, <2>6, <2>7
<1>8. CASE CreateWrite
  <2>1. main \in {"create", "createWrite"} /\ main' \in {"create", "createWrite", "~commands"}
    BY <1>8 DEF CreateWrite, Create
  <2>2. /\ commands' \in {commands, [commands EXCEPT !["WRITE"] = m_creators["WRITE"]]}
        /\ retryCount' \in 0 .. maxRetryAttempts
        /\ status' \in {status, "crashed"}
    BY <1>8 DEF CreateWrite, Create, MayTry, TypeOK
  <2>3. UNCHANGED <<monitorVars, watchVars, objectVars, loaderVars, factoryVars, history>>
    BY <1>8 DEF CreateWrite, Create
  <2>4. TypeOK'
    <3>1. commands' \in [Keys -> Libraries \cup {None}]
      BY <2>2 DEF TypeOK, Keys
    <3> QED BY <2>1, <2>2, <2>3, <3>1 DEF TypeOK, MainAt
  <2>5. MappedInv'
    BY <2>1, <2>2, <2>3 DEF MappedInv, TypeOK, Keys
  <2>6. DeliveryInv'
    BY <2>1, <2>3 DEF DeliveryInv
  <2>7. NoUseAfterDestroy' /\ ObjectInv' /\ WatchInv' /\ ThreadInv' /\ CountInv'
    BY <2>1, <2>3 DEF NoUseAfterDestroy, ObjectInv, WatchInv, ThreadInv,
       CountInv
  <2> QED BY <2>4, <2>5, <2>6, <2>7
<1>9. CASE GiveUp
  BY <1>9 DEF GiveUp, TypeOK, MainAt, NoUseAfterDestroy, ObjectInv, WatchInv,
     ThreadInv, MappedInv, CountInv, DeliveryInv
<1>10. CASE DestroyCommands
  BY <1>10 DEF DestroyCommands, NoCommands, TypeOK, MainAt,
     NoUseAfterDestroy, ObjectInv, WatchInv, ThreadInv, MappedInv, CountInv,
     DeliveryInv
<1>11. CASE DestroyCallback
  BY <1>11 DEF DestroyCallback, CallbackGoes, TypeOK, MainAt,
     NoUseAfterDestroy, ObjectInv, WatchInv, ThreadInv, MappedInv, CountInv,
     DeliveryInv, Dispatchers
<1>12. CASE DestroyLoader
  BY <1>12 DEF DestroyLoader, Closed, TypeOK, MainAt, NoUseAfterDestroy,
     ObjectInv, WatchInv, ThreadInv, MappedInv, CountInv, DeliveryInv
<1>13. CASE MonitorClose
  <2>1. TypeOK'
    BY <1>13, EmptySeq DEF MonitorClose, DestroyUnchanged, TypeOK, MainAt
  <2>2. Safe'
    BY <1>13 DEF MonitorClose, DestroyUnchanged, NoUseAfterDestroy,
       ObjectInv, WatchInv, ThreadInv, MappedInv, CountInv, DeliveryInv
  <2> QED BY <2>1, <2>2
<1>14. CASE MonitorStop
  <2>1. TypeOK'
    BY <1>14 DEF MonitorStop, DestroyUnchanged, TypeOK, MainAt
  <2>2. Safe'
    BY <1>14 DEF MonitorStop, DestroyUnchanged, NoUseAfterDestroy, ObjectInv,
       WatchInv, ThreadInv, MappedInv, CountInv, DeliveryInv
  <2> QED BY <2>1, <2>2
<1>15. CASE MonitorJoin
  BY <1>15 DEF MonitorJoin, TypeOK, MainAt, NoUseAfterDestroy, ObjectInv,
     WatchInv, ThreadInv, MappedInv, CountInv, DeliveryInv
<1>16. CASE MonitorLoop
  BY <1>16 DEF MonitorLoop, TypeOK, MonitorAt, NoUseAfterDestroy, ObjectInv,
     WatchInv, ThreadInv, MappedInv, CountInv, DeliveryInv
<1>17. CASE MonitorRead
  <2>1. CASE queue = <<>>
    <3>1. monitor' = "loop" /\ UNCHANGED <<event, queue, skipped, status>>
      BY <1>17, <2>1 DEF MonitorRead
    <3> QED
      BY <1>17, <3>1 DEF MonitorRead, TypeOK, MonitorAt, NoUseAfterDestroy,
         ObjectInv, WatchInv, ThreadInv, MappedInv, CountInv, DeliveryInv
  <2>2. CASE queue # <<>>
    <3>1. PICK n \in 1 .. BufferEvents : n <= Len(queue) /\ FirstOf(n)
      BY <1>17, <2>2 DEF MonitorRead, FirstOf
    <3>2. /\ Head(queue) \in Events /\ Head(queue) = queue[1]
          /\ queue \in Seq(Events) /\ Len(queue) \in Nat
          /\ \A j \in 2 .. n : queue[j] \in Events
      BY <2>2, <3>1, HeadTailProperties DEF TypeOK
    <3>3. LET s == SubSeq(queue, n + 1, Len(queue)) IN
          /\ s \in Seq(Events) /\ Len(s) = Len(queue) - n
          /\ \A i \in 1 .. (Len(queue) - n) : s[i] = queue[n + i]
      BY <3>1, <3>2
    <3>4. /\ UNCHANGED <<mainVars, objectVars, loaderVars, factoryVars, history,
                         m_running, m_fd, emitted>>
          /\ monitor = "read"
      BY <1>17 DEF MonitorRead
    <3>5. TypeOK'
      <4>1. event' \in Events /\ queue' \in Seq(Events) /\ skipped' \subseteq Events
        BY <3>1, <3>2, <3>3 DEF FirstOf, TypeOK
      <4>2. monitor' \in MonitorAt /\ status' \in {"up", "terminated", "crashed"}
        BY <3>1 DEF FirstOf, TypeOK, MonitorAt
      <4> QED BY <3>4, <4>1, <4>2 DEF TypeOK
    <3>6. ThreadInv'
      BY <3>1, <3>2, <3>4 DEF FirstOf, ThreadInv
    <3>7. DeliveryInv'
      <4>1. ASSUME linked, main \in {"create", "createWrite"},
                   NEW i \in 1 .. Len(queue), queue[i] = NewLibrary
            PROVE  \/ NewLibrary \in skipped'
                   \/ \E j \in 1 .. Len(queue') : queue'[j] = NewLibrary
                   \/ event' = NewLibrary /\ monitor' = "notify"
        <5>1. CASE i = 1
          BY <3>1, <3>2, <4>1, <5>1 DEF FirstOf, NewLibrary, Event, Dispatchers
        <5>2. CASE i \in 2 .. n
          BY <3>1, <4>1, <5>2 DEF FirstOf
        <5>3. CASE i > n
          <6>1. /\ i - n \in 1 .. (Len(queue) - n) /\ n + (i - n) = i
            BY <3>1, <3>2, <5>3
          <6> QED BY <3>1, <3>3, <4>1, <6>1 DEF FirstOf
        <5> QED BY <3>1, <3>2, <5>1, <5>2, <5>3
      <4>2. skipped \subseteq skipped'
        BY <3>1 DEF FirstOf
      <4> QED BY <3>4, <4>1, <4>2 DEF DeliveryInv
    <3>8. /\ NoUseAfterDestroy' /\ ObjectInv' /\ WatchInv' /\ MappedInv'
          /\ CountInv'
      BY <3>1, <3>4 DEF FirstOf, NoUseAfterDestroy, ObjectInv, WatchInv,
         MappedInv, CountInv
    <3> QED BY <3>5, <3>6, <3>7, <3>8
  <2> QED BY <2>1, <2>2
<1>18. CASE Notify
  <2>1. m_subscribers[event.mask] => /\ main \in SubscribedAt
                                     /\ {"callback", "loader"} \subseteq alive
    BY <1>18 DEF Notify, ThreadInv, ObjectInv
  <2>2. TypeOK'
    BY <1>18, <2>1 DEF Notify, TypeOK, MonitorAt
  <2>3. NoUseAfterDestroy' /\ ObjectInv'
    BY <1>18, <2>1 DEF Notify, NoUseAfterDestroy, ObjectInv
  <2>4. DeliveryInv'
    BY <1>18 DEF Notify, DeliveryInv, ObjectInv, NewLibrary, Event, Dispatchers
  <2>5. WatchInv' /\ ThreadInv' /\ MappedInv' /\ CountInv'
    BY <1>18 DEF Notify, WatchInv, ThreadInv, MappedInv, CountInv
  <2> QED BY <2>2, <2>3, <2>4, <2>5
<1>19. CASE Load
  <2>1. TypeOK'
    <3>1. Func \in Seq(Keys) /\ <<>> \in Seq(Keys)
      <4>1. <<"READ", "WRITE">> \in Seq(Keys)
        BY DEF Keys
      <4>2. Func = <<>> \/ Func = <<"READ", "WRITE">>
        BY DEF TypeOK, Constructors
      <4>3. <<>> \in Seq(Keys)
        BY EmptySeq
      <4> QED BY <4>1, <4>2, <4>3, Zenon
    <3>2. CASE event.file \in Libraries
      <4>1. /\ opens' = [opens EXCEPT ![event.file] = @ + 1]
            /\ loads' = [loads EXCEPT ![event.file] = @ + 1]
            /\ toAdd' \in {Func, <<>>} /\ monitor' \in {"func", "store"}
            /\ UNCHANGED status
        BY <1>19, <3>2 DEF Load
      <4>2. toAdd' \in Seq(Keys)
        BY <3>1, <4>1, Zenon
      <4>3. UNCHANGED <<mainVars, watchVars, objectVars, history, event, m_handles,
                        Func, inserting, m_creators>>
        BY <1>19 DEF Load
      <4> QED BY <3>2, <4>1, <4>2, <4>3 DEF TypeOK, MonitorAt
    <3>3. CASE event.file \notin Libraries
      BY <1>19, <3>3 DEF Load, TypeOK
    <3> QED BY <3>2, <3>3
  <2>2. MappedInv'
    <3>1. CASE event.file \in Libraries
      <4>1. opens' = [opens EXCEPT ![event.file] = @ + 1]
        BY <1>19, <3>1 DEF Load
      <4>2. /\ \A f \in Libraries : opens[f] \in Nat /\ opens'[f] >= opens[f]
            /\ opens'[event.file] > 0
        BY <3>1, <4>1 DEF TypeOK
      <4> QED BY <1>19, <4>2 DEF Load, MappedInv, TypeOK
    <3>2. CASE event.file \notin Libraries
      BY <1>19, <3>2 DEF Load, MappedInv
    <3> QED BY <3>1, <3>2
  <2>3. CountInv'
    <3>1. CASE event.file \in Libraries
      <4>1. /\ opens' = [opens EXCEPT ![event.file] = @ + 1]
            /\ loads' = [loads EXCEPT ![event.file] = @ + 1]
            /\ monitor' \in {"func", "store"}
            /\ UNCHANGED <<main, raced, m_handles, event>>
        BY <1>19, <3>1 DEF Load
      <4>2. main \in LoaderGoneAt => raced
        BY <1>19 DEF Load, ObjectInv
      <4> QED BY <1>19, <4>1, <4>2 DEF Load, CountInv, TypeOK
    <3>2. CASE event.file \notin Libraries
      BY <1>19, <3>2 DEF Load, CountInv
    <3> QED BY <3>1, <3>2
  <2>4. NoUseAfterDestroy' /\ ObjectInv' /\ WatchInv' /\ ThreadInv' /\ DeliveryInv'
    BY <1>19 DEF Load, NoUseAfterDestroy, ObjectInv, WatchInv, ThreadInv,
       DeliveryInv
  <2> QED BY <2>1, <2>2, <2>3, <2>4
<1>20. CASE AddBegin
  BY <1>20 DEF AddBegin, AddUnchanged, TypeOK, MonitorAt, NoUseAfterDestroy,
     ObjectInv, WatchInv, ThreadInv, MappedInv, CountInv, DeliveryInv
<1>21. CASE AddEnd
  BY <1>21 DEF AddEnd, AddUnchanged, TypeOK, MonitorAt, NoUseAfterDestroy,
     ObjectInv, WatchInv, ThreadInv, MappedInv, CountInv, DeliveryInv
<1>22. CASE StoreHandle
  BY <1>22 DEF StoreHandle, TypeOK, MonitorAt, Locals, NoUseAfterDestroy,
     ObjectInv, WatchInv, ThreadInv, MappedInv, CountInv, DeliveryInv, Event,
     NewLibrary
<1>23. CASE NotifyReturn
  BY <1>23 DEF NotifyReturn, TypeOK, MonitorAt, Locals, NoUseAfterDestroy,
     ObjectInv, WatchInv, ThreadInv, MappedInv, CountInv, DeliveryInv
<1>24. CASE Stop
  BY <1>24 DEF Stop, vars, TypeOK, NoUseAfterDestroy, ObjectInv, WatchInv,
     ThreadInv, MappedInv, CountInv, DeliveryInv
<1>25. CASE UNCHANGED vars
  BY <1>25 DEF vars, TypeOK, NoUseAfterDestroy, ObjectInv, WatchInv,
     ThreadInv, MappedInv, CountInv, DeliveryInv
<1> QED
  BY <1>1, <1>2, <1>3, <1>4, <1>5, <1>6, <1>7, <1>8, <1>9, <1>10, <1>11, <1>12,
     <1>13, <1>14, <1>15, <1>16, <1>17, <1>18, <1>19, <1>20, <1>21, <1>22, <1>23,
     <1>24, <1>25
  DEF Next, Main, MonitorThread

LEMMA Inductive == Spec => []Inv
<1>1. Init => TypeOK
  <2>1. <<>> \in Seq(Events) /\ <<>> \in Seq(Keys)
    BY EmptySeq
  <2>2. Init => /\ retryCount \in 0 .. maxRetryAttempts /\ emitted \in 0 .. MaxEvents
                /\ opens \in [Libraries -> Nat] /\ loads \in [Libraries -> Nat]
    BY BoundsAssumption DEF Init
  <2>3. Init => /\ queue \in Seq(Events) /\ toAdd \in Seq(Keys)
                /\ commands \in [Keys -> Libraries \cup {None}]
                /\ m_creators \in [Keys -> Libraries \cup {None}]
                /\ m_subscribers \in [Dispatchers -> BOOLEAN]
    BY <2>1 DEF Init
  <2> QED BY <2>2, <2>3 DEF Init, TypeOK, MainAt, MonitorAt
<1>2. Init => Safe
  BY DEF Init, Safe, NoUseAfterDestroy, ObjectInv, WatchInv, ThreadInv,
     MappedInv, CountInv, DeliveryInv, InCallback, Loading, SubscribedAt,
     LoaderGoneAt
<1> QED BY <1>1, <1>2, InvStep, PTL DEF Spec, Inv

-----------------------------------------------------------------------------
(***************************************************************************)
(* MonitorAndLoadCommandFactory and the monitor's thread keep their        *)
(* variables in their types, for any libraries and events.                 *)
(***************************************************************************)
THEOREM TypeCorrect == Spec => []TypeOK
<1>1. Inv => TypeOK
  BY DEF Inv
<1> QED BY <1>1, Inductive, PTL

(***************************************************************************)
(* A destroyed callback, loader or dispatcher is touched only if Notify    *)
(* was in the callback when ~Callback ran.                                 *)
(***************************************************************************)
THEOREM ObjectsOutliveCallbacks == Spec => []NoUseAfterDestroy
<1>1. Inv => NoUseAfterDestroy
  BY DEF Inv, Safe
<1> QED BY <1>1, Inductive, PTL

(***************************************************************************)
(* Commands, and creators that may still be called, are in mapped code.    *)
(***************************************************************************)
THEOREM CommandsInMappedCode == Spec => []CodeMapped
<1>1. Inv => CodeMapped
  BY FilesAssumption DEF Inv, Safe, TypeOK, MappedInv, CodeMapped, LoaderGoneAt,
     Keys, MainAt
<1> QED BY <1>1, Inductive, PTL

(***************************************************************************)
(* MonitorAndLoadCommandFactory leaves no thread, no subscriber, and no    *)
(* library open but for reloads and a load that raced its end.             *)
(***************************************************************************)
THEOREM LeavesNothingBehind == Spec => []ReturnsClean
<1>1. Inv => ReturnsClean
  BY DEF Inv, Safe, ObjectInv, WatchInv, CountInv, ReturnsClean, SubscribedAt,
     LoaderGoneAt
<1> QED BY <1>1, Inductive, PTL

(***************************************************************************)
(* The event of the compiled library reaches the loader unless one read    *)
(* returned it behind another, however long the buffer is.                 *)
(***************************************************************************)
THEOREM NewLibraryIsLoaded == Spec => []LibraryLoaded
<1>1. Inv => LibraryLoaded
  BY EmptySeq DEF Inv, Safe, DeliveryInv, NewLibrary, Loading, LibraryLoaded
<1> QED BY <1>1, Inductive, PTL

=============================================================================
