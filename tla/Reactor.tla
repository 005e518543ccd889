-------------------------------- MODULE Reactor --------------------------------
(***************************************************************************)
(* Reactor (framework/reactor/reactor.hpp) with SelectMonitor              *)
(* (framework/reactor/imonitor.cpp): handlers are registered before Run    *)
(* and by handlers that run, on one thread.                                *)
(*                                                                         *)
(* The descriptors to read are kept three times: as bits of m_fdset[0], as *)
(* the ordered set m_registered_fds behind m_maxfd, and as the keys of     *)
(* m_call_backs.  A round copies the ready ones to m_fdset[1] and counts   *)
(* down to 0 while the handlers may change the other three.                *)
(*                                                                         *)
(* A handler may deregister a descriptor that still waits for its turn in  *)
(* this round; Run then looks for a handler that is gone, and throws.  It  *)
(* does not deregister itself: that destroys the Function that runs.       *)
(* Descriptors are below FD_SETSIZE.                                       *)
(***************************************************************************)
EXTENDS Integers, FiniteSets

CONSTANTS
  Fds,          \* the descriptors
  MaxPending,   \* bound on the messages unread on a descriptor
  MaxChanges    \* bound on the registrations and deregistrations

ASSUME FdsAssumption == Fds \subseteq Nat /\ IsFiniteSet(Fds)
ASSUME ReactorBoundsAssumption == MaxPending \in Nat /\ MaxChanges \in Nat

VARIABLES
  m_fdset,            \* m_fdset[0]
  m_registered_fds,
  m_maxfd,
  m_call_backs,       \* the descriptors with a handler
  selected,           \* m_fdset[1]
  ready_fds, starting_fd,
  at,                 \* "setup", "select", "dispatch", "handler", or how Run
                      \* was left: "failed" (select), "threw" (no handler)
  fd_to_read,         \* the descriptor whose handler runs
  pending,            \* descriptor -> messages unread
  changes,            \* registrations and deregistrations so far
  served,             \* history: the handlers called in this round
  dropped             \* history: descriptors deregistered since select returned

registryVars == <<m_fdset, m_registered_fds, m_maxfd, m_call_backs>>
roundVars    == <<selected, ready_fds, starting_fd, fd_to_read, served, dropped>>
vars == <<registryVars, roundVars, at, pending, changes>>

Init ==
  /\ m_fdset = {} /\ m_registered_fds = {} /\ m_maxfd = 0
  /\ m_call_backs = {}
  /\ selected = {} /\ ready_fds = 0 /\ starting_fd = 0
  /\ at = "setup" /\ fd_to_read = 0
  /\ pending = [f \in Fds |-> 0]
  /\ changes = 0
  /\ served = {} /\ dropped = {}

(***************************************************************************)
(* Somebody writes to a descriptor.                                        *)
(***************************************************************************)
Arrive(f) ==
  /\ pending[f] < MaxPending
  /\ pending' = [pending EXCEPT ![f] = @ + 1]
  /\ UNCHANGED <<registryVars, roundVars, at, changes>>

Greatest(S) == {m \in S : \A x \in S : x <= m}

\* Mutant: m_maxfd follows the last descriptor registered.
RegisterLast(f) ==
  /\ m_fdset' = m_fdset \cup {f}
  /\ m_registered_fds' = m_registered_fds \cup {f}
  /\ m_maxfd' = f

RegisterRead(f) ==
  /\ m_fdset' = m_fdset \cup {f}
  /\ m_registered_fds' = m_registered_fds \cup {f}
  /\ m_maxfd' \in Greatest(m_registered_fds')

Change ==
  /\ at \in {"setup", "handler"}
  /\ changes < MaxChanges
  /\ changes' = changes + 1
  /\ UNCHANGED <<selected, ready_fds, starting_fd, fd_to_read, served>>
  /\ UNCHANGED <<at, pending>>

RegisterReadEventHandler(f) ==
  /\ Change
  /\ RegisterRead(f)
  /\ m_call_backs' = m_call_backs \cup {f}
  /\ UNCHANGED dropped

(***************************************************************************)
(* Deregister clears the bit of the descriptor and leaves m_registered_fds *)
(* and m_maxfd alone.                                                      *)
(***************************************************************************)
\* Mutant: the bit is not cleared.
DeregisterNothing(f) == UNCHANGED m_fdset

Deregister(f) == m_fdset' = m_fdset \ {f}

DeregisterEventHandler(f) ==
  /\ Change
  /\ at = "handler" => f # fd_to_read
  /\ Deregister(f)
  /\ m_call_backs' = m_call_backs \ {f}
  /\ dropped' = dropped \cup {f}
  /\ UNCHANGED <<m_registered_fds, m_maxfd>>

Run ==
  /\ at = "setup"
  /\ at' = "select"
  /\ UNCHANGED <<registryVars, roundVars, pending, changes>>

(***************************************************************************)
(* select looks at the descriptors up to m_maxfd and blocks until one of   *)
(* them can be read.                                                       *)
(***************************************************************************)
\* Mutant: select(m_maxfd, ...).
ReadyBelowMax == {f \in m_fdset : f < m_maxfd /\ pending[f] > 0}

Ready == {f \in m_fdset : f < m_maxfd + 1 /\ pending[f] > 0}

WaitForEvents ==
  /\ at = "select"
  /\ Ready # {}
  /\ selected' = Ready
  /\ ready_fds' = Cardinality(Ready)
  /\ starting_fd' = 0
  /\ served' = {} /\ dropped' = {}
  /\ at' = "dispatch"
  /\ UNCHANGED <<registryVars, fd_to_read, pending, changes>>

(***************************************************************************)
(* A signal or a closed descriptor: Run throws SelectFailedException.      *)
(***************************************************************************)
SelectFails ==
  /\ at = "select"
  /\ at' = "failed"
  /\ UNCHANGED <<registryVars, roundVars, pending, changes>>

(***************************************************************************)
(* GetNextReadEvent, and the call of its handler; m_call_backs.at throws   *)
(* if there is none, or no event was found.                                *)
(***************************************************************************)
GetNextReadEvent == {f \in selected : f >= starting_fd
                       /\ \A g \in selected : g >= starting_fd => f <= g}

CallHandler ==
  /\ at = "dispatch" /\ ready_fds > 0
  /\ \/ \E f \in GetNextReadEvent \cap m_call_backs :
          /\ fd_to_read' = f
          /\ pending' = [pending EXCEPT ![f] = @ - 1]
          /\ served' = served \cup {f}
          /\ at' = "handler"
     \/ /\ GetNextReadEvent \cap m_call_backs = {}
        /\ at' = "threw"
        /\ UNCHANGED <<fd_to_read, pending, served>>
  /\ UNCHANGED <<registryVars, selected, ready_fds, starting_fd, dropped, changes>>

\* Mutant: the search starts again at the descriptor just served.
SearchAgain == fd_to_read

NextToSearch == fd_to_read + 1

HandlerReturn ==
  /\ at = "handler"
  /\ ready_fds' = ready_fds - 1
  /\ starting_fd' = NextToSearch
  /\ at' = "dispatch"
  /\ UNCHANGED <<registryVars, selected, fd_to_read, served, dropped>>
  /\ UNCHANGED <<pending, changes>>

RoundEnds ==
  /\ at = "dispatch" /\ ready_fds = 0
  /\ at' = "select"
  /\ UNCHANGED <<registryVars, roundVars, pending, changes>>

Loop == WaitForEvents \/ CallHandler \/ HandlerReturn \/ RoundEnds

Next ==
  \/ \E f \in Fds : Arrive(f)
  \/ \E f \in Fds : RegisterReadEventHandler(f) \/ DeregisterEventHandler(f)
  \/ Run \/ SelectFails
  \/ Loop

Spec == Init /\ [][Next]_vars

(***************************************************************************)
(* The thread runs and handlers return; nothing else has to happen.        *)
(***************************************************************************)
FairSpec == Spec /\ WF_vars(Loop)

-----------------------------------------------------------------------------
TypeOK ==
  /\ m_fdset \subseteq Fds /\ m_registered_fds \subseteq Fds
  /\ m_call_backs \subseteq Fds /\ selected \subseteq Fds
  /\ served \subseteq Fds /\ dropped \subseteq Fds
  /\ m_maxfd \in Nat /\ ready_fds \in Nat /\ starting_fd \in Nat
  /\ fd_to_read \in Nat
  /\ at \in {"setup", "select", "dispatch", "handler", "failed", "threw"}
  /\ pending \in [Fds -> Nat]
  /\ changes \in Nat

(***************************************************************************)
(* Whatever was registered and deregistered, in whatever order, select     *)
(* looks at every descriptor that has a handler.                           *)
(***************************************************************************)
SelectSeesAll == \A f \in m_call_backs : f \in m_fdset /\ f <= m_maxfd

(***************************************************************************)
(* Run misses a handler for one reason only: a handler of this round       *)
(* deregistered the descriptor whose turn it is.  The count of select and   *)
(* the search through m_fdset[1] agree, so the search never runs out of    *)
(* events, and what was deregistered in earlier rounds does not matter.    *)
(***************************************************************************)
HandlerFound == at = "threw" => GetNextReadEvent # {} /\ GetNextReadEvent \subseteq dropped

(***************************************************************************)
(* A round calls the handler of each descriptor that select found ready,   *)
(* and no other.                                                           *)
(***************************************************************************)
RoundServesReady == (at = "dispatch" /\ ready_fds = 0) => served = selected

(***************************************************************************)
(* A message on a descriptor is read in the end, as long as the descriptor *)
(* stays registered and Run does not throw: no busy descriptor starves     *)
(* another.                                                                *)
(***************************************************************************)
NoStarvation ==
  \A f \in Fds :
    (at # "setup" /\ pending[f] > 0 /\ f \in m_fdset)
      ~> \/ at = "handler" /\ fd_to_read = f
         \/ f \notin m_fdset \/ at \in {"failed", "threw"}

=============================================================================
