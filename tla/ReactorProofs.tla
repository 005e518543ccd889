---------------------------- MODULE ReactorProofs ----------------------------
(***************************************************************************)
(* The reactor serves what select reports, for any set of descriptors and  *)
(* any sequence of registrations.                                          *)
(***************************************************************************)
EXTENDS Reactor, FiniteSetTheorems, WellFoundedInduction, TLAPS

(***************************************************************************)
(* The order of the naturals as a set of pairs, and that it has no endless *)
(* descent.                                                                *)
(***************************************************************************)
Below == {p \in Nat \X Nat : p[1] < p[2]}

LEMMA BelowWellFounded == IsWellFoundedOn(Below, Nat)
BY NatLessThanWellFounded, Zenon DEF Below, OpToRel

(***************************************************************************)
(* A set of natural numbers that is not empty has a least element.         *)
(***************************************************************************)
LEMMA LeastElement ==
  ASSUME NEW S \in SUBSET Nat, S # {}
  PROVE  \E m \in S : \A x \in S : m <= x
<1>1. PICK m \in S : \A x \in S : ~(<<x, m>> \in Below)
  BY BelowWellFounded, WFMin, Zenon
<1>2. \A x \in S : x < m => <<x, m>> \in Below
  BY DEF Below
<1>3. \A x \in S : m <= x
  <2> SUFFICES ASSUME NEW x \in S PROVE m <= x
    OBVIOUS
  <2>1. ~(x < m)
    BY <1>1, <1>2
  <2> QED
    BY <2>1
<1> QED
  BY <1>3

-----------------------------------------------------------------------------
(***************************************************************************)
(* The three copies of the registration agree.                             *)
(***************************************************************************)
RegistryInv ==
  /\ m_fdset = m_call_backs
  /\ m_fdset \subseteq m_registered_fds
  /\ \A f \in m_registered_fds : f <= m_maxfd

(***************************************************************************)
(* The part of the round from descriptor n on has k handlers left to call. *)
(***************************************************************************)
Left(n) == {f \in selected : f >= n}

RoundAt(n, k) ==
  /\ k = Cardinality(Left(n))
  /\ Left(n) \subseteq m_call_backs \cup dropped
  /\ \A f \in Left(n) : pending[f] > 0
  /\ served = selected \ Left(n)

RoundInv ==
  /\ at = "dispatch" => RoundAt(starting_fd, ready_fds)
  /\ at = "handler" => fd_to_read \in selected /\ RoundAt(fd_to_read + 1, ready_fds - 1)
                       /\ ready_fds > 0
  /\ HandlerFound

IInv == TypeOK /\ RegistryInv /\ RoundInv

(***************************************************************************)
(* The counts of RoundAt are those of finite sets.                         *)
(***************************************************************************)
LEMMA LeftFinite ==
  ASSUME TypeOK, NEW n
  PROVE  Left(n) \subseteq Fds /\ IsFiniteSet(Left(n)) /\ Cardinality(Left(n)) \in Nat
<1>1. Left(n) \subseteq Fds
  BY DEF Left, TypeOK
<1>2. IsFiniteSet(Left(n))
  BY <1>1, FdsAssumption, FS_Subset
<1> QED
  BY <1>1, <1>2, FS_CardinalityType

(***************************************************************************)
(* While a round has events left, the search finds the next one and its    *)
(* handler, and what is left afterwards is one event less.                 *)
(***************************************************************************)
LEMMA NextEvent ==
  ASSUME TypeOK, RoundAt(starting_fd, ready_fds), ready_fds > 0
  PROVE  /\ GetNextReadEvent # {}
         /\ GetNextReadEvent \subseteq m_call_backs \cup dropped
         /\ \A f \in GetNextReadEvent :
              /\ f \in Left(starting_fd)
              /\ Left(f + 1) = Left(starting_fd) \ {f}
              /\ Cardinality(Left(f + 1)) = ready_fds - 1
<1>1. Left(starting_fd) \in SUBSET Nat /\ IsFiniteSet(Left(starting_fd))
  BY LeftFinite, FdsAssumption
<1>2. Left(starting_fd) # {}
  BY <1>1, FS_EmptySet DEF RoundAt, TypeOK
<1>3. PICK m \in Left(starting_fd) : \A x \in Left(starting_fd) : m <= x
  BY <1>1, <1>2, LeastElement
<1>4. m \in GetNextReadEvent
  BY <1>3 DEF GetNextReadEvent, Left
<1>5. GetNextReadEvent \subseteq m_call_backs \cup dropped
  BY DEF RoundAt, Left, GetNextReadEvent
<1>6. ASSUME NEW f \in GetNextReadEvent
      PROVE  /\ f \in Left(starting_fd)
             /\ Left(f + 1) = Left(starting_fd) \ {f}
             /\ Cardinality(Left(f + 1)) = ready_fds - 1
  <2>1. f \in Left(starting_fd)
    BY DEF GetNextReadEvent, Left
  <2>2. Left(f + 1) = Left(starting_fd) \ {f}
    <3>1. selected \subseteq Nat /\ starting_fd \in Nat /\ f \in Nat
      BY FdsAssumption DEF GetNextReadEvent, TypeOK
    <3>2. \A g \in selected : g >= f + 1 <=> g >= starting_fd /\ g # f
      BY <3>1 DEF GetNextReadEvent
    <3> QED
      BY <3>2 DEF Left
  <2>3. Cardinality(Left(starting_fd) \ {f}) = Cardinality(Left(starting_fd)) - 1
    BY <1>1, <2>1, FS_RemoveElement
  <2> QED
    BY <2>1, <2>2, <2>3 DEF RoundAt
<1> QED
  BY <1>4, <1>5, <1>6

(***************************************************************************)
(* The reactor starts with nothing registered and no round.                *)
(***************************************************************************)
LEMMA InitInv == Init => IInv
BY DEF Init, IInv, TypeOK, RegistryInv, RoundInv, HandlerFound

(***************************************************************************)
(* Every step keeps the types.                                             *)
(***************************************************************************)
LEMMA NextTypeOK == IInv /\ [Next]_vars => TypeOK'
<1> SUFFICES ASSUME IInv, [Next]_vars PROVE TypeOK'
  OBVIOUS
<1> USE FdsAssumption DEF IInv, TypeOK, registryVars, roundVars
<1>1. ASSUME NEW f \in Fds, Arrive(f) PROVE TypeOK'
  BY <1>1 DEF Arrive
<1>2. ASSUME NEW f \in Fds, RegisterReadEventHandler(f) PROVE TypeOK'
  BY <1>2 DEF RegisterReadEventHandler, Change, RegisterRead, Greatest
<1>3. ASSUME NEW f \in Fds, DeregisterEventHandler(f) PROVE TypeOK'
  BY <1>3 DEF DeregisterEventHandler, Change, Deregister
<1>4. CASE Run
  BY <1>4 DEF Run
<1>10. CASE SelectFails
  BY <1>10 DEF SelectFails
<1>5. CASE WaitForEvents
  <2>1. Ready \subseteq Fds /\ IsFiniteSet(Ready)
    BY FS_Subset DEF Ready
  <2>2. Cardinality(Ready) \in Nat
    BY <2>1, FS_CardinalityType
  <2> QED
    BY <1>5, <2>1, <2>2 DEF WaitForEvents
<1>6. CASE CallHandler
  <2>1. ASSUME NEW f \in GetNextReadEvent \cap m_call_backs,
               fd_to_read' = f, at' = "handler",
               pending' = [pending EXCEPT ![f] = @ - 1],
               served' = served \cup {f}
        PROVE  TypeOK'
    <3>1. f \in Left(starting_fd)
      BY DEF GetNextReadEvent, Left
    <3>2. f \in Fds /\ pending[f] > 0
      BY <1>6, <3>1 DEF CallHandler, RoundInv, RoundAt
    <3> QED
      BY <1>6, <2>1, <3>2 DEF CallHandler
  <2>2. CASE at' = "threw" /\ UNCHANGED <<fd_to_read, pending, served>>
    BY <1>6, <2>2 DEF CallHandler
  <2> QED
    BY <1>6, <2>1, <2>2 DEF CallHandler
<1>7. CASE HandlerReturn
  BY <1>7 DEF HandlerReturn, NextToSearch, RoundInv
<1>8. CASE RoundEnds
  BY <1>8 DEF RoundEnds
<1>9. CASE UNCHANGED vars
  BY <1>9 DEF vars
<1> QED
  BY <1>1, <1>2, <1>3, <1>4, <1>5, <1>6, <1>7, <1>8, <1>9, <1>10 DEF Next, Loop

(***************************************************************************)
(* Every step keeps the copies of the registration in agreement.           *)
(***************************************************************************)
LEMMA NextRegistry == IInv /\ [Next]_vars => RegistryInv'
<1> SUFFICES ASSUME IInv, [Next]_vars PROVE RegistryInv'
  OBVIOUS
<1> USE DEF IInv, RegistryInv, registryVars
<1>1. ASSUME NEW f \in Fds, RegisterReadEventHandler(f) PROVE RegistryInv'
  BY <1>1, FdsAssumption
     DEF RegisterReadEventHandler, RegisterRead, Greatest, TypeOK
<1>2. ASSUME NEW f \in Fds, DeregisterEventHandler(f) PROVE RegistryInv'
  BY <1>2 DEF DeregisterEventHandler, Deregister
<1>3. CASE UNCHANGED registryVars
  BY <1>3
<1> QED
  BY <1>1, <1>2, <1>3 DEF Next, Loop, vars, Arrive, Run, SelectFails, WaitForEvents,
     CallHandler, HandlerReturn, RoundEnds

(***************************************************************************)
(* Every step keeps the round going: a descriptor whose turn is to come    *)
(* has its handler, or lost it in this round.                              *)
(***************************************************************************)
LEMMA NextRound == IInv /\ [Next]_vars => RoundInv'
<1> SUFFICES ASSUME IInv, [Next]_vars PROVE RoundInv'
  OBVIOUS
<1> USE DEF IInv, RoundInv
<1>1. ASSUME NEW f \in Fds, Arrive(f) PROVE RoundInv'
  <2>1. \A g \in Fds : pending[g] > 0 => pending'[g] > 0
    BY <1>1 DEF Arrive, TypeOK
  <2>2. selected \subseteq Fds
    BY DEF TypeOK
  <2> QED
    BY <1>1, <2>1, <2>2 DEF Arrive, RoundAt, Left, registryVars, roundVars,
       HandlerFound, GetNextReadEvent
<1>2. ASSUME NEW f \in Fds, RegisterReadEventHandler(f) PROVE RoundInv'
  BY <1>2 DEF RegisterReadEventHandler, Change, RoundAt, Left, HandlerFound
<1>3. ASSUME NEW f \in Fds, DeregisterEventHandler(f) PROVE RoundInv'
  BY <1>3 DEF DeregisterEventHandler, Change, RoundAt, Left, HandlerFound
<1>4. CASE Run
  BY <1>4 DEF Run, HandlerFound
<1>10. CASE SelectFails
  BY <1>10 DEF SelectFails, HandlerFound
<1>5. CASE WaitForEvents
  <2>1. selected' = Ready /\ ready_fds' = Cardinality(Ready) /\ starting_fd' = 0
        /\ served' = {} /\ at' = "dispatch"
        /\ UNCHANGED <<m_call_backs, pending>>
    BY <1>5 DEF WaitForEvents, registryVars
  <2>2. Left(0)' = Ready
    <3>1. \A f \in Ready : f >= 0
      BY FdsAssumption DEF Ready, TypeOK
    <3> QED
      BY <2>1, <3>1 DEF Left
  <2>3. Ready \subseteq m_call_backs /\ \A f \in Ready : pending[f] > 0
    BY DEF Ready, RegistryInv
  <2>4. RoundAt(starting_fd, ready_fds)'
    BY <2>1, <2>2, <2>3 DEF RoundAt
  <2> QED
    BY <2>1, <2>4 DEF HandlerFound
<1>6. CASE CallHandler
  <2>1. at = "dispatch" /\ ready_fds > 0 /\ RoundAt(starting_fd, ready_fds)
        /\ UNCHANGED <<selected, ready_fds, starting_fd, m_call_backs, dropped>>
    BY <1>6 DEF CallHandler, registryVars
  <2>2. ASSUME NEW f \in GetNextReadEvent \cap m_call_backs,
               fd_to_read' = f, at' = "handler",
               pending' = [pending EXCEPT ![f] = @ - 1],
               served' = served \cup {f}
        PROVE  RoundInv'
    <3>1. /\ f \in Left(starting_fd)
          /\ Left(f + 1) = Left(starting_fd) \ {f}
          /\ Cardinality(Left(f + 1)) = ready_fds - 1
      BY <2>1, NextEvent
    <3>2. Left(fd_to_read + 1)' = Left(f + 1)
      BY <2>1, <2>2 DEF Left
    <3>3. \A g \in Left(f + 1) : g # f /\ pending[g] > 0 /\ g \in Fds
      BY <2>1, <3>1, LeftFinite DEF RoundAt
    <3>4. \A g \in Left(f + 1) : pending'[g] > 0
      BY <2>2, <3>3 DEF TypeOK
    <3>5. served' = selected \ Left(f + 1)
      BY <2>1, <2>2, <3>1 DEF RoundAt, Left
    <3>6. f \in selected
      BY <3>1 DEF Left
    <3> QED
      BY <2>1, <2>2, <3>1, <3>2, <3>4, <3>5, <3>6 DEF RoundAt, HandlerFound
  <2>3. CASE GetNextReadEvent \cap m_call_backs = {} /\ at' = "threw"
    <3>1. GetNextReadEvent # {} /\ GetNextReadEvent \subseteq dropped
      BY <2>1, <2>3, NextEvent
    <3>2. GetNextReadEvent' = GetNextReadEvent
      BY <2>1 DEF GetNextReadEvent
    <3> QED
      BY <2>1, <2>3, <3>1, <3>2 DEF HandlerFound
  <2> QED
    BY <1>6, <2>2, <2>3 DEF CallHandler
<1>7. CASE HandlerReturn
  BY <1>7 DEF HandlerReturn, NextToSearch, RoundAt, Left, registryVars, HandlerFound
<1>8. CASE RoundEnds
  BY <1>8 DEF RoundEnds, HandlerFound
<1>9. CASE UNCHANGED vars
  BY <1>9 DEF vars, registryVars, roundVars, RoundAt, Left, HandlerFound,
     GetNextReadEvent
<1> QED
  BY <1>1, <1>2, <1>3, <1>4, <1>5, <1>6, <1>7, <1>8, <1>9, <1>10 DEF Next, Loop

(***************************************************************************)
(* IInv is an invariant of the reactor.                                    *)
(***************************************************************************)
LEMMA Invariance == Spec => []IInv
<1>1. IInv /\ [Next]_vars => IInv'
  BY NextTypeOK, NextRegistry, NextRound DEF IInv
<1> QED
  BY InitInv, <1>1, PTL DEF Spec

(***************************************************************************)
(* Registration and the loop of Run keep every variable in its type; no    *)
(* handler is called on a descriptor that has nothing to read.             *)
(***************************************************************************)
THEOREM TypeCorrect == Spec => []TypeOK
<1>1. IInv => TypeOK
  BY DEF IInv
<1> QED
  BY <1>1, Invariance, PTL

(***************************************************************************)
(* For any descriptors and any order of registrations, select looks at     *)
(* every descriptor with a handler, although Deregister leaves m_maxfd and *)
(* m_registered_fds as they are.                                           *)
(***************************************************************************)
THEOREM SelectComplete == Spec => []SelectSeesAll
<1>1. IInv => SelectSeesAll
  BY DEF IInv, RegistryInv, SelectSeesAll
<1> QED
  BY <1>1, Invariance, PTL

(***************************************************************************)
(* m_call_backs.at throws in Run only for a descriptor that a handler of   *)
(* the same round deregistered before its turn.                            *)
(***************************************************************************)
THEOREM RunFindsHandlers == Spec => []HandlerFound
<1>1. IInv => HandlerFound
  BY DEF IInv, RoundInv
<1> QED
  BY <1>1, Invariance, PTL

(***************************************************************************)
(* Every round of Run calls the handlers of exactly the descriptors that   *)
(* select found ready.                                                     *)
(***************************************************************************)
THEOREM RoundComplete == Spec => []RoundServesReady
<1>1. IInv => RoundServesReady
  <2> SUFFICES ASSUME IInv, at = "dispatch", ready_fds = 0
               PROVE  served = selected
    BY DEF RoundServesReady
  <2>1. IsFiniteSet(Left(starting_fd)) /\ Cardinality(Left(starting_fd)) = 0
    BY LeftFinite DEF IInv, RoundInv, RoundAt
  <2>2. Left(starting_fd) = {}
    BY <2>1, FS_EmptySet
  <2> QED
    BY <2>2 DEF IInv, RoundInv, RoundAt
<1> QED
  BY <1>1, Invariance, PTL

=============================================================================
