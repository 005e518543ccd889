------------------------------ MODULE BlockDevice ------------------------------
(***************************************************************************)
(* What the daemon promises to the kernel that mounts /dev/nbd0: a block   *)
(* device.  A request is submitted, takes effect on each of its blocks     *)
(* once and in any order, and is answered once, after its effect on the    *)
(* last block, with what a READ found.  A block is FRAGMENT_SIZE bytes.    *)
(* Requests in flight together may interleave block by block: the device   *)
(* is atomic per block, not per request.  A disconnect has no blocks and   *)
(* is never answered.  The device may break: from then on an answer says   *)
(* nothing and a WRITE may store other bytes, but the blocks still change  *)
(* by the WRITEs for them alone and once for each.  A broken device may be *)
(* ruined: then it may do anything.                                        *)
(***************************************************************************)
CONSTANTS
  Handles,      \* the identities of the kernel's requests
  Shapes,       \* the requests the kernel may submit
  Addresses,    \* the addresses of the device's blocks
  Unset,        \* not submitted, not answered
  Zero,         \* the contents of a block never written
  Blocks(_),    \* the indices 0, 1, ... of the blocks of a request
  Address(_,_), \* the device address of a block of a request
  Payload(_,_)  \* what a WRITE carries for a block

VARIABLES
  disk,         \* the contents of the device
  submitted,    \* the request of each handle
  effect,       \* per handle: what each block done so far read or wrote
  answered,     \* per handle: what a READ was answered with
  broken,       \* a part of the device is lost
  ruined        \* and nothing is known of the rest

vars == <<disk, submitted, effect, answered, broken, ruined>>

Init ==
  /\ disk      = [a \in Addresses |-> Zero]
  /\ submitted = [h \in Handles |-> Unset]
  /\ effect    = [h \in Handles |-> [k \in {} |-> Zero]]
  /\ answered  = [h \in Handles |-> Unset]
  /\ broken    = FALSE
  /\ ruined    = FALSE

Submit(h) ==
  /\ submitted[h] = Unset
  /\ \E s \in Shapes : submitted' = [submitted EXCEPT ![h] = s]
  /\ UNCHANGED <<disk, effect, answered, broken, ruined>>

Done(h) == DOMAIN effect[h]

Record(h, k, v) ==
  effect' = [effect EXCEPT
               ![h] = [j \in Done(h) \cup {k} |-> IF j = k THEN v ELSE @[j]]]

ReadBlock(h, k) ==
  /\ submitted[h].type = "READ"
  /\ Record(h, k, disk[Address(submitted[h], k)])
  /\ UNCHANGED <<disk, submitted, answered, broken, ruined>>

WriteBlock(h, k) ==
  LET a == Address(submitted[h], k) IN
  /\ submitted[h].type = "WRITE"
  /\ disk' = [disk EXCEPT ![a] = disk'[a]]
  /\ disk'[a] = Payload(h, k) \/ broken
  /\ Record(h, k, disk'[a])
  /\ UNCHANGED <<submitted, answered, broken, ruined>>

Answer(h) ==
  /\ answered[h] = Unset
  /\ submitted[h].type \in {"READ", "WRITE"}
  /\ \/ /\ Done(h) = Blocks(submitted[h])
        /\ answered' = [answered EXCEPT ![h] =
                          IF submitted[h].type = "READ" THEN effect[h] ELSE <<>>]
     \/ broken /\ answered' = [answered EXCEPT ![h] = answered'[h]]
  /\ UNCHANGED <<disk, submitted, effect, broken, ruined>>

Break ==
  /\ ~broken /\ broken' = TRUE
  /\ UNCHANGED <<disk, submitted, effect, answered, ruined>>

Ruin == broken /\ ruined' = TRUE

Next ==
  \/ \E h \in Handles :
       \/ Submit(h)
       \/ /\ submitted[h] # Unset
          /\ \/ \E k \in Blocks(submitted[h]) \ Done(h) :
                  ReadBlock(h, k) \/ WriteBlock(h, k)
             \/ Answer(h)
  \/ Break \/ Ruin

Spec == Init /\ [][Next]_vars

=============================================================================
