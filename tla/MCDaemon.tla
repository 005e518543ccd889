------------------------------- MODULE MCDaemon -------------------------------
(***************************************************************************)
(* Small instances of Daemon for TLC.  A fragment is one byte long, so     *)
(* that addresses count fragments.                                         *)
(***************************************************************************)
EXTENDS Daemon, TLC

Read(a, n)  == [type |-> "READ",  from |-> a, len |-> n]
Write(a, n) == [type |-> "WRITE", from |-> a, len |-> n]
Disconnect  == [type |-> "DISC",  from |-> 0, len |-> 0]

(***************************************************************************)
(* Requests of two fragments that cross from one device to the next, and   *)
(* of one fragment, overlapping them; and a disconnect.                    *)
(***************************************************************************)
OverlappingShapes ==
  {Read(0, 2), Write(0, 2), Read(1, 1), Write(1, 1), Disconnect}

LiveShapes == {Read(0, 2), Write(0, 2)}

Interchangeable == Permutations(Handles) \cup Permutations(Workers)

=============================================================================
