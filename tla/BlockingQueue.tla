----------------------------- MODULE BlockingQueue -----------------------------
(***************************************************************************)
(* What a queue between threads promises: items come out once each, in the *)
(* order they went in, and an item that is in the queue is taken while     *)
(* threads keep asking for one.                                            *)
(***************************************************************************)
EXTENDS Naturals, Sequences

CONSTANT MaxItems     \* bound on the items put

VARIABLES contents, delivered

vars == <<contents, delivered>>

Init == contents = <<>> /\ delivered = <<>>

(***************************************************************************)
(* Items are told apart by the order in which they are put.                *)
(***************************************************************************)
Put ==
  /\ Len(delivered) + Len(contents) < MaxItems
  /\ contents' = Append(contents, Len(delivered) + Len(contents) + 1)
  /\ UNCHANGED delivered

Take ==
  /\ contents # <<>>
  /\ contents'  = Tail(contents)
  /\ delivered' = Append(delivered, Head(contents))

Next == Put \/ Take

Spec == Init /\ [][Next]_vars

FairSpec == Spec /\ WF_vars(Take)

=============================================================================
