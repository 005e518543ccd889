------------------------------- MODULE Striping -------------------------------
(***************************************************************************)
(* Where the Slicer puts the bytes of the block device.                    *)
(*                                                                         *)
(* Slicer::Slice (concrete/slicer/slicer.cpp) cuts a request into          *)
(* fragments of FRAGMENT_SIZE bytes and walks over the IoT devices,        *)
(* carrying a pair (curr_iot, starting_offset) from one fragment to the    *)
(* next.  The walk is modelled as the code writes it: a start position and *)
(* a step.  Home is the reference definition the walk is checked against.  *)
(***************************************************************************)
EXTENDS Integers

CONSTANT FRAGMENT_SIZE    \* 1024 in the code

ASSUME FragmentSizeAssumption == FRAGMENT_SIZE \in Nat \ {0}

NumOfFragments(len) == len \div FRAGMENT_SIZE

FirstFragIdx(from) == from \div FRAGMENT_SIZE

(***************************************************************************)
(* The position of the first fragment on n devices, and the move to the    *)
(* next one: the next device, and the next row once the devices wrap.      *)
(***************************************************************************)
StartPosition(from, n) ==
  [iot    |-> FirstFragIdx(from) % n,
   offset |-> (FirstFragIdx(from) \div n) * FRAGMENT_SIZE]

\* Mutants: the row is not advanced, or the device does not wrap.
NextPositionNoCarry(p, n) ==
  [iot |-> (p.iot + 1) % n, offset |-> p.offset]
NextPositionNoModulo(p, n) ==
  [iot |-> p.iot + 1, offset |-> p.offset]

NextPosition(p, n) ==
  LET curr_iot == (p.iot + 1) % n
  IN  [iot    |-> curr_iot,
       offset |-> IF curr_iot = 0 THEN p.offset + FRAGMENT_SIZE ELSE p.offset]

(***************************************************************************)
(* The positions of the first count fragments of a request at from.        *)
(***************************************************************************)
Positions(from, count, n) ==
  LET pos[k \in 0 .. count] == IF k = 0 THEN StartPosition(from, n)
                                        ELSE NextPosition(pos[k - 1], n)
  IN  pos

-----------------------------------------------------------------------------
(***************************************************************************)
(* Reference: the device and the offset that hold device address a, a      *)
(* multiple of FRAGMENT_SIZE, in a round-robin striping over n devices.    *)
(***************************************************************************)
Home(a, n) ==
  [iot    |-> (a \div FRAGMENT_SIZE) % n,
   offset |-> ((a \div FRAGMENT_SIZE) \div n) * FRAGMENT_SIZE]

=============================================================================
