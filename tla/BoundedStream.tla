--------------------------- MODULE BoundedStream ----------------------------
(***************************************************************************)
(* What a buffer promises: elements go in at one end and come out at the   *)
(* other in the same order, any number at a time, and never more than      *)
(* Capacity are inside.  The elements are numbered, so that counting them  *)
(* says which ones have passed.                                            *)
(***************************************************************************)
EXTENDS Integers

CONSTANT Capacity

VARIABLES
    in,         \* elements that have been put in
    out         \* elements that have been taken out

Init == in = 0 /\ out = 0

PutIn ==
    /\ in' \in in + 1 .. out + Capacity
    /\ out' = out

TakeOut ==
    /\ out' \in out + 1 .. in
    /\ in' = in

Next == PutIn \/ TakeOut

Spec == Init /\ [][Next]_<<in, out>>
=============================================================================
