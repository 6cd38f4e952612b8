-------------------------------- MODULE Row --------------------------------
(***************************************************************************)
(* What the array of art_data promises its callers: elements that stay as  *)
(* the caller stored them, each at its place, while more are added behind  *)
(* them; there is no operation that takes one out.  The caller stores in   *)
(* each element its number.                                                *)
(***************************************************************************)
EXTENDS Naturals, Sequences

CONSTANT Counts   \* how many elements a push may add

VARIABLE elements

Init == elements = <<>>

Push(n) == elements' = elements \o [i \in 1..n |-> Len(elements) + i]

Next == \E n \in Counts : Push(n)

Spec == Init /\ [][Next]_elements

=============================================================================
