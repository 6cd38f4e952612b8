----------------------------- MODULE Containers -----------------------------
(***************************************************************************)
(* A list and an array that draw on one pool: whether the array's regions  *)
(* follow each other depends on what the list allocates between them.      *)
(***************************************************************************)
EXTENDS List, Array

vars == <<pool, crashed, list, call, array>>

Init == PoolInit /\ ListInit /\ ArrayInit

\* Nothing runs after a crash.
Next ==
  \/ ~crashed /\ ListNext /\ UNCHANGED array
  \/ ~crashed /\ ArrayNext /\ UNCHANGED <<list, call>>

Spec == Init /\ [][Next]_vars

=============================================================================
