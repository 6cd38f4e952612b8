------------------------------- MODULE MCPool -------------------------------
(* Two block names beside the first, two chunks, requests that fill a block  *)
(* in different ways, and the code's limits 4, 5 and 15 scaled down.         *)
EXTENDS Pool, TLC

Symmetry == Permutations(Blocks) \cup Permutations(Bigs)
=============================================================================
