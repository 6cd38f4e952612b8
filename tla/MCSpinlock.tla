----------------------------- MODULE MCSpinlock -----------------------------
(* Three threads on two or more processors; spin = 4 gives the back-offs    *)
(* n = 1 and n = 2 of a round, the shape that spin = 2048 has with eleven.  *)
EXTENDS Spinlock
=============================================================================
