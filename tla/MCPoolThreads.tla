--------------------------- MODULE MCPoolThreads ---------------------------
(* Two threads, enough for every pair of calls to interleave, under the uses *)
(* of the pool that its locking supports: several threads allocate and one   *)
(* of them frees, or one thread allocates in every way and the other frees.  *)
EXTENDS PoolThreads, TLC

CONSTANTS t1, t2

MCDisciplines ==
  {(t1 :> {"small", "large", "pfree"}) @@ (t2 :> {"small", "large"}),
   (t1 :> {"small", "large", "memalign", "cleanup"}) @@ (t2 :> {"pfree"})}

(* One thread that asks for aligned memory and frees it.                     *)
MCMemalign == {(t1 :> {"memalign", "pfree"}) @@ (t2 :> {})}
=============================================================================
