------------------------------- MODULE Mutex -------------------------------
(***************************************************************************)
(* What art_spinlock, art_trylock and art_unlock promise to their callers, *)
(* art_palloc, art_pnalloc, art_pmemalign and art_time_updata: at any time *)
(* at most one thread is between a successful acquisition and its unlock.  *)
(***************************************************************************)

CONSTANT Threads

VARIABLE owners   \* the threads between an acquisition and its unlock

Init == owners = {}

Acquire(t) ==
  /\ owners = {}
  /\ owners' = {t}

Release(t) ==
  /\ owners = {t}
  /\ owners' = {}

Next == \E t \in Threads : Acquire(t) \/ Release(t)

Spec == Init /\ [][Next]_owners

=============================================================================
