---------------------------- MODULE PoolThreads ----------------------------
(***************************************************************************)
(* Threads that share one memory pool of ark_core/memory.  art_palloc and  *)
(* art_pmemalign take the pool's lock, art_pfree and art_pool_cleanup_add  *)
(* do not, and art_pmemalign links its record after it gave the lock back; *)
(* each access to the shared d.last, to the two lists and to a record is a *)
(* step of its own.  The pool's one block is a row of equal slots, cut at  *)
(* `last`.  The lock is taken in one step, as Spinlock's refinement of     *)
(* Mutex allows.                                                           *)
(***************************************************************************)
EXTENDS Naturals, Sequences

CONSTANTS
  Threads,
  Slots,         \* bound: how many pieces the block can be cut into
  Chunks,        \* what malloc and posix_memalign return for a large request
  None,          \* NULL
  ScanLimit,     \* large records looked at for reuse, 5 by `n++ > 3`
  Disciplines    \* who may call what: a set of functions from Threads to Ops

Ops == {"small", "large", "memalign", "pfree", "cleanup"}

ASSUME ThreadsAssumption ==
  /\ Slots \in Nat /\ ScanLimit \in Nat /\ None \notin Chunks
  /\ Disciplines \subseteq [Threads -> SUBSET Ops]

VARIABLES
  mayCall,   \* the discipline of this execution
  lock,      \* pool->lock
  last,      \* slots cut from the block so far, pool->d.last
  large,     \* pool->large as the slots of its records, the list's head last
  alloc,     \* the alloc field of each record, by slot
  cleanup,   \* pool->cleanup, likewise
  heap,      \* chunks that the system's allocator regards as in use
  small,     \* ghost: the pieces returned by art_palloc, with repetition
  held,      \* ghost: the chunks in the callers' hands
  pc, op,    \* each thread's place in the call it makes
  rec,       \* the slot it cut, or the record it found
  mem,       \* the chunk it got or frees
  seen       \* the value of a list head that it read, or the rest of its walk

shared == <<lock, last, large, alloc, cleanup, heap>>
ghosts == <<small, held>>
locals == <<pc, op, rec, mem, seen>>
vars   == <<mayCall, shared, ghosts, locals>>

Init ==
  /\ mayCall \in Disciplines
  /\ lock = 0 /\ last = 0 /\ heap = {}
  /\ large = <<>> /\ cleanup = <<>>
  /\ alloc = [s \in 1..Slots |-> None]
  /\ small = <<>> /\ held = {}
  /\ pc = [t \in Threads |-> "idle"] /\ op = [t \in Threads |-> "none"]
  /\ rec = [t \in Threads |-> 0] /\ mem = [t \in Threads |-> None]
  /\ seen = [t \in Threads |-> <<>>]

At(t, l)   == pc[t] = l
Goto(t, l) == pc' = [pc EXCEPT ![t] = l]

\* A call ends: the thread's locals are gone.
Return(t) ==
  /\ Goto(t, "idle") /\ op' = [op EXCEPT ![t] = "none"]
  /\ rec' = [rec EXCEPT ![t] = 0] /\ mem' = [mem EXCEPT ![t] = None]
  /\ seen' = [seen EXCEPT ![t] = <<>>]

-----------------------------------------------------------------------------
(* Calls begin: with the lock, with a chunk for art_pmemalign, or at once.  *)

Call(t, o) ==
  /\ At(t, "idle") /\ o \in mayCall[t] /\ o # "pfree"
  /\ op' = [op EXCEPT ![t] = o]
  /\ Goto(t, CASE o = "memalign" -> "malloc"
               [] o = "cleanup"  -> "readlast"
               [] OTHER          -> "spin")
  /\ UNCHANGED <<mayCall, shared, ghosts, rec, mem, seen>>

\* No wait for the lock (for the mutant runs).
LockTaken(t) ==
  /\ At(t, "spin")
  /\ lock' = 1
  /\ Goto(t, CASE op[t] = "small"    -> "readlast"
               [] op[t] = "large"    -> "malloc"
               [] op[t] = "memalign" -> "scan")
  /\ UNCHANGED <<mayCall, last, large, alloc, cleanup, heap, ghosts, op, rec, mem, seen>>

\* art_spinlock returns.
Lock(t) ==
  /\ At(t, "spin") /\ lock = 0
  /\ lock' = 1
  /\ Goto(t, CASE op[t] = "small"    -> "readlast"
               [] op[t] = "large"    -> "malloc"
               [] op[t] = "memalign" -> "scan")
  /\ UNCHANGED <<mayCall, last, large, alloc, cleanup, heap, ghosts, op, rec, mem, seen>>

\* art_malloc of art_palloc_large, under the lock, or art_memalign of
\* art_pmemalign, before it.
Malloc(t) ==
  /\ At(t, "malloc")
  /\ \E m \in Chunks \ heap :
       heap' = heap \cup {m} /\ mem' = [mem EXCEPT ![t] = m]
  /\ Goto(t, IF op[t] = "large" THEN "scan" ELSE "spin")
  /\ UNCHANGED <<mayCall, lock, last, large, alloc, cleanup, ghosts, op, rec, seen>>

\* art_palloc returns NULL before art_unlock (for the mutant runs).
MallocFailsLocked(t) ==
  /\ At(t, "malloc")
  /\ Return(t)
  /\ UNCHANGED <<mayCall, shared, ghosts>>

\* No memory: NULL to the caller.
MallocFails(t) ==
  /\ At(t, "malloc")
  /\ IF op[t] = "large" THEN Goto(t, "unlock") /\ UNCHANGED <<op, rec, mem, seen>>
     ELSE Return(t)
  /\ UNCHANGED <<mayCall, shared, ghosts>>

-----------------------------------------------------------------------------
(* art_palloc_small: d.last is read, then written.                         *)

ReadLast(t) ==
  /\ At(t, "readlast") /\ last < Slots
  /\ rec' = [rec EXCEPT ![t] = last + 1]
  /\ Goto(t, "writelast")
  /\ UNCHANGED <<mayCall, shared, ghosts, op, mem, seen>>

WriteLast(t) ==
  /\ At(t, "writelast")
  /\ last' = rec[t]
  /\ Goto(t, CASE op[t] = "small"    -> "unlock"
               [] op[t] = "large"    -> "link"
               [] op[t] = "memalign" -> "unlock"
               [] op[t] = "cleanup"  -> "link")
  /\ UNCHANGED <<mayCall, lock, large, alloc, cleanup, heap, ghosts, op, rec, mem, seen>>

\* The block is full and the system has no other: art_palloc_small is NULL.
\* art_pmemalign returns from here with the lock.
Full(t) ==
  /\ At(t, "readlast") /\ last = Slots
  /\ heap' = heap \ {mem[t]}
  /\ IF op[t] \in {"small", "large"}
     THEN /\ Goto(t, "unlock") /\ mem' = [mem EXCEPT ![t] = None]
          /\ UNCHANGED <<op, rec, seen>>
     ELSE Return(t)
  /\ UNCHANGED <<mayCall, lock, last, large, alloc, cleanup, ghosts>>

-----------------------------------------------------------------------------
(* The large list.                                                         *)

\* large = pool->large: `seen` holds the records that the walk for an unused
\* one has before it, the first of them last.
Scan(t) ==
  /\ At(t, "scan")
  /\ LET first == IF Len(large) > ScanLimit THEN Len(large) - ScanLimit + 1 ELSE 1
     IN  seen' = [seen EXCEPT ![t] = SubSeq(large, first, Len(large))]
  /\ Goto(t, "look")
  /\ UNCHANGED <<mayCall, shared, ghosts, op, rec, mem>>

\* large->alloc == NULL ends the walk, and so does the end of the list.
Look(t) ==
  /\ At(t, "look")
  /\ IF seen[t] = <<>>
     THEN Goto(t, "readlast") /\ UNCHANGED <<rec, seen>>
     ELSE LET r == seen[t][Len(seen[t])]
          IN  IF alloc[r] = None
              THEN Goto(t, "fill") /\ rec' = [rec EXCEPT ![t] = r] /\ UNCHANGED seen
              ELSE /\ seen' = [seen EXCEPT ![t] = SubSeq(@, 1, Len(@) - 1)]
                   /\ UNCHANGED <<pc, rec>>
  /\ UNCHANGED <<mayCall, shared, ghosts, op, mem>>

\* large->alloc = p; art_pmemalign returns from here with the lock.
Fill(t) ==
  /\ At(t, "fill")
  /\ alloc' = [alloc EXCEPT ![rec[t]] = mem[t]]
  /\ held' = held \cup {mem[t]}
  /\ IF op[t] = "large"
     THEN /\ Goto(t, "unlock") /\ mem' = [mem EXCEPT ![t] = None]
          /\ UNCHANGED <<op, rec, seen>>
     ELSE Return(t)
  /\ UNCHANGED <<mayCall, lock, last, large, cleanup, heap, small>>

\* The record linked without its chunk (for the mutant runs).
LinkEmpty(t) ==
  /\ At(t, "link")
  /\ seen' = [seen EXCEPT ![t] = IF op[t] = "cleanup" THEN cleanup ELSE large]
  /\ Goto(t, "push")
  /\ UNCHANGED <<mayCall, shared, ghosts, op, rec, mem>>

\* record->next = list head
Link(t) ==
  /\ At(t, "link")
  /\ seen' = [seen EXCEPT ![t] = IF op[t] = "cleanup" THEN cleanup ELSE large]
  /\ alloc' = IF op[t] = "cleanup" THEN alloc ELSE [alloc EXCEPT ![rec[t]] = mem[t]]
  /\ Goto(t, "push")
  /\ UNCHANGED <<mayCall, lock, last, large, cleanup, heap, ghosts, op, rec, mem>>

\* list head = record
Push(t) ==
  /\ At(t, "push")
  /\ IF op[t] = "cleanup"
     THEN cleanup' = Append(seen[t], rec[t]) /\ UNCHANGED <<large, held>>
     ELSE /\ large' = Append(seen[t], rec[t])
          /\ held' = held \cup {mem[t]} /\ UNCHANGED cleanup
  /\ IF op[t] = "large"
     THEN /\ Goto(t, "unlock") /\ mem' = [mem EXCEPT ![t] = None]
          /\ UNCHANGED <<op, rec, seen>>
     ELSE Return(t)
  /\ UNCHANGED <<mayCall, lock, last, alloc, heap, small>>

\* art_unlock; art_pmemalign has its record still to link.
Unlock(t) ==
  /\ At(t, "unlock")
  /\ lock' = 0
  /\ small' = IF op[t] = "small" /\ rec[t] # 0 THEN Append(small, rec[t]) ELSE small
  /\ IF op[t] = "memalign" THEN Goto(t, "link") /\ UNCHANGED <<op, rec, mem, seen>>
     ELSE Return(t)
  /\ UNCHANGED <<mayCall, last, large, alloc, cleanup, heap, held>>

-----------------------------------------------------------------------------
(* art_pfree, without the lock, for a chunk in its caller's hands.         *)

Find(t) ==
  /\ At(t, "idle") /\ "pfree" \in mayCall[t]
  /\ \E m \in held :
       /\ held' = held \ {m}
       /\ mem' = [mem EXCEPT ![t] = m]
       /\ \E i \in DOMAIN large :
            /\ alloc[large[i]] = m
            /\ \A j \in DOMAIN large : alloc[large[j]] = m => j <= i
            /\ rec' = [rec EXCEPT ![t] = large[i]]
  /\ op' = [op EXCEPT ![t] = "pfree"]
  /\ Goto(t, "free")
  /\ UNCHANGED <<mayCall, shared, small, seen>>

Free(t) ==
  /\ At(t, "free")
  /\ heap' = heap \ {mem[t]}
  /\ Goto(t, "clear")
  /\ UNCHANGED <<mayCall, lock, last, large, alloc, cleanup, ghosts, op, rec, mem, seen>>

\* art_pfree without `l->alloc = NULL` (for the mutant runs).
ClearNothing(t) ==
  /\ At(t, "clear")
  /\ Return(t)
  /\ UNCHANGED <<mayCall, shared, ghosts>>

Clear(t) ==
  /\ At(t, "clear")
  /\ alloc' = [alloc EXCEPT ![rec[t]] = None]
  /\ Return(t)
  /\ UNCHANGED <<mayCall, lock, last, large, cleanup, heap, ghosts>>

-----------------------------------------------------------------------------

\* What a thread inside a call does next; whether it calls is its own affair.
Step(t) ==
  \/ Lock(t) \/ Malloc(t) \/ MallocFails(t) \/ ReadLast(t) \/ WriteLast(t)
  \/ Full(t) \/ Scan(t) \/ Look(t) \/ Fill(t) \/ Link(t) \/ Push(t) \/ Unlock(t)
  \/ Free(t) \/ Clear(t)

Next == \E t \in Threads : (\E o \in Ops : Call(t, o)) \/ Find(t) \/ Step(t)

\* The scheduler runs every thread that can take a step.
Fairness == \A t \in Threads : WF_vars(Step(t))

Spec == Init /\ [][Next]_vars /\ Fairness

-----------------------------------------------------------------------------
(* Properties *)

\* Two threads never get the same piece of the block: what art_palloc
\* returned and what the two lists use for their records are all different.
NoDoubleGrant ==
  LET used == small \o large \o cleanup
  IN  \A i, j \in DOMAIN used : used[i] = used[j] => i = j

\* Every chunk in a caller's hands is found by art_pfree, and freed by
\* art_reset_pool and art_destroy_pool: no record is lost when two calls
\* link theirs at the same time.
ChunksRecorded == held \subseteq {alloc[large[i]] : i \in DOMAIN large}

\* A record names a chunk that is still allocated, except between the two
\* statements of art_pfree that free it and clear it; then the name may be
\* given to another thread, and only the record about to be cleared has it.
NoStaleRecord ==
  LET clearing == {rec[t] : t \in {u \in Threads : pc[u] = "clear"}}
      recorded == {i \in DOMAIN large : alloc[large[i]] # None /\ large[i] \notin clearing}
  IN  /\ \A i \in recorded : alloc[large[i]] \in heap
      /\ \A i, j \in recorded : alloc[large[i]] = alloc[large[j]] => i = j

\* Whoever took the lock gives it back, whatever path the call takes, as long
\* as nobody calls art_pmemalign.
LockReleased ==
  (\A t \in Threads : "memalign" \notin mayCall[t]) =>
    (lock = 1 ~> lock = 0)

-----------------------------------------------------------------------------
(* What the repository says and the code does not do *)

\* art_pmemalign, "get a large memory block that alignmently": it takes the
\* lock for the large list and is to give it back, as art_palloc does.
LockReturned == lock = 1 ~> lock = 0

=============================================================================
