------------------------- MODULE PoolThreadsProofs -------------------------
(***************************************************************************)
(* What the memory pool's locking gives, for any number of threads, slots  *)
(* and chunks: no piece of the block twice, every chunk in its record, no  *)
(* record of a freed chunk - in every use of the pool that the locking     *)
(* supports, which is a condition on who calls what.                       *)
(***************************************************************************)
EXTENDS PoolThreads, SequenceTheorems, TLAPS

\* What the locking supports: one thread frees, and as soon as one thread
\* calls art_pmemalign or art_pool_cleanup_add it is the only one to allocate.
Supported ==
  \A D \in Disciplines : \A t, u \in Threads :
    /\ "pfree" \in D[t] /\ "pfree" \in D[u] => t = u
    /\ D[t] \cap {"memalign", "cleanup"} # {} /\ D[u] \cap (Ops \ {"pfree"}) # {} => t = u

-----------------------------------------------------------------------------
(* The inductive invariant *)

Elems(s)    == {s[i] : i \in DOMAIN s}
Distinct(s) == \A i, j \in DOMAIN s : s[i] = s[j] => i = j

\* s is a walk through records of the list.
Among(s, list) == s \in Seq(Elems(list))

\* The thread works on d.last or a list; it is the only one.
Owner(t) ==
  \/ pc[t] \in {"scan", "look", "fill", "readlast", "writelast", "link", "push", "unlock"}
  \/ pc[t] = "malloc" /\ op[t] = "large"

\* The thread has cut a piece that nothing names yet.
Pending(t) ==
  \/ pc[t] \in {"link", "push"}
  \/ pc[t] = "unlock" /\ op[t] = "memalign"
  \/ pc[t] = "unlock" /\ op[t] = "small" /\ rec[t] # 0

\* The thread has a chunk from the system that no record names yet.
Carrying(t) == op[t] \in {"large", "memalign"} /\ mem[t] # None

Freeing(t) == pc[t] \in {"free", "clear"}

Typed ==
  /\ lock \in {0, 1} /\ last \in 0..Slots
  /\ large \in Seq(1..Slots) /\ cleanup \in Seq(1..Slots) /\ small \in Seq(1..Slots)
  /\ alloc \in [1..Slots -> Chunks \cup {None}]
  /\ heap \subseteq Chunks /\ held \subseteq Chunks

LocalsTyped ==
  /\ mayCall \in Disciplines
  /\ DOMAIN pc = Threads /\ DOMAIN seen = Threads
  /\ op \in [Threads -> Ops \cup {"none"}]
  /\ rec \in [Threads -> 0..Slots] /\ mem \in [Threads -> Chunks \cup {None}]
  /\ \A t \in Threads : op[t] # "none" => op[t] \in mayCall[t]

\* What a thread's locals are at each place of its call.
Place(t) ==
  \/ pc[t] = "idle" /\ op[t] = "none" /\ rec[t] = 0 /\ mem[t] = None
  \/ pc[t] = "spin" /\ op[t] \in {"small", "large"} /\ rec[t] = 0 /\ mem[t] = None
  \/ pc[t] = "spin" /\ op[t] = "memalign" /\ rec[t] = 0 /\ mem[t] # None
  \/ pc[t] = "malloc" /\ op[t] \in {"large", "memalign"} /\ rec[t] = 0 /\ mem[t] = None
  \/ pc[t] = "scan" /\ op[t] \in {"large", "memalign"} /\ rec[t] = 0 /\ mem[t] # None
  \/ /\ pc[t] = "look" /\ op[t] \in {"large", "memalign"} /\ rec[t] = 0 /\ mem[t] # None
     /\ Among(seen[t], large)
  \/ /\ pc[t] = "fill" /\ op[t] \in {"large", "memalign"} /\ mem[t] # None
     /\ rec[t] \in Elems(large) /\ alloc[rec[t]] = None
  \/ /\ pc[t] = "readlast" /\ rec[t] = 0
     /\ IF op[t] \in {"large", "memalign"} THEN mem[t] # None
        ELSE op[t] \in {"small", "cleanup"} /\ mem[t] = None
  \/ /\ pc[t] = "writelast" /\ rec[t] = last + 1
     /\ IF op[t] \in {"large", "memalign"} THEN mem[t] # None
        ELSE op[t] \in {"small", "cleanup"} /\ mem[t] = None
  \/ pc[t] = "link" /\ op[t] \in {"large", "memalign"} /\ mem[t] # None
  \/ pc[t] = "link" /\ op[t] = "cleanup" /\ mem[t] = None
  \/ /\ pc[t] = "push" /\ op[t] \in {"large", "memalign"} /\ mem[t] # None
     /\ seen[t] = large /\ alloc[rec[t]] = mem[t]
  \/ pc[t] = "push" /\ op[t] = "cleanup" /\ mem[t] = None /\ seen[t] = cleanup
  \/ pc[t] = "unlock" /\ op[t] \in {"small", "large"} /\ mem[t] = None
  \/ pc[t] = "unlock" /\ op[t] = "memalign" /\ mem[t] # None
  \/ pc[t] = "free" /\ op[t] = "pfree" /\ mem[t] # None
  \/ pc[t] = "clear" /\ op[t] = "pfree"

\* The lock's holder, and art_pmemalign and art_pool_cleanup_add without the
\* lock, have the pool to themselves.
Exclusive ==
  /\ \A t, u \in Threads : Owner(t) /\ Owner(u) => t = u
  /\ \A t \in Threads : Owner(t) /\ op[t] \in {"small", "large"} => lock = 1
  /\ \A t, u \in Threads : Freeing(t) /\ Freeing(u) => t = u

\* Each piece of the block is named once.
Pieces ==
  /\ Distinct(small) /\ Distinct(large) /\ Distinct(cleanup)
  /\ Elems(small) \cap Elems(large) = {}
  /\ Elems(small) \cap Elems(cleanup) = {}
  /\ Elems(large) \cap Elems(cleanup) = {}
  /\ Elems(small) \cup Elems(large) \cup Elems(cleanup) \subseteq 1..last
  /\ \A t \in Threads : Pending(t) =>
       rec[t] \in (1..last) \ (Elems(small) \cup Elems(large) \cup Elems(cleanup))

\* The slots whose record is in the large list and not about to be cleared.
Records == {s \in Elems(large) : \A u \in Threads : pc[u] = "clear" => rec[u] # s}

\* Each chunk is in one record, and in the system's heap.
ChunksNamed ==
  /\ \A s \in Records : alloc[s] # None => alloc[s] \in heap
  /\ \A s, r \in Records : alloc[s] = alloc[r] /\ alloc[s] # None => s = r
  /\ \A m \in held : \E s \in Records : alloc[s] = m

\* A chunk on its way to its record.
Carried ==
  /\ \A t \in Threads : Carrying(t) =>
       mem[t] \in heap /\ \A s \in Records : alloc[s] # mem[t]
  /\ \A t, u \in Threads : Carrying(t) /\ Carrying(u) /\ mem[t] = mem[u] => t = u

\* A chunk on its way out of its record.
Freed ==
  \A t \in Threads : Freeing(t) =>
    /\ rec[t] \in Elems(large) /\ alloc[rec[t]] # None
    /\ pc[t] = "free" => alloc[rec[t]] = mem[t] /\ mem[t] \notin held

IInv ==
  /\ Typed /\ LocalsTyped /\ \A t \in Threads : Place(t)
  /\ Exclusive /\ Pieces /\ ChunksNamed /\ Carried /\ Freed

-----------------------------------------------------------------------------
(* Sequences as the sets of their elements *)

LEMMA ElementsOf ==
  ASSUME NEW S, NEW s \in Seq(S)
  PROVE  Elems(s) \subseteq S
BY ElementOfSeq DEF Elems

LEMMA AppendSlot ==
  ASSUME NEW s \in Seq(1..Slots), NEW x \in 1..Slots, Distinct(s), x \notin Elems(s),
         NEW a, a = Append(s, x)
  PROVE  a \in Seq(1..Slots) /\ Elems(a) = Elems(s) \cup {x} /\ Distinct(a)
<1>1. /\ a \in Seq(1..Slots) /\ Len(a) = Len(s) + 1 /\ a[Len(s) + 1] = x
      /\ \A i \in 1..Len(s) : a[i] = s[i]
  BY AppendProperties
<1>2. DOMAIN s = 1..Len(s) /\ DOMAIN a = 1..(Len(s) + 1) /\ Len(s) \in Nat
  BY <1>1, LenProperties
<1>3. Elems(a) = Elems(s) \cup {x}
  BY <1>1, <1>2 DEF Elems
<1>4. Distinct(a)
  BY <1>1, <1>2 DEF Distinct, Elems
<1>. QED BY <1>1, <1>3, <1>4

LEMMA EmptyElems == Elems(<<>>) = {} /\ Distinct(<<>>)
BY DEF Elems, Distinct


-----------------------------------------------------------------------------
(* What a step of t leaves as it was *)

\* The other threads' locals, and where t is after the step.
Others(t) ==
  \A u \in Threads : u # t =>
    /\ pc'[u] = pc[u] /\ op'[u] = op[u] /\ rec'[u] = rec[u]
    /\ mem'[u] = mem[u] /\ seen'[u] = seen[u]

Locals(t, place, call, slot, chunk) ==
  /\ Others(t) /\ LocalsTyped'
  /\ pc'[t] = place /\ op'[t] = call /\ rec'[t] = slot /\ mem'[t] = chunk

LEMMA ReturnLocals ==
  ASSUME LocalsTyped, NEW t \in Threads, Return(t), mayCall' = mayCall
  PROVE  Locals(t, "idle", "none", 0, None)
BY ThreadsAssumption DEF LocalsTyped, Return, Goto, Locals, Others

LEMMA PiecesFrame ==
  ASSUME Pieces, NEW t \in Threads, Others(t),
         last' = last, small' = small, large' = large, cleanup' = cleanup,
         Pending(t)' => Pending(t) /\ rec'[t] = rec[t]
  PROVE  Pieces'
BY DEF Pieces, Others, Pending

LEMMA RecordsFrame ==
  ASSUME NEW t \in Threads, Others(t), large' = large, pc[t] # "clear", pc'[t] # "clear"
  PROVE  Records' = Records
BY DEF Records, Others

\* The records, their chunks, the heap and the callers' chunks are the same.
LEMMA ChunksFrame ==
  ASSUME ChunksNamed, Records' = Records, alloc' = alloc, heap' = heap, held' = held
  PROVE  ChunksNamed'
BY DEF ChunksNamed

LEMMA CarriedFrame ==
  ASSUME Carried, NEW t \in Threads, Others(t), Records' = Records, alloc' = alloc, heap' = heap,
         Carrying(t)' => Carrying(t) /\ mem'[t] = mem[t]
  PROVE  Carried'
BY DEF Carried, Carrying, Others

LEMMA FreedFrame ==
  ASSUME Freed, NEW t \in Threads, Others(t), large' = large, alloc' = alloc, held' = held,
         ~Freeing(t)'
  PROVE  Freed'
BY DEF Freed, Freeing, Others

LEMMA ExclusiveFrame ==
  ASSUME Exclusive, NEW t \in Threads, Others(t), lock' = lock,
         Owner(t)' => Owner(t) /\ op'[t] = op[t], Freeing(t)' => Freeing(t)
  PROVE  Exclusive'
BY DEF Exclusive, Owner, Freeing, Others

-----------------------------------------------------------------------------
(* One lemma per action: it keeps the invariant *)

LEMMA CallStep ==
  ASSUME Supported, IInv, NEW t \in Threads, NEW o \in Ops, Call(t, o)
  PROVE  IInv'
<1>1. \E p \in {"malloc", "readlast", "spin"} :
        /\ Locals(t, p, o, 0, None) /\ o # "pfree"
        /\ p = CASE o = "memalign" -> "malloc" [] o = "cleanup"  -> "readlast" [] OTHER -> "spin"
  BY DEF IInv, LocalsTyped, Place, Call, At, Goto, Locals, Others, Ops
<1>2. UNCHANGED <<mayCall, lock, last, large, alloc, cleanup, heap, small, held>>
  BY DEF Call, shared, ghosts
<1>3. Place(t)' /\ \A u \in Threads : Place(u)'
  BY <1>1, <1>2 DEF IInv, Place, Locals, Others, Ops
<1>4. Exclusive'
  BY <1>1, <1>2 DEF IInv, LocalsTyped, Supported, Exclusive, Owner, Freeing, Locals, Others, Place, Call, At
<1>5. Pieces'
  BY <1>1, <1>2, PiecesFrame DEF IInv, Locals, Pending
<1>6. Records' = Records
  BY <1>1, <1>2, RecordsFrame DEF Locals, Call, At
<1>7. ChunksNamed' /\ Carried' /\ Freed'
  BY <1>1, <1>2, <1>6, ChunksFrame, CarriedFrame, FreedFrame DEF IInv, Locals, Carrying, Freeing
<1>8. Typed'
  BY <1>2 DEF IInv, Typed
<1>. QED BY <1>1, <1>3, <1>4, <1>5, <1>7, <1>8 DEF IInv, Locals

LEMMA LockStep ==
  ASSUME Supported, IInv, NEW t \in Threads, Lock(t)
  PROVE  IInv'
<1>1. \E p \in {"readlast", "malloc", "scan"} :
        /\ Locals(t, p, op[t], rec[t], mem[t])
        /\ p = CASE op[t] = "small" -> "readlast" [] op[t] = "large" -> "malloc"
                 [] op[t] = "memalign" -> "scan"
  BY DEF IInv, LocalsTyped, Place, Lock, At, Goto, Locals, Others, Ops
<1>2. /\ UNCHANGED <<mayCall, last, large, alloc, cleanup, heap, small, held>>
      /\ lock = 0 /\ lock' = 1 /\ pc[t] = "spin"
  BY DEF Lock, At, shared, ghosts
<1>3. Place(t)' /\ \A u \in Threads : Place(u)'
  BY <1>1, <1>2 DEF IInv, Place, Locals, Others
<1>4. Exclusive'
  BY <1>1, <1>2 DEF IInv, LocalsTyped, Supported, Exclusive, Owner, Freeing, Locals, Others, Place, Ops
<1>5. Pieces'
  BY <1>1, <1>2, PiecesFrame DEF IInv, Locals, Pending
<1>6. Records' = Records
  BY <1>1, <1>2, RecordsFrame DEF Locals
<1>7. ChunksNamed' /\ Carried' /\ Freed'
  BY <1>1, <1>2, <1>6, ChunksFrame, CarriedFrame, FreedFrame DEF IInv, Locals, Carrying, Freeing
<1>8. Typed'
  BY <1>2 DEF IInv, Typed
<1>. QED BY <1>1, <1>3, <1>4, <1>5, <1>7, <1>8 DEF IInv, Locals

LEMMA MallocStep ==
  ASSUME Supported, IInv, NEW t \in Threads, Malloc(t)
  PROVE  IInv'
<1>1. PICK m \in Chunks \ heap : heap' = heap \cup {m} /\ mem' = [mem EXCEPT ![t] = m]
  BY DEF Malloc
<1>2. \E p \in {"scan", "spin"} :
        /\ Locals(t, p, op[t], rec[t], m)
        /\ p = IF op[t] = "large" THEN "scan" ELSE "spin"
  BY <1>1 DEF IInv, LocalsTyped, Place, Malloc, At, Goto, Locals, Others
<1>3. /\ UNCHANGED <<mayCall, lock, last, large, alloc, cleanup, small, held>>
      /\ pc[t] = "malloc" /\ m # None
  BY ThreadsAssumption DEF Malloc, At, ghosts
<1>4. Place(t)' /\ \A u \in Threads : Place(u)'
  BY <1>2, <1>3 DEF IInv, Place, Locals, Others
<1>5. Exclusive'
  BY <1>2, <1>3, ExclusiveFrame DEF IInv, Owner, Freeing, Locals, Place
<1>6. Pieces'
  BY <1>2, <1>3, PiecesFrame DEF IInv, Locals, Pending
<1>7. Records' = Records
  BY <1>2, <1>3, RecordsFrame DEF Locals
<1>8. ChunksNamed'
  BY <1>1, <1>3, <1>7 DEF IInv, ChunksNamed
<1>9. Carried'
  <2>1. \A s \in Records : alloc[s] # m
    BY <1>1, <1>3 DEF IInv, ChunksNamed
  <2>. QED BY <1>1, <1>2, <1>3, <1>7, <2>1 DEF IInv, Carried, Carrying, Locals, Others
<1>10. Freed'
  BY <1>2, <1>3, FreedFrame DEF IInv, Locals, Freeing
<1>11. Typed'
  BY <1>1, <1>3 DEF IInv, Typed
<1>. QED BY <1>2, <1>4, <1>5, <1>6, <1>8, <1>9, <1>10, <1>11 DEF IInv, Locals

LEMMA MallocFailsStep ==
  ASSUME Supported, IInv, NEW t \in Threads, MallocFails(t)
  PROVE  IInv'
<1>1. /\ IF op[t] = "large" THEN Locals(t, "unlock", op[t], rec[t], None)
         ELSE Locals(t, "idle", "none", 0, None)
      /\ pc[t] = "malloc"
  BY DEF IInv, LocalsTyped, Place, MallocFails, Return, At, Goto, Locals, Others
<1>2. UNCHANGED <<mayCall, lock, last, large, alloc, cleanup, heap, small, held>>
  BY DEF MallocFails, shared, ghosts
<1>3. Place(t)' /\ \A u \in Threads : Place(u)'
  BY <1>1, <1>2 DEF IInv, Place, Locals, Others
<1>4. Exclusive'
  BY <1>1, <1>2, ExclusiveFrame DEF IInv, Owner, Freeing, Locals
<1>5. Pieces'
  BY <1>1, <1>2, PiecesFrame DEF IInv, Locals, Pending
<1>6. Records' = Records
  BY <1>1, <1>2, RecordsFrame DEF Locals
<1>7. ChunksNamed' /\ Carried' /\ Freed'
  BY <1>1, <1>2, <1>6, ChunksFrame, CarriedFrame, FreedFrame DEF IInv, Locals, Carrying, Freeing
<1>8. Typed'
  BY <1>2 DEF IInv, Typed
<1>. QED BY <1>1, <1>3, <1>4, <1>5, <1>7, <1>8 DEF IInv, Locals

LEMMA ReadLastStep ==
  ASSUME Supported, IInv, NEW t \in Threads, ReadLast(t)
  PROVE  IInv'
<1>1. last + 1 \in 1..Slots
  BY ThreadsAssumption DEF IInv, Typed, ReadLast
<1>2. Locals(t, "writelast", op[t], last + 1, mem[t]) /\ pc[t] = "readlast"
  BY <1>1 DEF IInv, LocalsTyped, ReadLast, At, Goto, Locals, Others
<1>3. UNCHANGED <<mayCall, lock, last, large, alloc, cleanup, heap, small, held>>
  BY DEF ReadLast, shared, ghosts
<1>4. Place(t)' /\ \A u \in Threads : Place(u)'
  BY <1>2, <1>3 DEF IInv, Place, Locals, Others
<1>5. Exclusive'
  BY <1>2, <1>3, ExclusiveFrame DEF IInv, Owner, Freeing, Locals
<1>6. Pieces'
  BY <1>2, <1>3, PiecesFrame DEF IInv, Locals, Pending
<1>7. Records' = Records
  BY <1>2, <1>3, RecordsFrame DEF Locals
<1>8. ChunksNamed' /\ Carried' /\ Freed'
  BY <1>2, <1>3, <1>7, ChunksFrame, CarriedFrame, FreedFrame DEF IInv, Locals, Carrying, Freeing
<1>9. Typed'
  BY <1>3 DEF IInv, Typed
<1>. QED BY <1>2, <1>4, <1>5, <1>6, <1>8, <1>9 DEF IInv, Locals

LEMMA WriteLastStep ==
  ASSUME Supported, IInv, NEW t \in Threads, WriteLast(t)
  PROVE  IInv'
<1>1. \E p \in {"unlock", "link"} :
        /\ Locals(t, p, op[t], rec[t], mem[t])
        /\ p = IF op[t] \in {"small", "memalign"} THEN "unlock" ELSE "link"
  BY DEF IInv, LocalsTyped, Place, WriteLast, At, Goto, Locals, Others, Ops
<1>2. /\ UNCHANGED <<mayCall, lock, large, alloc, cleanup, heap, small, held>>
      /\ last' = rec[t] /\ pc[t] = "writelast"
  BY DEF WriteLast, At, ghosts
<1>3. /\ last' = last + 1 /\ last \in Nat /\ last' \in 0..Slots
      /\ op[t] \in {"small", "large", "memalign", "cleanup"}
      /\ op[t] \in {"large", "memalign"} <=> mem[t] # None
  <2>1. Place(t) /\ rec[t] \in 0..Slots /\ last \in 0..Slots
    BY DEF IInv, Typed, LocalsTyped
  <2>2. rec[t] = last + 1
    BY <1>2, <2>1 DEF Place
  <2>3. last' = last + 1 /\ last \in Nat /\ last' \in 0..Slots
    BY <1>2, <2>1, <2>2, ThreadsAssumption
  <2>. QED BY <1>2, <2>1, <2>3 DEF Place
<1>4. \A u \in Threads : u # t => ~Owner(u)
  BY <1>2 DEF IInv, Exclusive, Owner
<1>5. Place(t)' /\ \A u \in Threads : Place(u)'
  <2>1. Place(t)'
    BY <1>1, <1>2, <1>3 DEF Place, Locals
  <2>2. ASSUME NEW u \in Threads, u # t PROVE Place(u)'
    <3>1. pc[u] # "writelast"
      BY <1>4, <2>2 DEF Owner
    <3>. QED BY <1>1, <1>2, <2>2, <3>1 DEF IInv, Place, Locals, Others
  <2>. QED BY <2>1, <2>2
<1>6. Exclusive'
  BY <1>1, <1>2, <1>3, ExclusiveFrame DEF IInv, Owner, Freeing, Locals
<1>7. Pieces'
  <2>1. \A u \in Threads : Pending(u)' => u = t
    BY <1>1, <1>4 DEF Pending, Owner, Locals, Others
  <2>2. rec'[t] \in (1..last') \ (Elems(small) \cup Elems(large) \cup Elems(cleanup))
    BY <1>1, <1>2, <1>3 DEF IInv, Pieces, Locals
  <2>. QED BY <1>2, <1>3, <2>1, <2>2 DEF IInv, Pieces
<1>8. Records' = Records
  BY <1>1, <1>2, RecordsFrame DEF Locals
<1>9. ChunksNamed' /\ Carried' /\ Freed'
  BY <1>1, <1>2, <1>8, ChunksFrame, CarriedFrame, FreedFrame DEF IInv, Locals, Carrying, Freeing
<1>10. Typed'
  BY <1>2, <1>3 DEF IInv, Typed
<1>. QED BY <1>1, <1>5, <1>6, <1>7, <1>9, <1>10 DEF IInv, Locals

LEMMA FullStep ==
  ASSUME Supported, IInv, NEW t \in Threads, Full(t)
  PROVE  IInv'
<1>1. /\ IF op[t] \in {"small", "large"} THEN Locals(t, "unlock", op[t], rec[t], None)
         ELSE Locals(t, "idle", "none", 0, None)
      /\ pc[t] = "readlast"
  <2>1. /\ LocalsTyped /\ mayCall' = mayCall /\ pc[t] = "readlast"
        /\ op[t] \in {"small", "large", "memalign", "cleanup"}
    BY DEF IInv, Place, Full, At
  <2>2. CASE op[t] \in {"small", "large"}
    BY <2>1, <2>2 DEF LocalsTyped, Full, Goto, Locals, Others
  <2>3. CASE op[t] \notin {"small", "large"}
    BY <2>1, <2>3, ReturnLocals DEF Full
  <2>. QED BY <2>1, <2>2, <2>3
<1>2. /\ UNCHANGED <<mayCall, lock, last, large, alloc, cleanup, small, held>>
      /\ heap' = heap \ {mem[t]}
  BY DEF Full, ghosts
<1>3. rec[t] = 0 /\ (mem[t] # None => Carrying(t)) /\ None \notin heap
  BY <1>1, ThreadsAssumption DEF IInv, Place, Carrying, Typed
<1>4. Place(t)' /\ \A u \in Threads : Place(u)'
  BY <1>1, <1>2, <1>3 DEF IInv, Place, Locals, Others
<1>5. Exclusive'
  BY <1>1, <1>2, ExclusiveFrame DEF IInv, Owner, Freeing, Locals
<1>6. Pieces'
  BY <1>1, <1>2, <1>3, PiecesFrame DEF IInv, Locals, Pending
<1>7. Records' = Records
  BY <1>1, <1>2, RecordsFrame DEF Locals
<1>8. ChunksNamed'
  BY <1>2, <1>3, <1>7 DEF IInv, ChunksNamed, Carried
<1>9. Carried'
  <2>1. ~Carrying(t)'
    BY <1>1 DEF Carrying, Locals
  <2>2. ASSUME NEW u \in Threads, Carrying(u)'
        PROVE  mem'[u] \in heap' /\ \A s \in Records' : alloc'[s] # mem'[u]
    BY <1>1, <1>2, <1>3, <1>7, <2>1, <2>2 DEF IInv, Carried, Carrying, Locals, Others
  <2>3. ASSUME NEW u \in Threads, NEW v \in Threads, Carrying(u)', Carrying(v)', mem'[u] = mem'[v]
        PROVE  u = v
    BY <1>1, <2>1, <2>3 DEF IInv, Carried, Carrying, Locals, Others
  <2>. QED BY <2>2, <2>3 DEF Carried
<1>10. Freed'
  BY <1>1, <1>2, FreedFrame DEF IInv, Locals, Freeing
<1>11. Typed'
  BY <1>2 DEF IInv, Typed
<1>. QED BY <1>1, <1>4, <1>5, <1>6, <1>8, <1>9, <1>10, <1>11 DEF IInv, Locals

\* A step of the walk for an unused record: it changes nothing shared.
LEMMA WalkStep ==
  ASSUME Supported, IInv, NEW t \in Threads, NEW p, NEW r,
         UNCHANGED <<mayCall, shared, ghosts>>, Owner(t), ~Freeing(t), ~Pending(t),
         Locals(t, p, op[t], r, mem[t]), p \in {"look", "fill", "readlast"}, Place(t)'
  PROVE  IInv'
<1>1. UNCHANGED <<lock, last, large, alloc, cleanup, heap, small, held>>
  BY DEF shared, ghosts
<1>2. \A u \in Threads : Place(u)'
  BY <1>1 DEF IInv, Place, Locals, Others
<1>3. Exclusive'
  BY <1>1, ExclusiveFrame DEF IInv, Owner, Freeing, Locals
<1>4. Pieces'
  BY <1>1, PiecesFrame DEF IInv, Locals, Pending
<1>5. Records' = Records
  BY <1>1, RecordsFrame DEF Locals, Freeing
<1>6. ChunksNamed' /\ Carried' /\ Freed'
  BY <1>1, <1>5, ChunksFrame, CarriedFrame, FreedFrame DEF IInv, Locals, Carrying, Freeing
<1>7. Typed'
  BY <1>1 DEF IInv, Typed
<1>. QED BY <1>2, <1>3, <1>4, <1>6, <1>7 DEF IInv, Locals

LEMMA ScanStep ==
  ASSUME Supported, IInv, NEW t \in Threads, Scan(t)
  PROVE  IInv'
<1>1. /\ UNCHANGED <<mayCall, shared, ghosts>> /\ UNCHANGED large
      /\ pc[t] = "scan" /\ op[t] \in {"large", "memalign"} /\ rec[t] = 0 /\ mem[t] # None
      /\ Owner(t) /\ ~Freeing(t) /\ ~Pending(t)
  BY DEF IInv, Place, Scan, At, shared, Owner, Freeing, Pending
<1>2. Locals(t, "look", op[t], rec[t], mem[t])
  BY <1>1 DEF IInv, LocalsTyped, Scan, Goto, Locals, Others
<1>3. Among(seen'[t], large')
  <2>1. PICK first \in Nat \ {0} : seen'[t] = SubSeq(large, first, Len(large))
    <3> DEFINE f == IF Len(large) > ScanLimit THEN Len(large) - ScanLimit + 1 ELSE 1
    <3>1. Len(large) \in Nat /\ ScanLimit \in Nat
      BY LenProperties, ThreadsAssumption DEF IInv, Typed
    <3>2. f \in Nat \ {0}
      BY <3>1
    <3>3. seen'[t] = SubSeq(large, f, Len(large))
      BY DEF IInv, LocalsTyped, Scan
    <3>. QED BY <3>2, <3>3
  <2>2. /\ large \in Seq(1..Slots) /\ Len(large) \in Nat /\ DOMAIN large = 1..Len(large)
        /\ \A i \in 1..Len(large) : large[i] \in Elems(large)
    BY LenProperties DEF IInv, Typed, Elems
  <2>3. SubSeq(large, first, Len(large)) \in Seq(Elems(large))
    <3>1. \A i \in first..Len(large) : large[i] \in Elems(large)
      BY <2>2
    <3>. QED BY <2>2, <3>1, SubSeqProperties
  <2>. QED BY <1>1, <2>1, <2>3 DEF Among
<1>4. Place(t)'
  BY <1>1, <1>2, <1>3 DEF Place, Locals
<1>. QED BY <1>1, <1>2, <1>4, WalkStep

LEMMA LookStep ==
  ASSUME Supported, IInv, NEW t \in Threads, Look(t)
  PROVE  IInv'
<1>1. /\ UNCHANGED <<mayCall, shared, ghosts>> /\ UNCHANGED <<large, alloc>>
      /\ pc[t] = "look" /\ op[t] \in {"large", "memalign"} /\ rec[t] = 0 /\ mem[t] # None
      /\ Among(seen[t], large) /\ Owner(t) /\ ~Freeing(t) /\ ~Pending(t)
  BY DEF IInv, Place, Look, At, shared, Owner, Freeing, Pending
<1>2. CASE seen[t] = <<>>
  <2>1. Locals(t, "readlast", op[t], rec[t], mem[t])
    BY <1>1, <1>2 DEF IInv, LocalsTyped, Look, Goto, Locals, Others
  <2>2. Place(t)'
    BY <1>1, <2>1 DEF Place, Locals
  <2>. QED BY <1>1, <2>1, <2>2, WalkStep
<1>3. CASE seen[t] # <<>>
  <2>1. PICK r : r = seen[t][Len(seen[t])]
    OBVIOUS
  <2>2. /\ Len(seen[t]) \in Nat \ {0} /\ r \in Elems(large) /\ r \in 0..Slots
        /\ SubSeq(seen[t], 1, Len(seen[t]) - 1) \in Seq(Elems(large))
    <3>1. seen[t] \in Seq(Elems(large)) /\ Len(seen[t]) \in Nat \ {0}
      BY <1>1, <1>3, EmptySeq, LenProperties DEF Among
    <3>2. r \in Elems(large)
      BY <2>1, <3>1, ElementOfSeq
    <3>3. \A i \in 1..(Len(seen[t]) - 1) : seen[t][i] \in Elems(large)
      BY <3>1, ElementOfSeq
    <3>4. SubSeq(seen[t], 1, Len(seen[t]) - 1) \in Seq(Elems(large))
      BY <3>1, <3>3, SubSeqProperties
    <3>5. r \in 0..Slots
      BY <3>2, ElementsOf, ThreadsAssumption DEF IInv, Typed
    <3>. QED BY <3>1, <3>2, <3>4, <3>5
  <2>3. CASE alloc[r] = None
    <3>1. Locals(t, "fill", op[t], r, mem[t])
      BY <1>1, <1>3, <2>1, <2>2, <2>3 DEF IInv, LocalsTyped, Look, Goto, Locals, Others
    <3>2. Place(t)'
      BY <1>1, <2>2, <2>3, <3>1 DEF Place, Locals
    <3>. QED BY <1>1, <3>1, <3>2, WalkStep
  <2>4. CASE alloc[r] # None
    <3>1. Locals(t, "look", op[t], rec[t], mem[t])
      BY <1>1, <1>3, <2>1, <2>4 DEF IInv, LocalsTyped, Look, Locals, Others
    <3>2. Among(seen'[t], large')
      BY <1>1, <1>3, <2>1, <2>2, <2>4 DEF IInv, LocalsTyped, Look, Among
    <3>3. Place(t)'
      BY <1>1, <3>1, <3>2 DEF Place, Locals
    <3>. QED BY <1>1, <3>1, <3>3, WalkStep
  <2>. QED BY <2>3, <2>4
<1>. QED BY <1>2, <1>3

LEMMA FillStep ==
  ASSUME Supported, IInv, NEW t \in Threads, Fill(t)
  PROVE  IInv'
<1>1. /\ UNCHANGED <<mayCall, lock, last, large, cleanup, heap, small>>
      /\ pc[t] = "fill" /\ op[t] \in {"large", "memalign"}
      /\ mem[t] # None /\ mem[t] \in Chunks /\ Carrying(t) /\ Owner(t)
  BY DEF IInv, Place, LocalsTyped, Fill, At, Carrying, Owner
<1>2. PICK r \in Elems(large) :
        r = rec[t] /\ alloc[r] = None /\ alloc' = [alloc EXCEPT ![r] = mem[t]]
  BY <1>1 DEF IInv, Place, Fill
<1>3. /\ held' = held \cup {mem[t]}
      /\ IF op[t] = "large" THEN Locals(t, "unlock", op[t], rec[t], None)
         ELSE Locals(t, "idle", "none", 0, None)
  <2>1. held' = held \cup {mem[t]}
    BY DEF Fill
  <2>2. CASE op[t] = "large"
    BY <1>1, <2>1, <2>2, ThreadsAssumption DEF IInv, LocalsTyped, Fill, Goto, Locals, Others
  <2>3. CASE op[t] # "large"
    BY <1>1, <2>1, <2>3, ReturnLocals DEF IInv, Fill
  <2>. QED BY <2>2, <2>3
<1>4. r \in 1..Slots /\ alloc'[r] = mem[t] /\ \A s \in 1..Slots : s # r => alloc'[s] = alloc[s]
  BY <1>2, ElementsOf DEF IInv, Typed
<1>5. r \in Records /\ Records \subseteq 1..Slots
  BY <1>2, ElementsOf DEF IInv, Records, Freed, Freeing, Typed
<1>6. ~Carrying(t)'
  BY <1>3 DEF Carrying, Locals
<1>7. Place(t)' /\ \A u \in Threads : Place(u)'
  <2>1. Place(t)'
    BY <1>1, <1>3 DEF Place, Locals
  <2>2. ASSUME NEW u \in Threads, u # t PROVE Place(u)'
    <3>1. pc[u] \notin {"look", "fill", "push"}
      BY <1>1, <2>2 DEF IInv, Exclusive, Owner
    <3>. QED BY <1>1, <1>3, <2>2, <3>1 DEF IInv, Place, Locals, Others
  <2>. QED BY <2>1, <2>2
<1>8. Exclusive'
  BY <1>1, <1>3, ExclusiveFrame DEF IInv, Owner, Freeing, Locals
<1>9. Pieces'
  BY <1>1, <1>3, PiecesFrame DEF IInv, Locals, Pending
<1>10. Records' = Records
  BY <1>1, <1>3, RecordsFrame DEF Locals
<1>11. ChunksNamed'
  <2>1. \A s \in Records : alloc'[s] # None => alloc'[s] \in heap'
    BY <1>1, <1>4, <1>5 DEF IInv, ChunksNamed, Carried
  <2>2. \A s, q \in Records : alloc'[s] = alloc'[q] /\ alloc'[s] # None => s = q
    BY <1>1, <1>4, <1>5 DEF IInv, ChunksNamed, Carried
  <2>3. \A m \in held' : \E s \in Records : alloc'[s] = m
    <3>1. \A m \in held : m # None
      BY ThreadsAssumption DEF IInv, Typed
    <3>. QED BY <1>2, <1>3, <1>4, <1>5, <3>1 DEF IInv, ChunksNamed
  <2>. QED BY <1>10, <2>1, <2>2, <2>3 DEF ChunksNamed
<1>12. Carried'
  <2>1. ~Carrying(t)'
    BY <1>6
  <2>2. ASSUME NEW u \in Threads, Carrying(u)'
        PROVE  mem'[u] \in heap' /\ \A s \in Records' : alloc'[s] # mem'[u]
    <3>1. u # t /\ Carrying(u) /\ mem'[u] = mem[u] /\ mem[u] # mem[t]
      BY <1>1, <1>3, <2>1, <2>2 DEF IInv, Carried, Carrying, Locals, Others
    <3>. QED BY <1>1, <1>4, <1>5, <1>10, <3>1 DEF IInv, Carried
  <2>3. ASSUME NEW u \in Threads, NEW v \in Threads, Carrying(u)', Carrying(v)', mem'[u] = mem'[v]
        PROVE  u = v
    BY <1>3, <2>1, <2>3 DEF IInv, Carried, Carrying, Locals, Others
  <2>. QED BY <2>2, <2>3 DEF Carried
<1>13. Freed'
  <2>1. ASSUME NEW u \in Threads, Freeing(u)'
        PROVE  /\ rec'[u] \in Elems(large') /\ alloc'[rec'[u]] # None
               /\ pc'[u] = "free" => alloc'[rec'[u]] = mem'[u] /\ mem'[u] \notin held'
    <3>1. u # t /\ Freeing(u) /\ rec'[u] = rec[u] /\ mem'[u] = mem[u] /\ pc'[u] = pc[u]
      BY <1>3, <2>1 DEF Locals, Others, Freeing
    <3>2. rec[u] \in Elems(large) /\ alloc[rec[u]] # None /\ rec[u] # r
      BY <1>2, <3>1 DEF IInv, Freed
    <3>3. alloc'[rec[u]] = alloc[rec[u]]
      BY <1>4, <3>2, ElementsOf DEF IInv, Typed
    <3>4. ASSUME pc[u] = "free" PROVE alloc[rec[u]] = mem[u] /\ mem[u] \notin held'
      <4>1. rec[u] \in Records
        BY <3>1, <3>2, <3>4 DEF IInv, Exclusive, Freeing, Records
      <4>. QED BY <1>1, <1>3, <3>1, <3>4, <4>1 DEF IInv, Freed, Carried
    <3>. QED BY <1>1, <3>1, <3>2, <3>3, <3>4
  <2>. QED BY <2>1 DEF Freed
<1>14. Typed'
  BY <1>1, <1>2, <1>3 DEF IInv, Typed
<1>. QED BY <1>3, <1>7, <1>8, <1>9, <1>11, <1>12, <1>13, <1>14 DEF IInv, Locals

LEMMA LinkStep ==
  ASSUME Supported, IInv, NEW t \in Threads, Link(t)
  PROVE  IInv'
<1>1. /\ UNCHANGED <<mayCall, lock, last, large, cleanup, heap, small, held>>
      /\ pc[t] = "link" /\ Owner(t) /\ Pending(t)
  BY DEF Link, At, ghosts, Owner, Pending
<1>2. Locals(t, "push", op[t], rec[t], mem[t])
  BY DEF IInv, LocalsTyped, Link, At, Goto, Locals, Others
<1>3. /\ seen'[t] = IF op[t] = "cleanup" THEN cleanup ELSE large
      /\ rec[t] \in 1..Slots
      /\ rec[t] \notin Elems(large)
  BY <1>1, ThreadsAssumption DEF IInv, LocalsTyped, Typed, Link, Pieces
<1>4. /\ \A s \in 1..Slots : s # rec[t] => alloc'[s] = alloc[s]
      /\ op[t] # "cleanup" => alloc'[rec[t]] = mem[t]
      /\ alloc' \in [1..Slots -> Chunks \cup {None}]
  BY <1>3 DEF IInv, Link, Typed, LocalsTyped
<1>5. \A s \in Elems(large) : s \in 1..Slots /\ alloc'[s] = alloc[s]
  BY <1>3, <1>4, ElementsOf DEF IInv, Typed
<1>6. Place(t)' /\ \A u \in Threads : Place(u)'
  <2>1. Place(t)'
    <3>1. Place(t)
      BY DEF IInv
    <3>. QED BY <1>1, <1>2, <1>3, <1>4, <3>1 DEF Place, Locals
  <2>2. ASSUME NEW u \in Threads, u # t PROVE Place(u)'
    <3>1. pc[u] \notin {"look", "fill", "push"}
      BY <1>1, <2>2 DEF IInv, Exclusive, Owner
    <3>. QED BY <1>1, <1>2, <2>2, <3>1 DEF IInv, Place, Locals, Others
  <2>. QED BY <2>1, <2>2
<1>7. Exclusive'
  BY <1>1, <1>2, ExclusiveFrame DEF IInv, Owner, Freeing, Locals
<1>8. Pieces'
  BY <1>1, <1>2, PiecesFrame DEF IInv, Locals, Pending
<1>9. Records' = Records /\ Records \subseteq Elems(large)
  BY <1>1, <1>2, RecordsFrame DEF Locals, Records
<1>10. ChunksNamed'
  BY <1>1, <1>5, <1>9 DEF IInv, ChunksNamed
<1>11. Carried'
  BY <1>1, <1>2, <1>5, <1>9 DEF IInv, Carried, Carrying, Locals, Others
<1>12. Freed'
  BY <1>1, <1>2, <1>5 DEF IInv, Freed, Freeing, Locals, Others
<1>13. Typed'
  BY <1>1, <1>4 DEF IInv, Typed
<1>. QED BY <1>2, <1>6, <1>7, <1>8, <1>10, <1>11, <1>12, <1>13 DEF IInv, Locals

LEMMA PushStep ==
  ASSUME Supported, IInv, NEW t \in Threads, Push(t)
  PROVE  IInv'
<1>1. /\ UNCHANGED <<mayCall, lock, last, alloc, heap, small>>
      /\ pc[t] = "push" /\ Owner(t) /\ Pending(t)
  BY DEF Push, At, Owner, Pending
<1>2. IF op[t] = "large" THEN Locals(t, "unlock", op[t], rec[t], None)
      ELSE Locals(t, "idle", "none", 0, None)
  <2>1. rec[t] \in 0..Slots /\ op[t] \in Ops /\ op[t] \in mayCall[t]
    BY <1>1 DEF IInv, LocalsTyped, Place, Ops
  <2>2. CASE op[t] = "large"
    BY <1>1, <2>1, <2>2 DEF IInv, LocalsTyped, Push, Goto, Locals, Others
  <2>3. CASE op[t] # "large"
    BY <1>1, <2>3, ReturnLocals DEF IInv, Push
  <2>. QED BY <2>2, <2>3
<1>3. /\ rec[t] \in 1..Slots /\ rec[t] \in 1..last
      /\ rec[t] \notin Elems(small) \cup Elems(large) \cup Elems(cleanup)
  BY <1>1, ThreadsAssumption DEF IInv, LocalsTyped, Typed, Pieces
<1>4. \A u \in Threads : u # t => ~Owner(u) /\ ~Pending(u)
  BY <1>1 DEF IInv, Exclusive, Owner, Pending
<1>5. ~Carrying(t)' /\ ~Pending(t)' /\ ~Freeing(t)' /\ Others(t)
  BY <1>2 DEF Carrying, Pending, Freeing, Locals
<1>6. Place(t)' /\ \A u \in Threads : Place(u)'
  <2>1. Place(t)'
    BY <1>1, <1>2 DEF Place, Locals
  <2>2. ASSUME NEW u \in Threads, u # t PROVE Place(u)'
    <3>1. pc[u] \notin {"look", "fill", "push"}
      BY <1>4, <2>2 DEF Owner
    <3>. QED BY <1>1, <1>2, <2>2, <3>1 DEF IInv, Place, Locals, Others
  <2>. QED BY <2>1, <2>2
<1>7. Exclusive'
  BY <1>1, <1>2, ExclusiveFrame DEF IInv, Owner, Freeing, Locals
<1>8. CASE op[t] = "cleanup"
  <2>1. seen[t] = cleanup
    BY <1>1, <1>8 DEF IInv, Place
  <2>2. cleanup' = Append(cleanup, rec[t]) /\ large' = large /\ held' = held
    BY <1>8, <2>1 DEF Push
  <2>3. /\ cleanup' \in Seq(1..Slots) /\ Elems(cleanup') = Elems(cleanup) \cup {rec[t]}
        /\ Distinct(cleanup')
    <3>1. cleanup \in Seq(1..Slots) /\ Distinct(cleanup) /\ rec[t] \in 1..Slots /\ rec[t] \notin Elems(cleanup)
      BY <1>3 DEF IInv, Typed, Pieces
    <3>2. PICK a : a = Append(cleanup, rec[t])
      OBVIOUS
    <3>3. a \in Seq(1..Slots) /\ Elems(a) = Elems(cleanup) \cup {rec[t]} /\ Distinct(a)
      BY <3>1, <3>2, AppendSlot
    <3>. QED BY <2>2, <3>2, <3>3
  <2>4. Pieces'
    <3>1. \A u \in Threads : ~Pending(u)'
      BY <1>4, <1>5 DEF Pending, Others
    <3>. QED BY <1>1, <1>3, <2>2, <2>3, <3>1 DEF IInv, Pieces
  <2>5. Records' = Records
    BY <1>1, <1>2, <2>2, RecordsFrame DEF Locals
  <2>6. ChunksNamed' /\ Carried' /\ Freed'
    BY <1>1, <1>5, <2>2, <2>5, ChunksFrame, CarriedFrame, FreedFrame DEF IInv
  <2>7. Typed'
    BY <1>1, <2>2, <2>3 DEF IInv, Typed
  <2>. QED BY <1>2, <1>6, <1>7, <2>4, <2>6, <2>7 DEF IInv, Locals
<1>9. CASE op[t] # "cleanup"
  <2>1. /\ seen[t] = large /\ alloc[rec[t]] = mem[t]
        /\ Carrying(t) /\ mem[t] # None /\ mem[t] \in Chunks
    BY <1>1, <1>9 DEF IInv, Place, Carrying, LocalsTyped
  <2>2. large' = Append(large, rec[t]) /\ cleanup' = cleanup /\ held' = held \cup {mem[t]}
    BY <1>9, <2>1 DEF Push
  <2>3. /\ large' \in Seq(1..Slots) /\ Elems(large') = Elems(large) \cup {rec[t]}
        /\ Distinct(large')
    <3>1. large \in Seq(1..Slots) /\ Distinct(large) /\ rec[t] \in 1..Slots /\ rec[t] \notin Elems(large)
      BY <1>3 DEF IInv, Typed, Pieces
    <3>2. PICK a : a = Append(large, rec[t])
      OBVIOUS
    <3>3. a \in Seq(1..Slots) /\ Elems(a) = Elems(large) \cup {rec[t]} /\ Distinct(a)
      BY <3>1, <3>2, AppendSlot
    <3>. QED BY <2>2, <3>2, <3>3
  <2>4. Pieces'
    <3>1. \A u \in Threads : ~Pending(u)'
      BY <1>4, <1>5 DEF Pending, Others
    <3>. QED BY <1>1, <1>3, <2>2, <2>3, <3>1 DEF IInv, Pieces
  <2>5. Records' = Records \cup {rec[t]}
    <3>1. \A u \in Threads : pc[u] = "clear" => rec[u] # rec[t]
      BY <1>3 DEF IInv, Freed, Freeing
    <3>2. \A u \in Threads : pc'[u] = "clear" <=> pc[u] = "clear"
      BY <1>1, <1>2 DEF Locals, Others
    <3>3. \A u \in Threads : pc[u] = "clear" => rec'[u] = rec[u]
      BY <1>1, <1>5 DEF Others
    <3>. QED BY <2>3, <3>1, <3>2, <3>3 DEF Records
  <2>6. rec[t] \notin Records
    BY <1>3 DEF Records
  <2>7. ChunksNamed'
    <3>1. \A s \in Records \cup {rec[t]} : alloc[s] # None => alloc[s] \in heap
      BY <2>1 DEF IInv, ChunksNamed, Carried
    <3>2. \A s, q \in Records \cup {rec[t]} : alloc[s] = alloc[q] /\ alloc[s] # None => s = q
      BY <2>1 DEF IInv, ChunksNamed, Carried
    <3>3. \A m \in held \cup {mem[t]} : \E s \in Records \cup {rec[t]} : alloc[s] = m
      BY <2>1 DEF IInv, ChunksNamed
    <3>. QED BY <1>1, <2>2, <2>5, <3>1, <3>2, <3>3 DEF ChunksNamed
  <2>8. Carried'
    <3>1. ASSUME NEW u \in Threads, Carrying(u)'
          PROVE  mem'[u] \in heap' /\ \A s \in Records' : alloc'[s] # mem'[u]
      <4>1. u # t /\ Carrying(u) /\ mem'[u] = mem[u] /\ mem[u] # mem[t]
        BY <1>5, <2>1, <3>1 DEF IInv, Carried, Carrying, Others
      <4>. QED BY <1>1, <2>1, <2>5, <4>1 DEF IInv, Carried
    <3>2. ASSUME NEW u \in Threads, NEW v \in Threads, Carrying(u)', Carrying(v)', mem'[u] = mem'[v]
          PROVE  u = v
      BY <1>5, <3>2 DEF IInv, Carried, Carrying, Others
    <3>. QED BY <3>1, <3>2 DEF Carried
  <2>9. Freed'
    <3>1. ASSUME NEW u \in Threads, Freeing(u)'
          PROVE  /\ rec'[u] \in Elems(large') /\ alloc'[rec'[u]] # None
                 /\ pc'[u] = "free" => alloc'[rec'[u]] = mem'[u] /\ mem'[u] \notin held'
      <4>1. u # t /\ Freeing(u) /\ rec'[u] = rec[u] /\ mem'[u] = mem[u] /\ pc'[u] = pc[u]
        BY <1>5, <3>1 DEF Others, Freeing
      <4>2. rec[u] \in Elems(large) /\ alloc[rec[u]] # None
        BY <4>1 DEF IInv, Freed
      <4>3. ASSUME pc[u] = "free" PROVE alloc[rec[u]] = mem[u] /\ mem[u] \notin held'
        <5>1. rec[u] \in Records
          BY <4>1, <4>2, <4>3 DEF IInv, Exclusive, Freeing, Records
        <5>. QED BY <2>1, <2>2, <4>1, <4>3, <5>1 DEF IInv, Freed, Carried
      <4>. QED BY <1>1, <2>3, <4>1, <4>2, <4>3
    <3>. QED BY <3>1 DEF Freed
  <2>10. Typed'
    BY <1>1, <2>1, <2>2, <2>3 DEF IInv, Typed
  <2>. QED BY <1>2, <1>6, <1>7, <2>4, <2>7, <2>8, <2>9, <2>10 DEF IInv, Locals
<1>. QED BY <1>8, <1>9

LEMMA UnlockStep ==
  ASSUME Supported, IInv, NEW t \in Threads, Unlock(t)
  PROVE  IInv'
<1>1. /\ UNCHANGED <<mayCall, last, large, alloc, cleanup, heap, held>>
      /\ pc[t] = "unlock" /\ Owner(t) /\ lock' = 0
      /\ op[t] \in {"small", "large", "memalign"}
      /\ op[t] = "memalign" <=> mem[t] # None
  BY DEF Unlock, At, Owner, IInv, Place
<1>2. IF op[t] = "memalign" THEN Locals(t, "link", op[t], rec[t], mem[t])
      ELSE Locals(t, "idle", "none", 0, None)
  <2>1. CASE op[t] = "memalign"
    BY <1>1, <2>1 DEF IInv, LocalsTyped, Unlock, Goto, Locals, Others
  <2>2. CASE op[t] # "memalign"
    BY <1>1, <2>2, ReturnLocals DEF IInv, Unlock
  <2>. QED BY <2>1, <2>2
<1>3. \A u \in Threads : u # t => ~Owner(u) /\ ~Pending(u)
  BY <1>1 DEF IInv, Exclusive, Owner, Pending
<1>4. Place(t)' /\ \A u \in Threads : Place(u)'
  BY <1>1, <1>2 DEF IInv, Place, Locals, Others
<1>5. Exclusive'
  <2>1. \A u \in Threads : Owner(u)' => u = t /\ op'[u] = "memalign"
    BY <1>2, <1>3 DEF Owner, Locals, Others
  <2>2. \A u, v \in Threads : Freeing(u)' /\ Freeing(v)' => u = v
    BY <1>1, <1>2 DEF IInv, Exclusive, Freeing, Locals, Others
  <2>. QED BY <2>1, <2>2 DEF Exclusive
<1>6. Records' = Records
  BY <1>1, <1>2, RecordsFrame DEF Locals
<1>7. ChunksNamed' /\ Carried' /\ Freed'
  BY <1>1, <1>2, <1>6, ChunksFrame, CarriedFrame, FreedFrame DEF IInv, Locals, Carrying, Freeing
<1>8. CASE op[t] = "small" /\ rec[t] # 0
  <2>1. small' = Append(small, rec[t]) /\ Pending(t)
    BY <1>1, <1>8 DEF Unlock, Pending
  <2>2. /\ rec[t] \in 1..Slots /\ rec[t] \in 1..last
        /\ rec[t] \notin Elems(small) \cup Elems(large) \cup Elems(cleanup)
    BY <2>1, ThreadsAssumption DEF IInv, LocalsTyped, Typed, Pieces
  <2>3. /\ small' \in Seq(1..Slots) /\ Elems(small') = Elems(small) \cup {rec[t]}
        /\ Distinct(small')
    <3>1. small \in Seq(1..Slots) /\ Distinct(small) /\ rec[t] \in 1..Slots /\ rec[t] \notin Elems(small)
      BY <2>2 DEF IInv, Typed, Pieces
    <3>2. PICK a : a = Append(small, rec[t])
      OBVIOUS
    <3>3. a \in Seq(1..Slots) /\ Elems(a) = Elems(small) \cup {rec[t]} /\ Distinct(a)
      BY <3>1, <3>2, AppendSlot
    <3>. QED BY <2>1, <3>2, <3>3
  <2>4. \A u \in Threads : ~Pending(u)'
    BY <1>2, <1>3, <1>8 DEF Pending, Locals, Others
  <2>5. Pieces'
    BY <1>1, <2>2, <2>3, <2>4 DEF IInv, Pieces
  <2>6. Typed'
    BY <1>1, <2>3 DEF IInv, Typed
  <2>. QED BY <1>2, <1>4, <1>5, <1>7, <2>5, <2>6 DEF IInv, Locals
<1>9. CASE ~(op[t] = "small" /\ rec[t] # 0)
  <2>1. small' = small
    BY <1>9 DEF Unlock
  <2>2. Pieces'
    BY <1>1, <1>2, <2>1, PiecesFrame DEF IInv, Locals, Pending
  <2>3. Typed'
    BY <1>1, <2>1 DEF IInv, Typed
  <2>. QED BY <1>2, <1>4, <1>5, <1>7, <2>2, <2>3 DEF IInv, Locals
<1>. QED BY <1>8, <1>9

LEMMA FindStep ==
  ASSUME Supported, IInv, NEW t \in Threads, Find(t)
  PROVE  IInv'
<1>1. PICK m \in held :
        /\ held' = held \ {m} /\ mem' = [mem EXCEPT ![t] = m]
        /\ \E i \in DOMAIN large :
             alloc[large[i]] = m /\ rec' = [rec EXCEPT ![t] = large[i]]
  BY DEF Find
<1>2. PICK r \in Elems(large) : alloc[r] = m /\ rec' = [rec EXCEPT ![t] = r]
  BY <1>1 DEF Elems
<1>3. /\ UNCHANGED <<mayCall, lock, last, large, alloc, cleanup, heap, small>>
      /\ pc[t] = "idle" /\ "pfree" \in mayCall[t]
  BY DEF Find, At, shared
<1>4. r \in 1..Slots /\ m \in Chunks /\ m # None
  BY <1>2, ElementsOf, ThreadsAssumption DEF IInv, Typed
<1>5. Locals(t, "free", "pfree", r, m)
  BY <1>1, <1>2, <1>3, <1>4 DEF IInv, LocalsTyped, Find, Goto, Locals, Others, Ops
<1>6. \A u \in Threads : ~Freeing(u)
  <2>1. ASSUME NEW u \in Threads, Freeing(u) PROVE FALSE
    <3>1. op[u] = "pfree" /\ "pfree" \in mayCall[u]
      BY <2>1 DEF IInv, Place, Freeing, LocalsTyped
    <3>2. u = t
      BY <1>3, <3>1 DEF Supported, IInv, LocalsTyped
    <3>. QED BY <1>3, <2>1, <3>2 DEF Freeing
  <2>. QED BY <2>1
<1>7. Place(t)' /\ \A u \in Threads : Place(u)'
  BY <1>3, <1>4, <1>5 DEF IInv, Place, Locals, Others
<1>8. Exclusive'
  BY <1>3, <1>5, <1>6 DEF IInv, Exclusive, Owner, Freeing, Locals, Others
<1>9. Pieces'
  BY <1>3, <1>5, PiecesFrame DEF IInv, Locals, Pending
<1>10. Records' = Records
  BY <1>3, <1>5, RecordsFrame DEF Locals
<1>11. ChunksNamed'
  BY <1>1, <1>3, <1>10 DEF IInv, ChunksNamed
<1>12. Carried'
  BY <1>3, <1>5, <1>10, CarriedFrame DEF IInv, Carrying, Locals
<1>13. Freed'
  BY <1>1, <1>2, <1>3, <1>4, <1>5, <1>6 DEF Freed, Freeing, Locals, Others
<1>14. Typed'
  BY <1>1, <1>3 DEF IInv, Typed
<1>. QED BY <1>5, <1>7, <1>8, <1>9, <1>11, <1>12, <1>13, <1>14 DEF IInv, Locals

LEMMA FreeStep ==
  ASSUME Supported, IInv, NEW t \in Threads, Free(t)
  PROVE  IInv'
<1>1. /\ UNCHANGED <<mayCall, lock, last, large, alloc, cleanup, small, held>>
      /\ pc[t] = "free" /\ Freeing(t) /\ heap' = heap \ {mem[t]}
  BY DEF Free, At, ghosts, Freeing
<1>2. Locals(t, "clear", op[t], rec[t], mem[t])
  BY DEF IInv, LocalsTyped, Free, At, Goto, Locals, Others
<1>3. \A u \in Threads : Freeing(u) => u = t
  BY <1>1 DEF IInv, Exclusive
<1>4. /\ rec[t] \in Elems(large) /\ alloc[rec[t]] = mem[t] /\ mem[t] # None
      /\ mem[t] \notin held
  BY <1>1 DEF IInv, Freed
<1>5. Records' = Records \ {rec[t]} /\ rec[t] \in Records
  <2>1. \A u \in Threads : pc[u] # "clear"
    BY <1>1, <1>3 DEF Freeing
  <2>2. \A u \in Threads : pc'[u] = "clear" <=> u = t
    BY <1>2, <2>1 DEF Locals, Others
  <2>3. \A s : s \in Records <=> s \in Elems(large)
    BY <2>1 DEF Records
  <2>4. \A s : s \in Records' <=> s \in Elems(large) /\ s # rec[t]
    BY <1>1, <1>2, <2>2 DEF Records, Locals
  <2>. QED BY <1>4, <2>3, <2>4
<1>6. Place(t)' /\ \A u \in Threads : Place(u)'
  BY <1>1, <1>2 DEF IInv, Place, Locals, Others
<1>7. Exclusive'
  BY <1>1, <1>2, ExclusiveFrame DEF IInv, Owner, Freeing, Locals
<1>8. Pieces'
  BY <1>1, <1>2, PiecesFrame DEF IInv, Locals, Pending
<1>9. ChunksNamed'
  BY <1>1, <1>4, <1>5 DEF IInv, ChunksNamed
<1>10. Carried'
  BY <1>1, <1>2, <1>4, <1>5 DEF IInv, Place, Carried, Carrying, Locals, Others
<1>11. Freed'
  BY <1>1, <1>2, <1>3, <1>4 DEF Freed, Freeing, Locals, Others
<1>12. Typed'
  BY <1>1 DEF IInv, Typed
<1>. QED BY <1>2, <1>6, <1>7, <1>8, <1>9, <1>10, <1>11, <1>12 DEF IInv, Locals

LEMMA ClearStep ==
  ASSUME Supported, IInv, NEW t \in Threads, Clear(t)
  PROVE  IInv'
<1>1. /\ UNCHANGED <<mayCall, lock, last, large, cleanup, heap, small, held>>
      /\ pc[t] = "clear" /\ Freeing(t)
  BY DEF Clear, At, ghosts, Freeing
<1>2. Locals(t, "idle", "none", 0, None)
  BY <1>1, ReturnLocals DEF IInv, Clear
<1>3. \A u \in Threads : Freeing(u) => u = t
  BY <1>1 DEF IInv, Exclusive
<1>4. rec[t] \in Elems(large) /\ rec[t] \in 1..Slots
  BY <1>1, ElementsOf DEF IInv, Freed, Typed
<1>5. /\ alloc' \in [1..Slots -> Chunks \cup {None}] /\ alloc'[rec[t]] = None
      /\ \A s \in 1..Slots : s # rec[t] => alloc'[s] = alloc[s]
  BY <1>4 DEF IInv, Typed, Clear
<1>6. Records' = Records \cup {rec[t]} /\ rec[t] \notin Records /\ Records \subseteq 1..Slots
  <2>1. \A u \in Threads : pc'[u] # "clear"
    BY <1>2, <1>3 DEF Freeing, Locals, Others
  <2>2. \A u \in Threads : pc[u] = "clear" <=> u = t
    BY <1>1, <1>3 DEF Freeing
  <2>3. \A s : s \in Records <=> s \in Elems(large) /\ s # rec[t]
    BY <2>2 DEF Records
  <2>4. \A s : s \in Records' <=> s \in Elems(large)
    BY <1>1, <2>1 DEF Records
  <2>. QED BY <1>4, <2>3, <2>4, ElementsOf DEF IInv, Typed
<1>7. Place(t)' /\ \A u \in Threads : Place(u)'
  <2>1. ASSUME NEW u \in Threads, u # t, pc[u] = "push", op[u] # "cleanup"
        PROVE  alloc'[rec[u]] = alloc[rec[u]]
    BY <1>4, <1>5, <2>1, ThreadsAssumption DEF IInv, Typed, LocalsTyped, Pieces, Pending
  <2>2. ASSUME NEW u \in Threads, pc[u] = "fill", rec[u] \in Elems(large), alloc[rec[u]] = None
        PROVE  alloc'[rec[u]] = None
    BY <1>5, <2>2, ElementsOf DEF IInv, Typed
  <2>. QED BY <1>1, <1>2, <2>1, <2>2 DEF IInv, Place, Locals, Others
<1>8. Exclusive'
  BY <1>1, <1>2, ExclusiveFrame DEF IInv, Owner, Freeing, Locals
<1>9. Pieces'
  BY <1>1, <1>2, PiecesFrame DEF IInv, Locals, Pending
<1>10. ChunksNamed'
  <2>1. \A m \in held : m # None
    BY ThreadsAssumption DEF IInv, Typed
  <2>2. \A s \in Records' : alloc'[s] # None => s \in Records /\ alloc'[s] = alloc[s]
    BY <1>5, <1>6
  <2>3. \A m \in held' : \E s \in Records' : alloc'[s] = m
    BY <1>1, <1>5, <1>6 DEF IInv, ChunksNamed
  <2>. QED BY <1>1, <2>2, <2>3 DEF IInv, ChunksNamed
<1>11. Carried'
  BY <1>1, <1>2, <1>5, <1>6 DEF IInv, Carried, Carrying, Locals, Others
<1>12. Freed'
  BY <1>2, <1>3 DEF Freed, Freeing, Locals, Others
<1>13. Typed'
  BY <1>1, <1>5 DEF IInv, Typed
<1>. QED BY <1>2, <1>7, <1>8, <1>9, <1>10, <1>11, <1>12, <1>13 DEF IInv, Locals

-----------------------------------------------------------------------------
(* The theorems *)

LEMMA InitIInv == Init => IInv
<1>. SUFFICES ASSUME Init PROVE IInv
  OBVIOUS
<1>1. Typed
  BY ThreadsAssumption DEF Init, Typed
<1>2. LocalsTyped
  BY ThreadsAssumption DEF Init, LocalsTyped
<1>3. \A t \in Threads : Place(t) /\ ~Owner(t) /\ ~Pending(t) /\ ~Carrying(t) /\ ~Freeing(t)
  BY DEF Init, Place, Owner, Pending, Carrying, Freeing
<1>4. Pieces
  BY <1>3, EmptyElems DEF Init, Pieces
<1>5. ChunksNamed
  BY EmptyElems DEF Init, ChunksNamed, Records
<1>. QED BY <1>1, <1>2, <1>3, <1>4, <1>5 DEF IInv, Exclusive, Carried, Freed

LEMMA NextIInv ==
  ASSUME Supported, IInv, [Next]_vars
  PROVE  IInv'
<1>1. ASSUME NEW t \in Threads, NEW o \in Ops, Call(t, o) PROVE IInv'
  BY <1>1, CallStep
<1>2. ASSUME NEW t \in Threads, Find(t) PROVE IInv'
  BY <1>2, FindStep
<1>3. ASSUME NEW t \in Threads, Step(t) PROVE IInv'
  BY <1>3, LockStep, MallocStep, MallocFailsStep, ReadLastStep, WriteLastStep, FullStep, ScanStep,
     LookStep, FillStep, LinkStep, PushStep, UnlockStep, FreeStep, ClearStep DEF Step
<1>4. CASE UNCHANGED vars
  <2>. USE <1>4 DEF vars, shared, ghosts, locals
  <2>1. Typed' /\ LocalsTyped'
    BY DEF IInv, Typed, LocalsTyped
  <2>2. \A t \in Threads : Place(t)'
    BY DEF IInv, Place
  <2>3. Exclusive' /\ Pieces'
    BY DEF IInv, Exclusive, Pieces, Owner, Pending, Freeing
  <2>4. Records' = Records
    BY DEF Records
  <2>5. ChunksNamed' /\ Carried' /\ Freed'
    BY <2>4 DEF IInv, ChunksNamed, Carried, Freed, Carrying, Freeing
  <2>. QED BY <2>1, <2>2, <2>3, <2>5 DEF IInv
<1>. QED BY <1>1, <1>2, <1>3, <1>4 DEF Next

LEMMA Inductive ==
  ASSUME Supported
  PROVE  Spec => []IInv
<1>1. IInv /\ [Next]_vars => IInv'
  BY NextIInv
<1>. QED BY InitIInv, <1>1, PTL DEF Spec

\* Where a sequence of distinct elements is followed by another.
LEMMA DistinctConcat ==
  ASSUME NEW s \in Seq(1..Slots), NEW r \in Seq(1..Slots), Distinct(s), Distinct(r),
         Elems(s) \cap Elems(r) = {}, NEW a, a = s \o r
  PROVE  a \in Seq(1..Slots) /\ Distinct(a) /\ Elems(a) = Elems(s) \cup Elems(r)
<1>1. /\ a \in Seq(1..Slots) /\ Len(a) = Len(s) + Len(r)
      /\ \A i \in 1..Len(s) + Len(r) :
           a[i] = IF i <= Len(s) THEN s[i] ELSE r[i - Len(s)]
  BY ConcatProperties
<1>2. /\ DOMAIN s = 1..Len(s) /\ DOMAIN r = 1..Len(r) /\ DOMAIN a = 1..(Len(s) + Len(r))
      /\ Len(s) \in Nat /\ Len(r) \in Nat
  BY <1>1, LenProperties
<1>3. ASSUME NEW i \in DOMAIN a
      PROVE  \/ i \in DOMAIN s /\ a[i] = s[i]
             \/ \E k \in DOMAIN r : i = k + Len(s) /\ a[i] = r[k]
  <2>1. CASE i <= Len(s)
    BY <1>1, <1>2, <2>1
  <2>2. CASE i > Len(s)
    <3>1. i - Len(s) \in DOMAIN r /\ i = (i - Len(s)) + Len(s) /\ a[i] = r[i - Len(s)]
      BY <1>1, <1>2, <2>2
    <3>. QED BY <3>1
  <2>. QED BY <1>2, <2>1, <2>2
<1>4. Distinct(a)
  <2>. SUFFICES ASSUME NEW i \in DOMAIN a, NEW j \in DOMAIN a, a[i] = a[j] PROVE i = j
    BY DEF Distinct
  <2>1. \A x \in DOMAIN s, y \in DOMAIN r : s[x] # r[y]
    BY DEF Elems
  <2>. QED BY <1>3, <2>1 DEF Distinct
<1>5. ASSUME NEW x \in Elems(s) \cup Elems(r) PROVE x \in Elems(a)
  <2>1. CASE x \in Elems(s)
    BY <1>1, <1>2, <2>1 DEF Elems
  <2>2. CASE x \in Elems(r)
    <3>1. PICK i \in DOMAIN r : r[i] = x
      BY <2>2 DEF Elems
    <3>2. i + Len(s) \in DOMAIN a /\ a[i + Len(s)] = x
      BY <1>1, <1>2, <3>1
    <3>. QED BY <3>2 DEF Elems
  <2>. QED BY <2>1, <2>2
<1>6. Elems(a) \subseteq Elems(s) \cup Elems(r)
  BY <1>3 DEF Elems
<1>. QED BY <1>1, <1>4, <1>5, <1>6

\* Two threads never get the same piece of the block, however their calls
\* interleave.
THEOREM PiecesGrantedOnce ==
  ASSUME Supported
  PROVE  Spec => []NoDoubleGrant
<1>1. ASSUME IInv PROVE NoDoubleGrant
  <2>1. /\ small \in Seq(1..Slots) /\ large \in Seq(1..Slots) /\ cleanup \in Seq(1..Slots)
        /\ Distinct(small) /\ Distinct(large) /\ Distinct(cleanup)
        /\ Elems(small) \cap Elems(large) = {}
        /\ (Elems(small) \cup Elems(large)) \cap Elems(cleanup) = {}
    BY <1>1 DEF IInv, Typed, Pieces
  <2>2. PICK a : a = small \o large
    OBVIOUS
  <2>3. a \in Seq(1..Slots) /\ Distinct(a) /\ Elems(a) = Elems(small) \cup Elems(large)
    BY <2>1, <2>2, DistinctConcat
  <2>4. PICK b : b = a \o cleanup
    OBVIOUS
  <2>5. Distinct(b)
    BY <2>1, <2>3, <2>4, DistinctConcat
  <2>. QED BY <2>2, <2>4, <2>5 DEF Distinct, NoDoubleGrant
<1>2. IInv => NoDoubleGrant
  BY <1>1
<1>. QED BY Inductive, <1>2, PTL

\* No record is lost: art_pfree, art_reset_pool and art_destroy_pool find
\* every chunk that a caller has.
THEOREM HeldChunksRecorded ==
  ASSUME Supported
  PROVE  Spec => []ChunksRecorded
<1>1. IInv => ChunksRecorded
  BY DEF IInv, ChunksNamed, Records, Elems, ChunksRecorded
<1>. QED BY Inductive, <1>1, PTL

\* Between art_pfree's free and its clear nobody else has a stale record, and
\* no chunk is in two.
THEOREM RecordsAreLive ==
  ASSUME Supported
  PROVE  Spec => []NoStaleRecord
<1>1. ASSUME IInv PROVE NoStaleRecord
  <2>1. \A i \in DOMAIN large :
          large[i] \notin {rec[t] : t \in {u \in Threads : pc[u] = "clear"}} => large[i] \in Records
    BY DEF Records, Elems
  <2>. QED BY <1>1, <2>1 DEF IInv, ChunksNamed, Pieces, Distinct, NoStaleRecord
<1>2. IInv => NoStaleRecord
  BY <1>1
<1>. QED BY Inductive, <1>2, PTL

=============================================================================
