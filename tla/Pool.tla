-------------------------------- MODULE Pool --------------------------------
(***************************************************************************)
(* The memory pool of ark_core/memory (art_palloc.c, art_palloc.h), one    *)
(* action per function of its interface, for callers that use the pool one *)
(* at a time.  Addresses are offsets into the block they lie in; every     *)
(* block starts at a multiple of ART_POOL_ALIGNMENT, so aligning an offset *)
(* aligns the address.  Sizes are those of the LP64 build.                 *)
(***************************************************************************)
EXTENDS Integers, Sequences

CONSTANTS
  Blocks,        \* what posix_memalign may return for a block of the pool
  Bigs,          \* what malloc or posix_memalign may return for a large chunk
  None,          \* NULL
  CreateSizes,   \* the sizes art_create_pool is called with
  Sizes,         \* the sizes the allocation functions are called with
  MaxFailed,     \* the 4 of `failed++ > 4`
  ScanLimit,     \* large records looked at for reuse, 5 by `n++ > 3`
  LeisureTimes,  \* LEISURETIMES
  MaxIdle,       \* bound: resets a block may go through unused
  MaxCleanups    \* bound: length of the cleanup list

ALIGNMENT   == 16      \* ART_POOL_ALIGNMENT
MAX_ALLOC   == 4095    \* ART_MAX_ALLOC_FROM_POOL
PoolSize    == 72      \* sizeof(art_pool_t), at the start of the first block
DataSize    == 32      \* sizeof(art_pool_data_t), at the start of the others
LargeSize   == 16      \* sizeof(art_pool_large_t)
CleanupSize == 24      \* sizeof(art_pool_cleanup_t)

Memory == Blocks \cup Bigs
Region == [blk : Memory, lo : Nat, hi : Nat]

\* A size below sizeof(art_pool_t) leaves no room for the pool's own header.
ASSUME PoolAssumption ==
  /\ None \notin Memory /\ None \notin Region
  /\ Blocks \cap Bigs = {}
  /\ CreateSizes \subseteq {s \in Nat : s >= PoolSize}
  /\ Sizes \subseteq Nat
  /\ MaxFailed \in Nat /\ ScanLimit \in Nat /\ LeisureTimes \in Nat
  /\ MaxIdle \in Nat /\ MaxCleanups \in Nat

VARIABLE
  pool   \* the pool, its blocks and records, and the memory behind them

vars == <<pool>>

Faults == {"none", "current was freed", "memzero(NULL)", "NULL->d.next",
           "cleanup record reused"}

(* Fields of pool:
     psize    size of every block                        (d.end - block)
     head     the block that holds the art_pool_t, None without a pool
     linked   the blocks on the d.next chain from head
     ahead    for each linked block, the blocks before it on the chain
     last, failed, leisure   the fields of each block's art_pool_data_t
     current, lock           the fields of art_pool_t
     large    the large list, newest record (the list's head) last
     cleanup  the cleanup list as the regions of its records, newest last
     heap     every memory allocated from the system and not yet freed
     live     ghost: the regions handed out since they were last reclaimed
     stale    ghost: how many records of cleanup a reset has reclaimed
     fault    ghost: why the code's behaviour is undefined from here on     *)
PoolType ==
  [psize : Nat, head : Blocks \cup {None}, linked : SUBSET Blocks,
   ahead : [Blocks -> SUBSET Blocks], last : [Blocks -> Nat],
   failed : [Blocks -> Nat], leisure : [Blocks -> Nat],
   current : Blocks \cup {None}, lock : {0, 1},
   large : Seq([rec : Region, alloc : Bigs \cup {None}]), cleanup : Seq(Region),
   heap : SUBSET Memory, live : SUBSET Region, stale : Nat, fault : Faults]

NoPool(heap, fault) ==
  [psize |-> 0, head |-> None, linked |-> {},
   ahead |-> [b \in Blocks |-> {}], last |-> [b \in Blocks |-> 0],
   failed |-> [b \in Blocks |-> 0], leisure |-> [b \in Blocks |-> 0],
   current |-> None, lock |-> 0, large |-> <<>>, cleanup |-> <<>>,
   heap |-> heap, live |-> {}, stale |-> 0, fault |-> fault]

Init == pool = NoPool({}, "none")

Broken(p, why) == [p EXCEPT !.fault = why]

Result(p, region) == [pool |-> p, addr |-> region]
Failure(p) == [pool |-> p, addr |-> None]

-----------------------------------------------------------------------------
(* art_palloc_small and art_palloc_block: the set of results a call on p    *)
(* may have, each the pool afterwards and the region or None it returns.    *)

AlignUp(d) == ((d + ALIGNMENT - 1) \div ALIGNMENT) * ALIGNMENT

\* The first free byte of block b, aligned if asked for.
Start(p, b, align) == IF align THEN AlignUp(p.last[b]) ELSE p.last[b]

\* The room measured before aligning (for the mutant runs).
FitsUnaligned(p, b, size, align) == p.psize - p.last[b] >= size

\* `(size_t)(end - m) >= size`: a negative difference converts to a size
\* larger than any request.
Fits(p, b, size, align) ==
  LET room == p.psize - Start(p, b, align) IN room < 0 \/ room >= size

\* The blocks from pool->current to the end of the chain.
Walk(p) == {b \in p.linked : b = p.current \/ p.current \in p.ahead[b]}

FirstFit(p, size, align) ==
  {b \in Walk(p) : /\ Fits(p, b, size, align)
                   /\ \A c \in p.ahead[b] \cap Walk(p) : ~Fits(p, c, size, align)}

\* d.last advanced from its old value, not from the aligned one, not advanced
\* at all, or leisure left as it was (for the mutant runs).
ServeFromLast(p, b, size, align) ==
  LET r == [blk |-> b, lo |-> Start(p, b, align), hi |-> Start(p, b, align) + size]
  IN  Result([p EXCEPT !.last[b] = @ + size, !.leisure[b] = 0, !.live = @ \cup {r}], r)

ServeInPlace(p, b, size, align) ==
  LET r == [blk |-> b, lo |-> Start(p, b, align), hi |-> Start(p, b, align) + size]
  IN  Result([p EXCEPT !.leisure[b] = 0, !.live = @ \cup {r}], r)

ServeStaysIdle(p, b, size, align) ==
  LET r == [blk |-> b, lo |-> Start(p, b, align), hi |-> Start(p, b, align) + size]
  IN  Result([p EXCEPT !.last[b] = r.hi, !.live = @ \cup {r}], r)

Serve(p, b, size, align) ==
  LET r == [blk |-> b, lo |-> Start(p, b, align), hi |-> Start(p, b, align) + size]
  IN  Result([p EXCEPT !.last = [@ EXCEPT ![b] = r.hi],
                       !.leisure = [@ EXCEPT ![b] = 0],
                       !.live = @ \cup {r}], r)

\* The blocks that art_palloc_block finds exhausted: it counts a failure of
\* every block it walks over but the last, which it links the new one to.
LastBlock(p) == {b \in p.linked : \A c \in p.linked : b \notin p.ahead[c]}

\* `>= 4` (for the mutant runs).
ExhaustedEarly(p) == {b \in Walk(p) \ LastBlock(p) : p.failed[b] >= MaxFailed}

Exhausted(p) == {b \in Walk(p) \ LastBlock(p) : p.failed[b] > MaxFailed}

Successor(p, b) ==
  {c \in p.linked : b \in p.ahead[c] /\ \A d \in p.ahead[c] : b \notin p.ahead[d]}

\* pool->current after the walk: the successor of the last exhausted block.
CurrentAfter(p) ==
  IF Exhausted(p) = {} THEN {p.current}
  ELSE UNION {Successor(p, b) : b \in {e \in Exhausted(p) :
                 \A f \in Exhausted(p) : e \notin p.ahead[f]}}

LinkNew(p, new, cur, size) ==
  LET r == [blk |-> new, lo |-> DataSize, hi |-> DataSize + size]
  IN  Result([p EXCEPT
        !.linked  = @ \cup {new},
        !.ahead   = [@ EXCEPT ![new] = p.linked],
        !.last    = [@ EXCEPT ![new] = r.hi],
        !.failed  = [b \in Blocks |-> IF b = new THEN 0
                                     ELSE IF b \in Walk(p) \ LastBlock(p) THEN @[b] + 1
                                     ELSE @[b]],
        !.leisure = [@ EXCEPT ![new] = 0],
        !.current = cur,
        !.heap    = @ \cup {new},
        !.live    = @ \cup {r}], r)

PallocBlock(p, size) ==
  {Failure(p)} \cup
  {LinkNew(p, new, cur, size) : new \in Blocks \ p.heap, cur \in CurrentAfter(p)}

PallocSmall(p, size, align) ==
  IF p.current \notin p.linked THEN {Failure(Broken(p, "current was freed"))}
  ELSE IF FirstFit(p, size, align) # {}
       THEN {Serve(p, b, size, align) : b \in FirstFit(p, size, align)}
       ELSE PallocBlock(p, size)

-----------------------------------------------------------------------------
(* art_palloc_large: a chunk from malloc, held by one of the newest records *)
(* that lost its chunk or by a new record in the pool's own memory.         *)

\* A chunk is handed out whole: its length plays no part in the pool.
Chunk(m) == [blk |-> m, lo |-> 0, hi |-> 1]

\* A record that still holds a chunk (for the mutant runs).
ReusableInUse(p) == {i \in DOMAIN p.large : i > Len(p.large) - ScanLimit}

Reusable(p) ==
  {i \in DOMAIN p.large : i > Len(p.large) - ScanLimit /\ p.large[i].alloc = None}

\* Chunk m goes to the caller, with the large list as it is then.
HandOut(p, m, large) ==
  Result([p EXCEPT !.large = large, !.live = @ \cup {Chunk(m)}], Chunk(m))

\* The chunk kept when its record cannot be made (for the mutant runs).
RecordLeaks(p, m) ==
  IF Reusable(p) # {}
  THEN {HandOut(p, m, [p.large EXCEPT ![i].alloc = m]) :
          i \in {j \in Reusable(p) : \A k \in Reusable(p) : k <= j}}
  ELSE {IF o.addr = None THEN o
        ELSE HandOut(o.pool, m, Append(o.pool.large, [rec |-> o.addr, alloc |-> m]))
        : o \in PallocSmall(p, LargeSize, TRUE)}

Record(p, m) ==
  IF Reusable(p) # {}
  THEN {HandOut(p, m, [p.large EXCEPT ![i].alloc = m]) :
          i \in {j \in Reusable(p) : \A k \in Reusable(p) : k <= j}}
  ELSE {IF o.addr = None
        THEN Failure([o.pool EXCEPT !.heap = @ \ {m}])
        ELSE HandOut(o.pool, m, Append(o.pool.large, [rec |-> o.addr, alloc |-> m]))
        : o \in PallocSmall(p, LargeSize, TRUE)}

PallocLarge(p) ==
  {Failure(p)} \cup
  UNION {Record([p EXCEPT !.heap = @ \cup {m}], m) : m \in Bigs \ p.heap}

\* What art_palloc and art_pnalloc do between art_spinlock and art_unlock.
Locked(p, size, align) ==
  IF size <= p.psize - PoolSize THEN PallocSmall(p, size, align)
  ELSE PallocLarge(p)

\* art_memzero on the result, NULL or not, when the caller asks for it.
Zeroed(o, init) ==
  IF init /\ o.addr = None THEN Broken(o.pool, "memzero(NULL)") ELSE o.pool

-----------------------------------------------------------------------------
(* The interface.  A call is made on a pool that exists and whose behaviour *)
(* is still defined; one that enters art_spinlock returns only if the lock  *)
(* word is 0, since a caller that is alone waits for nobody.                *)

Usable == pool.head # None /\ pool.fault = "none"

Capped(size) == IF size < MAX_ALLOC THEN size ELSE MAX_ALLOC

\* The first block cut after its art_pool_data_t, or pool->current left unset
\* (for the mutant runs).
CreateAfterData(size) ==
  /\ pool.head = None /\ pool.fault = "none"
  /\ Capped(size) > PoolSize
  /\ \E b \in Blocks \ pool.heap :
       pool' = [NoPool(pool.heap \cup {b}, "none") EXCEPT
                  !.psize = Capped(size), !.head = b, !.linked = {b},
                  !.last[b] = DataSize, !.current = b]

CreateNoCurrent(size) ==
  /\ pool.head = None /\ pool.fault = "none"
  /\ Capped(size) > PoolSize
  /\ \E b \in Blocks \ pool.heap :
       pool' = [NoPool(pool.heap \cup {b}, "none") EXCEPT
                  !.psize = Capped(size), !.head = b, !.linked = {b},
                  !.last[b] = PoolSize]

\* art_create_pool; without memory, or with p->max = 0, it changes nothing.
Create(size) ==
  /\ pool.head = None /\ pool.fault = "none"
  /\ Capped(size) > PoolSize
  /\ \E b \in Blocks \ pool.heap :
       pool' = [NoPool(pool.heap \cup {b}, "none") EXCEPT
                  !.psize = Capped(size), !.head = b, !.linked = {b},
                  !.last[b] = PoolSize, !.current = b]

Palloc(size, init) ==
  /\ Usable /\ pool.lock = 0
  /\ \E o \in Locked(pool, size, TRUE) : pool' = Zeroed(o, init)

Pnalloc(size, init) ==
  /\ Usable /\ pool.lock = 0
  /\ \E o \in Locked(pool, size, FALSE) : pool' = Zeroed(o, init)

\* Both returns before art_unlock leave the lock word at 1.
Pmemalign ==
  /\ Usable /\ pool.lock = 0
  /\ \E m \in Bigs \ pool.heap :
     \E o \in Record([pool EXCEPT !.heap = @ \cup {m}], m) :
       pool' = [o.pool EXCEPT !.lock = IF Reusable(pool) # {} \/ o.addr = None
                                       THEN 1 ELSE 0]

\* The newest record that holds m loses it.
Pfree(m) ==
  /\ Usable
  /\ \E i \in DOMAIN pool.large :
       /\ pool.large[i].alloc = m
       /\ \A j \in DOMAIN pool.large : pool.large[j].alloc = m => j <= i
       /\ pool' = [pool EXCEPT !.large[i].alloc = None,
                               !.heap = @ \ {m},
                               !.live = {r \in @ : r.blk # m}]

\* The record comes from art_palloc_small without the lock, the data from
\* art_palloc, which zeroes it before the NULL test.
CleanupAdd(size) ==
  /\ Usable /\ (size > 0 => pool.lock = 0)
  /\ Len(pool.cleanup) < MaxCleanups
  /\ \E c \in PallocSmall(pool, CleanupSize, TRUE) :
       IF c.addr = None THEN pool' = c.pool
       ELSE \E d \in IF size > 0 THEN Locked(c.pool, size, TRUE) ELSE {c} :
              pool' = IF d.addr = None THEN Zeroed(d, TRUE)
                      ELSE [d.pool EXCEPT !.cleanup = Append(@, c.addr)]

Allocs(p) == {p.large[i].alloc : i \in DOMAIN p.large} \ {None}

Reset ==
  /\ Usable
  /\ \A b \in pool.linked : pool.leisure[b] < MaxIdle
  /\ pool' = [pool EXCEPT
       !.heap    = @ \ Allocs(pool),
       !.last    = [b \in Blocks |-> IF b \in pool.linked THEN PoolSize ELSE @[b]],
       !.failed  = [b \in Blocks |-> IF b \in pool.linked THEN 0 ELSE @[b]],
       !.leisure = [b \in Blocks |-> IF b \in pool.linked THEN @[b] + 1 ELSE @[b]],
       !.current = pool.head,
       !.large   = <<>>,
       !.live    = {},
       !.stale   = Len(pool.cleanup)]

Idle(p) == {b \in p.linked \ {p.head} : p.leisure[b] > LeisureTimes}

\* The blocks one pass of art_manage_small frees: after it frees a block it
\* moves past that block's successor without looking at it.
Freed(p) ==
  {g \in SUBSET Idle(p) :
     \A b \in Idle(p) : b \in g <=> \A c \in g : b \notin Successor(p, c)}

\* Moving past the successor of the last block reads through NULL.
ManageSmall ==
  /\ Usable
  /\ \E g \in Freed(pool) :
       pool' = [pool EXCEPT
         !.linked  = @ \ g,
         !.ahead   = [b \in Blocks |-> IF b \in g THEN {} ELSE @[b] \ g],
         !.last    = [b \in Blocks |-> IF b \in g THEN 0 ELSE @[b]],
         !.failed  = [b \in Blocks |-> IF b \in g THEN 0 ELSE @[b]],
         !.leisure = [b \in Blocks |-> IF b \in g THEN 0 ELSE @[b]],
         !.heap    = @ \ g,
         !.fault   = IF LastBlock(pool) \cap g # {} THEN "NULL->d.next" ELSE "none"]

\* A record that a reset reclaimed is gone once its bytes are handed out
\* again or its block is freed; the walk over the list then reads garbage.
Garbled(p) ==
  \E i \in 1..p.stale :
     \/ p.cleanup[i].blk \notin p.linked
     \/ \E r \in p.live : /\ r.blk = p.cleanup[i].blk
                          /\ r.lo < p.cleanup[i].hi /\ p.cleanup[i].lo < r.hi

Destroy ==
  /\ Usable
  /\ pool' = IF Garbled(pool) THEN Broken(pool, "cleanup record reused")
             ELSE NoPool(pool.heap \ (Allocs(pool) \cup pool.linked), "none")

Next ==
  \/ \E size \in CreateSizes : Create(size)
  \/ \E size \in Sizes, init \in BOOLEAN : Palloc(size, init)
  \/ \E size \in Sizes, init \in BOOLEAN : Pnalloc(size, init)
  \/ Pmemalign
  \/ \E m \in Bigs : Pfree(m)
  \/ \E size \in Sizes \cup {0} : CleanupAdd(size)
  \/ Reset
  \/ ManageSmall
  \/ Destroy

Spec == Init /\ [][Next]_vars

-----------------------------------------------------------------------------
(* Properties *)

\* Types; a pool that exists has its first block on the chain and works from
\* a block, and one that does not exist has none.
TypeOK ==
  /\ pool \in PoolType
  /\ IF pool.head = None THEN pool.linked = {} /\ pool.current = None
     ELSE pool.head \in pool.linked /\ pool.current \in Blocks

\* The bytes of a block that its own header takes.
Header(p, b) == IF b = p.head THEN PoolSize ELSE DataSize

Promise == INSTANCE Arena WITH granted <- pool.live

\* No two regions handed out since they were last reclaimed share a byte,
\* and none lies over the header of its block: art_palloc_small's bump of
\* d.last, art_palloc_block's first region and the records of the large and
\* cleanup lists never meet, through reuse of blocks after resets.
NoOverlap ==
  /\ Promise!Apart(pool.live)
  /\ \A r \in pool.live : r.blk \in Blocks => Header(pool, r.blk) <= r.lo

\* Every region lies inside the block it was cut from (d.end).  It needs
\* blocks whose size is a multiple of ART_POOL_ALIGNMENT.
InBlock == \A r \in pool.live : r.blk \in Blocks => r.hi <= pool.psize

\* Nobody holds memory that was given back: the block or chunk of a live
\* region is still allocated, so art_manage_small frees only blocks that
\* served nothing since the last reset and art_pfree only its own chunk.
LiveInHeap == \A r \in pool.live : r.blk \in pool.heap

\* What the pool got from the system is exactly what art_destroy_pool and
\* art_reset_pool will free: the linked blocks and the chunks of the large
\* list.  Nothing leaks on a failure path and nothing is freed twice.
HeapAccounted == pool.heap = pool.linked \cup Allocs(pool)

\* Two records never hold the same chunk, and a chunk is recorded exactly
\* while its caller may use it.
ChunksRecordedOnce ==
  /\ \A i, j \in DOMAIN pool.large :
       pool.large[i].alloc = pool.large[j].alloc => i = j \/ pool.large[i].alloc = None
  /\ Allocs(pool) = {r.blk : r \in pool.live} \cap Bigs

\* The list nodes that the pool keeps in its own memory are not reclaimed
\* under it: each large record, and each cleanup record added since the last
\* reset, is one of the live regions, no two of them the same.
RecordsLive ==
  LET large == {pool.large[i].rec : i \in DOMAIN pool.large}
      added == {pool.cleanup[i] : i \in pool.stale + 1 .. Len(pool.cleanup)}
  IN  /\ large \cup added \subseteq pool.live /\ large \cap added = {}
      /\ \A i, j \in DOMAIN pool.large :
           pool.large[i].rec = pool.large[j].rec => i = j

\* A block is skipped, for good until a reset, only after MaxFailed + 2
\* requests that neither it nor any block behind it could serve.
SkipsOnlyExhausted ==
  pool.current \in pool.linked =>
    \A b \in pool.linked :
       IF b \in pool.ahead[pool.current] THEN pool.failed[b] = MaxFailed + 2
       ELSE pool.failed[b] < MaxFailed + 2

\* The pool implements Arena: a live region stays its caller's until its
\* chunk is freed by name or everything is reclaimed at once.
ImplementsArena == Promise!Spec

=============================================================================
