----------------------------- MODULE PoolProofs -----------------------------
(***************************************************************************)
(* The memory pool for any block names, chunk names, sizes and limits: its *)
(* types, that live regions share no byte, and the refinement of Arena;    *)
(* then its ledger with the system's allocator, the bounds of its blocks,  *)
(* and the order and the counts of their chain.                            *)
(***************************************************************************)
EXTENDS Pool, SequenceTheorems, TLAPS

LEMMA PoolFields ==
  ASSUME NEW p \in PoolType
  PROVE  /\ p.psize \in Nat /\ p.linked \subseteq Blocks
         /\ p.head \in Blocks \cup {None} /\ p.current \in Blocks \cup {None}
         /\ p.ahead \in [Blocks -> SUBSET Blocks] /\ p.last \in [Blocks -> Nat]
         /\ p.failed \in [Blocks -> Nat] /\ p.leisure \in [Blocks -> Nat]
         /\ p.large \in Seq([rec : Region, alloc : Bigs \cup {None}])
         /\ p.cleanup \in Seq(Region) /\ p.stale \in Nat /\ p.lock \in {0, 1}
         /\ p.heap \subseteq Memory /\ p.live \subseteq Region
BY DEF PoolType

LEMMA AlignUpType ==
  ASSUME NEW d \in Nat
  PROVE  AlignUp(d) \in Nat /\ AlignUp(d) >= d /\ AlignUp(d) % 16 = 0 /\ AlignUp(d) < d + 16
BY DEF AlignUp, ALIGNMENT

LEMMA StartType ==
  ASSUME NEW p \in PoolType, NEW b \in Blocks, NEW align
  PROVE  Start(p, b, align) \in Nat /\ Start(p, b, align) >= p.last[b]
<1>1. p.last[b] \in Nat
  BY DEF PoolType
<1>. QED BY <1>1, AlignUpType DEF Start

\* What art_palloc_small returns when block b serves the request.
LEMMA ServeType ==
  ASSUME NEW p \in PoolType, NEW b \in Blocks, NEW size \in Nat, NEW align,
         NEW o, o = Serve(p, b, size, align)
  PROVE  /\ o.addr = [blk |-> b, lo |-> Start(p, b, align), hi |-> Start(p, b, align) + size]
         /\ o.addr \in Region /\ o.pool \in PoolType
         /\ o.pool.last = [p.last EXCEPT ![b] = Start(p, b, align) + size]
         /\ o.pool.leisure = [p.leisure EXCEPT ![b] = 0]
         /\ o.pool.live = p.live \cup {o.addr}
         /\ o.pool.linked = p.linked /\ o.pool.ahead = p.ahead
         /\ o.pool.failed = p.failed /\ o.pool.current = p.current
         /\ o.pool.psize = p.psize /\ o.pool.head = p.head /\ o.pool.lock = p.lock
         /\ o.pool.large = p.large /\ o.pool.cleanup = p.cleanup
         /\ o.pool.stale = p.stale /\ o.pool.heap = p.heap
<1>. DEFINE m == Start(p, b, align)
            r == [blk |-> b, lo |-> m, hi |-> m + size]
<1>1. m \in Nat /\ m + size \in Nat
  BY StartType
<1>2. r \in Region /\ r.hi = m + size
  BY <1>1 DEF Region, Memory
<1>3. /\ o.addr = r
      /\ o.pool = [p EXCEPT !.last = [p.last EXCEPT ![b] = m + size],
                            !.leisure = [p.leisure EXCEPT ![b] = 0],
                            !.live = p.live \cup {r}]
  BY <1>2 DEF Serve, Result
<1>4. /\ [p.last EXCEPT ![b] = m + size] \in [Blocks -> Nat]
      /\ [p.leisure EXCEPT ![b] = 0] \in [Blocks -> Nat]
      /\ p.live \cup {r} \in SUBSET Region
  BY <1>1, <1>2, PoolFields
<1>5. o.pool \in PoolType
  BY <1>3, <1>4 DEF PoolType
<1>. QED BY <1>2, <1>3, <1>5 DEF PoolType

\* What art_palloc_block returns when the system gives it the block `new`.
LEMMA LinkNewType ==
  ASSUME NEW p \in PoolType, NEW new \in Blocks, NEW cur \in Blocks \cup {None},
         NEW size \in Nat, NEW o, o = LinkNew(p, new, cur, size),
         NEW r, r = [blk |-> new, lo |-> DataSize, hi |-> DataSize + size]
  PROVE  /\ o.addr = r /\ r \in Region /\ o.pool \in PoolType
         /\ o.pool.linked = p.linked \cup {new}
         /\ o.pool.last = [p.last EXCEPT ![new] = r.hi]
         /\ o.pool.leisure = [p.leisure EXCEPT ![new] = 0]
         /\ o.pool.current = cur
         /\ o.pool.heap = p.heap \cup {new}
         /\ o.pool.live = p.live \cup {r}
         /\ o.pool.psize = p.psize /\ o.pool.head = p.head /\ o.pool.lock = p.lock
         /\ o.pool.large = p.large /\ o.pool.cleanup = p.cleanup
         /\ o.pool.stale = p.stale
<1>1. r \in Region /\ r.hi \in Nat
  BY DEF Region, Memory, DataSize
<1>. DEFINE failed == [b \in Blocks |-> IF b = new THEN 0
                                      ELSE IF b \in Walk(p) \ LastBlock(p)
                                      THEN p.failed[b] + 1 ELSE p.failed[b]]
<1>2. /\ o.addr = r
      /\ o.pool = [p EXCEPT !.linked = p.linked \cup {new},
                            !.ahead = [p.ahead EXCEPT ![new] = p.linked],
                            !.last = [p.last EXCEPT ![new] = r.hi],
                            !.failed = failed,
                            !.leisure = [p.leisure EXCEPT ![new] = 0],
                            !.current = cur,
                            !.heap = p.heap \cup {new},
                            !.live = p.live \cup {r}]
  BY DEF LinkNew, Result
<1>3. failed \in [Blocks -> Nat]
  BY PoolFields
<1>. HIDE DEF failed
<1>4. /\ p.linked \cup {new} \in SUBSET Blocks
      /\ [p.ahead EXCEPT ![new] = p.linked] \in [Blocks -> SUBSET Blocks]
      /\ [p.last EXCEPT ![new] = r.hi] \in [Blocks -> Nat]
      /\ [p.leisure EXCEPT ![new] = 0] \in [Blocks -> Nat]
      /\ p.heap \cup {new} \in SUBSET Memory
      /\ p.live \cup {r} \in SUBSET Region
  BY <1>1, PoolFields DEF Memory
<1>. DEFINE q == [p EXCEPT !.linked = p.linked \cup {new},
                           !.ahead = [p.ahead EXCEPT ![new] = p.linked],
                           !.failed = failed,
                           !.leisure = [p.leisure EXCEPT ![new] = 0],
                           !.current = cur]
<1>5. o.pool \in PoolType
  <2>1. q \in PoolType
    BY <1>3, <1>4 DEF PoolType
  <2>. DEFINE last == [p.last EXCEPT ![new] = r.hi]
              heap == p.heap \cup {new}
              live == p.live \cup {r}
  <2>2. o.pool = [q EXCEPT !.last = last, !.heap = heap, !.live = live]
    BY <1>2
  <2>3. last \in [Blocks -> Nat] /\ heap \in SUBSET Memory /\ live \in SUBSET Region
    BY <1>4
  <2>. HIDE DEF q, last, heap, live
  <2>. QED BY <2>1, <2>2, <2>3 DEF PoolType
<1>6. /\ o.pool.linked = p.linked \cup {new}
      /\ o.pool.last = [p.last EXCEPT ![new] = r.hi]
      /\ o.pool.leisure = [p.leisure EXCEPT ![new] = 0]
      /\ o.pool.current = cur
      /\ o.pool.heap = p.heap \cup {new}
      /\ o.pool.live = p.live \cup {r}
      /\ o.pool.psize = p.psize /\ o.pool.head = p.head /\ o.pool.lock = p.lock
      /\ o.pool.large = p.large /\ o.pool.cleanup = p.cleanup
      /\ o.pool.stale = p.stale
  BY <1>2 DEF PoolType
<1>. QED BY <1>1, <1>2, <1>5, <1>6

-----------------------------------------------------------------------------

\* The inductive invariant over the pool's memory: live regions lie below the
\* bump pointer d.last of a linked block that is not idle, or are a chunk
\* still allocated, and are pairwise disjoint.
Sound(p) ==
  /\ p.linked \subseteq p.heap
  /\ \A b \in p.linked : Header(p, b) <= p.last[b]
  /\ \A r \in p.live : r.blk \in p.heap
  /\ \A r \in p.live : r.blk \in Blocks =>
        /\ r.blk \in p.linked /\ p.leisure[r.blk] = 0
        /\ Header(p, r.blk) <= r.lo /\ r.hi <= p.last[r.blk]
  /\ Promise!Apart(p.live)

\* What every call of art_palloc_small guarantees for its callers.
SmallPost(p, o) ==
  /\ o.pool \in PoolType /\ Sound(o.pool)
  /\ o.pool.psize = p.psize /\ o.pool.head = p.head /\ o.pool.lock = p.lock
  /\ o.pool.large = p.large /\ o.pool.cleanup = p.cleanup
  /\ o.pool.stale = p.stale
  /\ p.linked \subseteq o.pool.linked
  /\ o.pool.current \in Blocks
  /\ o.pool.heap \in SUBSET (p.heap \cup Blocks) /\ p.heap \subseteq o.pool.heap
  /\ IF o.addr = None THEN o.pool.live = p.live
     ELSE o.addr \in Region /\ o.addr.blk \in Blocks
          /\ o.pool.live = p.live \cup {o.addr}

LEMMA FailureSound ==
  ASSUME NEW p \in PoolType, Sound(p), p.current \in Blocks,
         NEW o, o = Failure(p) \/ o = Failure(Broken(p, "current was freed"))
  PROVE  SmallPost(p, o)
<1>1. CASE o = Failure(p)
  BY <1>1 DEF Failure, SmallPost, PoolType
<1>2. CASE o = Failure(Broken(p, "current was freed"))
  <2>1. /\ o.addr = None
        /\ o.pool = [p EXCEPT !.fault = "current was freed"]
    BY <1>2 DEF Failure, Broken
  <2>2. o.pool \in PoolType
    BY <2>1 DEF PoolType, Faults
  <2>3. Sound(o.pool)
    BY <2>1 DEF Sound, PoolType, Header
  <2>. QED BY <2>1, <2>2, <2>3 DEF SmallPost, PoolType
<1>. QED BY <1>1, <1>2

LEMMA ServeSound ==
  ASSUME NEW p \in PoolType, Sound(p), p.current \in Blocks,
         NEW b \in p.linked, NEW size \in Nat, NEW align,
         NEW o, o = Serve(p, b, size, align)
  PROVE  SmallPost(p, o)
<1>. DEFINE m == Start(p, b, align)
            r == [blk |-> b, lo |-> m, hi |-> m + size]
<1>1. b \in Blocks
  BY PoolFields
<1>2. /\ o.addr = r /\ r \in Region /\ o.pool \in PoolType
      /\ o.pool.last = [p.last EXCEPT ![b] = m + size]
      /\ o.pool.leisure = [p.leisure EXCEPT ![b] = 0]
      /\ o.pool.live = p.live \cup {r}
      /\ o.pool.psize = p.psize /\ o.pool.head = p.head /\ o.pool.lock = p.lock
      /\ o.pool.large = p.large /\ o.pool.cleanup = p.cleanup
      /\ o.pool.stale = p.stale /\ o.pool.linked = p.linked
      /\ o.pool.current = p.current /\ o.pool.heap = p.heap
  BY <1>1, ServeType
<1>3. m \in Nat /\ p.last[b] \in Nat /\ p.last[b] <= m /\ p.last[b] <= m + size
  BY <1>1, StartType, PoolFields
<1>. HIDE DEF m
<1>5. Header(p, b) \in Nat /\ Header(p, b) <= p.last[b]
  BY DEF Sound, Header, PoolSize, DataSize
<1>6. \A c : Header(o.pool, c) = Header(p, c)
  BY <1>2 DEF Header
<1>7. Promise!Apart(p.live \cup {r})
  <2>1. ASSUME NEW s \in p.live PROVE Promise!Disjoint(s, r) /\ Promise!Disjoint(r, s)
    <3>1. s.hi \in Nat /\ (s.blk = b => s.hi <= p.last[b])
      BY <1>1, PoolFields DEF Sound, Region
    <3>. QED BY <1>3, <3>1 DEF Promise!Disjoint
  <2>. QED BY <2>1 DEF Sound, Promise!Apart
<1>8. \A s \in o.pool.live : s.blk \in Blocks =>
        /\ s.blk \in o.pool.linked /\ o.pool.leisure[s.blk] = 0
        /\ Header(o.pool, s.blk) <= s.lo /\ s.hi <= o.pool.last[s.blk]
  <2>1. ASSUME NEW s \in p.live, s.blk \in Blocks
        PROVE  s.hi <= o.pool.last[s.blk] /\ o.pool.leisure[s.blk] = 0
    <3>1. s.hi \in Nat /\ p.last[s.blk] \in Nat /\ s.hi <= p.last[s.blk] /\ p.leisure[s.blk] = 0
      BY <2>1, PoolFields DEF Sound, Region
    <3>2. CASE s.blk = b
      BY <1>1, <1>3, <1>2, <3>1, <3>2, PoolFields
    <3>3. CASE s.blk # b
      BY <1>2, <2>1, <3>1, <3>3, PoolFields
    <3>. QED BY <3>2, <3>3
  <2>2. r.hi <= o.pool.last[b] /\ o.pool.leisure[b] = 0 /\ Header(p, b) <= r.lo
    BY <1>1, <1>3, <1>2, <1>5, PoolFields
  <2>. QED BY <1>2, <1>6, <2>1, <2>2 DEF Sound
<1>9. \A c \in p.linked : Header(p, c) <= o.pool.last[c]
  <2>. TAKE c \in p.linked
  <2>1. Header(p, c) <= p.last[c] /\ c \in Blocks
    BY PoolFields DEF Sound
  <2>2. CASE c = b
    <3>1. Header(p, b) <= m + size
      BY <1>3, <1>5
    <3>. QED BY <1>1, <1>2, <2>2, <3>1, PoolFields
  <2>3. CASE c # b
    BY <1>2, <2>1, <2>3, PoolFields
  <2>. QED BY <2>2, <2>3
<1>10. Sound(o.pool)
  BY <1>2, <1>6, <1>7, <1>8, <1>9 DEF Sound
<1>11. r.blk = b /\ r # None
  BY <1>2, PoolAssumption
<1>. QED BY <1>1, <1>2, <1>10, <1>11 DEF SmallPost

LEMMA LinkNewSound ==
  ASSUME NEW p \in PoolType, Sound(p), NEW new \in Blocks \ p.heap,
         p.head # new, NEW cur \in Blocks, NEW size \in Nat,
         NEW o, o = LinkNew(p, new, cur, size)
  PROVE  SmallPost(p, o)
<1>. DEFINE r == [blk |-> new, lo |-> DataSize, hi |-> DataSize + size]
<1>1. /\ o.addr = r /\ r \in Region /\ o.pool \in PoolType
      /\ o.pool.linked = p.linked \cup {new}
      /\ o.pool.last = [p.last EXCEPT ![new] = r.hi]
      /\ o.pool.leisure = [p.leisure EXCEPT ![new] = 0]
      /\ o.pool.current = cur
      /\ o.pool.heap = p.heap \cup {new}
      /\ o.pool.live = p.live \cup {r}
      /\ o.pool.psize = p.psize /\ o.pool.head = p.head /\ o.pool.lock = p.lock
      /\ o.pool.large = p.large /\ o.pool.cleanup = p.cleanup
      /\ o.pool.stale = p.stale
  BY LinkNewType
<1>2. r.blk = new /\ r.lo = 32 /\ r.hi = 32 + size /\ r # None
  BY <1>1, PoolAssumption DEF DataSize
<1>. HIDE DEF r
<1>3. \A c : Header(o.pool, c) = Header(p, c)
  BY <1>1 DEF Header
<1>4. Header(p, new) = 32
  BY DEF Header, DataSize
<1>5. new \notin p.linked /\ \A s \in p.live : s.blk # new
  BY DEF Sound
<1>6. Promise!Apart(p.live \cup {r})
  BY <1>2, <1>5 DEF Sound, Promise!Apart, Promise!Disjoint
<1>7. \A b \in p.linked : Header(p, b) <= o.pool.last[b] /\ o.pool.last[b] = p.last[b]
  BY <1>1, <1>5, PoolFields DEF Sound
<1>8. o.pool.last[new] = 32 + size
  BY <1>1, <1>2, PoolFields
<1>9. \A b \in o.pool.linked : Header(o.pool, b) <= o.pool.last[b]
  BY <1>1, <1>3, <1>4, <1>7, <1>8
<1>10. ASSUME NEW s \in p.live, s.blk \in Blocks
       PROVE  /\ s.blk \in o.pool.linked /\ o.pool.leisure[s.blk] = 0
              /\ Header(o.pool, s.blk) <= s.lo /\ s.hi <= o.pool.last[s.blk]
  BY <1>1, <1>3, <1>5, <1>7, <1>10, PoolFields DEF Sound
<1>11. /\ r.blk \in o.pool.linked /\ o.pool.leisure[r.blk] = 0
       /\ Header(o.pool, r.blk) <= r.lo /\ r.hi <= o.pool.last[r.blk]
  BY <1>1, <1>2, <1>3, <1>4, <1>8, PoolFields
<1>12. \A s \in o.pool.live : s.blk \in o.pool.heap
  BY <1>1, <1>2 DEF Sound
<1>13. Sound(o.pool)
  BY <1>1, <1>6, <1>9, <1>10, <1>11, <1>12 DEF Sound
<1>. QED BY <1>1, <1>2, <1>13, PoolFields DEF SmallPost

\* art_palloc_small, and art_palloc_block behind it, keep live memory sound.
LEMMA SmallSound ==
  ASSUME NEW p \in PoolType, Sound(p), p.head \in p.linked, p.current \in Blocks,
         NEW size \in Nat, NEW align, NEW o \in PallocSmall(p, size, align)
  PROVE  SmallPost(p, o)
<1>1. CASE p.current \notin p.linked
  BY <1>1, FailureSound DEF PallocSmall
<1>2. CASE p.current \in p.linked /\ o \in PallocBlock(p, size)
  <2>1. CASE o = Failure(p)
    BY <2>1, FailureSound
  <2>2. ASSUME NEW new \in Blocks \ p.heap, NEW cur \in CurrentAfter(p),
               o = LinkNew(p, new, cur, size)
        PROVE  SmallPost(p, o)
    <3>1. cur \in Blocks
      BY PoolFields DEF CurrentAfter, Successor
    <3>2. p.head # new
      BY DEF Sound
    <3>. QED BY <2>2, <3>1, <3>2, LinkNewSound
  <2>. QED BY <1>2, <2>1, <2>2 DEF PallocBlock
<1>3. CASE \E b \in FirstFit(p, size, align) : o = Serve(p, b, size, align)
  BY <1>3, ServeSound DEF FirstFit, Walk
<1>. QED BY <1>1, <1>2, <1>3 DEF PallocSmall

-----------------------------------------------------------------------------

\* What art_palloc and the calls built on it guarantee, chunks included.
Post(p, o) ==
  /\ o.pool \in PoolType /\ Sound(o.pool)
  /\ o.pool.psize = p.psize /\ o.pool.head = p.head /\ o.pool.lock = p.lock
  /\ p.linked \subseteq o.pool.linked /\ o.pool.current \in Blocks
  /\ p.live \subseteq o.pool.live
  /\ o.addr \in Region \cup {None}

LEMMA SmallIsPost ==
  ASSUME NEW p, NEW o, SmallPost(p, o)
  PROVE  Post(p, o)
BY DEF SmallPost, Post

ChunkPost(p, m, q) ==
  /\ q \in PoolType /\ Sound(q) /\ Chunk(m) \in Region
  /\ q.psize = p.psize /\ q.head = p.head /\ q.lock = p.lock
  /\ q.linked = p.linked /\ q.current = p.current
  /\ q.live = p.live \cup {Chunk(m)}

\* Handing out a chunk that is allocated and not yet handed out.
LEMMA ChunkSound ==
  ASSUME NEW p \in PoolType, Sound(p), NEW m \in Bigs, m \in p.heap,
         \A r \in p.live : r.blk # m,
         NEW large \in Seq([rec : Region, alloc : Bigs \cup {None}])
  PROVE  ChunkPost(p, m, HandOut(p, m, large).pool)
<1>. DEFINE q == HandOut(p, m, large).pool
<1>1. Chunk(m) \in Region /\ Chunk(m).blk = m
  BY DEF Chunk, Region, Memory
<1>. DEFINE live == p.live \cup {Chunk(m)}
<1>2. live \in SUBSET Region
  BY <1>1, PoolFields
<1>3. m \notin Blocks
  BY PoolAssumption
<1>4. Promise!Apart(live)
  BY <1>1 DEF Sound, Promise!Apart, Promise!Disjoint
<1>5. \A r \in live : r.blk \in p.heap /\ (r.blk \in Blocks => r \in p.live)
  BY <1>1, <1>3 DEF Sound
<1>. HIDE DEF live
<1>6. q \in PoolType
  BY <1>2 DEF PoolType, live, HandOut, Result
<1>7. /\ q.psize = p.psize /\ q.head = p.head /\ q.lock = p.lock
      /\ q.linked = p.linked /\ q.current = p.current /\ q.heap = p.heap
      /\ q.last = p.last /\ q.leisure = p.leisure /\ q.live = live
  BY DEF PoolType, live, HandOut, Result
<1>. HIDE DEF q
<1>8. Sound(q)
  BY <1>4, <1>5, <1>7 DEF Sound, Header
<1>9. ChunkPost(p, m, q)
  BY <1>1, <1>6, <1>7, <1>8 DEF live, ChunkPost
<1>. QED BY <1>9 DEF q

\* art_palloc_large and art_pmemalign once the system gave them chunk m.
LEMMA RecordSound ==
  ASSUME NEW p \in PoolType, Sound(p), p.head \in p.linked, p.current \in Blocks,
         NEW m \in Bigs \ p.heap, NEW o,
         o \in Record([p EXCEPT !.heap = p.heap \cup {m}], m)
  PROVE  Post(p, o)
<1>. DEFINE q == [p EXCEPT !.heap = p.heap \cup {m}]
            Rec == [rec : Region, alloc : Bigs \cup {None}]
<1>1. /\ q \in PoolType
      /\ q.psize = p.psize /\ q.head = p.head /\ q.lock = p.lock
      /\ q.linked = p.linked /\ q.current = p.current /\ q.large = p.large
      /\ q.last = p.last /\ q.leisure = p.leisure /\ q.live = p.live
      /\ q.heap = p.heap \cup {m}
  BY DEF PoolType, Memory
<1>2. Sound(q)
  BY <1>1 DEF Sound, Header
<1>3. \A r \in p.live : r.blk # m
  BY DEF Sound
<1>4. o \in Record(q, m)
  OBVIOUS
<1>. HIDE DEF q
<1>5. CASE Reusable(q) # {}
  <2>1. PICK i \in Reusable(q) :
          o = HandOut(q, m, [q.large EXCEPT ![i].alloc = m])
    BY <1>4, <1>5 DEF Record
  <2>2. i \in DOMAIN q.large /\ q.large \in Seq(Rec)
    BY <1>1, PoolFields DEF Reusable
  <2>. DEFINE large == [q.large EXCEPT ![i].alloc = m]
  <2>3. large \in Seq(Rec)
    <3>. DEFINE e == [q.large[i] EXCEPT !.alloc = m]
    <3>1. i \in 1..Len(q.large) /\ q.large[i] \in Rec
      BY <2>2, ElementOfSeq, LenProperties
    <3>2. e \in Rec
      BY <3>1
    <3>3. large = [q.large EXCEPT ![i] = e]
      OBVIOUS
    <3>. HIDE DEF e, large, Rec
    <3>. QED BY <2>2, <3>1, <3>2, <3>3, ExceptSeq
  <2>4. o.pool = HandOut(q, m, large).pool /\ o.addr = Chunk(m)
    BY <2>1 DEF HandOut, Result
  <2>. HIDE DEF large
  <2>5. ChunkPost(q, m, HandOut(q, m, large).pool)
    <3>1. m \in q.heap /\ m \in Bigs /\ \A r \in q.live : r.blk # m
      BY <1>1, <1>3
    <3>. QED BY <1>1, <1>2, <2>3, <3>1, ChunkSound
  <2>. QED BY <1>1, <2>4, <2>5 DEF Post, ChunkPost
<1>6. CASE Reusable(q) = {}
  <2>1. PICK s \in PallocSmall(q, LargeSize, TRUE) :
          o = IF s.addr = None
              THEN Failure([s.pool EXCEPT !.heap = s.pool.heap \ {m}])
              ELSE HandOut(s.pool, m, Append(s.pool.large, [rec |-> s.addr, alloc |-> m]))
    BY <1>4, <1>6 DEF Record
  <2>2. SmallPost(q, s)
    BY <1>1, <1>2, SmallSound DEF LargeSize
  <2>3. CASE s.addr = None
    <3>1. o.pool = [s.pool EXCEPT !.heap = s.pool.heap \ {m}] /\ o.addr = None
      BY <2>1, <2>3 DEF Failure
    <3>2. /\ o.pool \in PoolType
          /\ o.pool.psize = p.psize /\ o.pool.head = p.head /\ o.pool.lock = p.lock
          /\ o.pool.linked = s.pool.linked /\ o.pool.current = s.pool.current
          /\ o.pool.last = s.pool.last /\ o.pool.leisure = s.pool.leisure
          /\ o.pool.live = s.pool.live /\ o.pool.heap = s.pool.heap \ {m}
      BY <1>1, <2>2, <3>1 DEF SmallPost, PoolType
    <3>3. m \notin s.pool.linked /\ \A r \in s.pool.live : r.blk # m
      BY <1>1, <1>3, <2>2, <2>3, PoolAssumption, PoolFields DEF SmallPost
    <3>4. Sound(o.pool)
      <4>1. Sound(s.pool) /\ s.pool.head = o.pool.head
        BY <1>1, <2>2, <3>2 DEF SmallPost
      <4>. QED BY <3>2, <3>3, <4>1 DEF Sound, Header
    <3>. QED BY <1>1, <2>2, <2>3, <3>1, <3>2, <3>4 DEF Post, SmallPost
  <2>4. CASE s.addr # None
    <3>. DEFINE large == Append(s.pool.large, [rec |-> s.addr, alloc |-> m])
    <3>1. large \in Seq(Rec)
      BY <2>2, <2>4, PoolFields, AppendProperties DEF SmallPost
    <3>2. o.pool = HandOut(s.pool, m, large).pool /\ o.addr = Chunk(m)
      BY <2>1, <2>4 DEF HandOut, Result
    <3>. HIDE DEF large
    <3>3. m \in s.pool.heap /\ \A r \in s.pool.live : r.blk # m
      BY <1>1, <1>3, <2>2, <2>4, PoolAssumption DEF SmallPost
    <3>4. ChunkPost(s.pool, m, HandOut(s.pool, m, large).pool)
      <4>1. s.pool \in PoolType /\ Sound(s.pool) /\ m \in Bigs
        BY <2>2 DEF SmallPost
      <4>. QED BY <3>1, <3>3, <4>1, ChunkSound
    <3>. QED BY <1>1, <2>2, <2>4, <3>2, <3>4 DEF Post, SmallPost, ChunkPost
  <2>. QED BY <2>3, <2>4
<1>. QED BY <1>5, <1>6

LEMMA LockedSound ==
  ASSUME NEW p \in PoolType, Sound(p), p.head \in p.linked, p.current \in Blocks,
         NEW size \in Nat, NEW align, NEW o \in Locked(p, size, align)
  PROVE  Post(p, o)
<1>1. CASE o \in PallocSmall(p, size, align)
  BY <1>1, SmallSound, SmallIsPost
<1>2. CASE o = Failure(p)
  BY <1>2, FailureSound, SmallIsPost
<1>3. CASE \E m \in Bigs \ p.heap : o \in Record([p EXCEPT !.heap = p.heap \cup {m}], m)
  BY <1>3, RecordSound
<1>. QED BY <1>1, <1>2, <1>3 DEF Locked, PallocLarge

-----------------------------------------------------------------------------

IInv == TypeOK /\ Sound(pool)

\* A call that hands out memory and reclaims none.
Grants(p, q) ==
  /\ q \in PoolType /\ Sound(q) /\ q.psize = p.psize /\ q.head = p.head
  /\ p.linked \subseteq q.linked /\ q.current \in Blocks
  /\ p.live \subseteq q.live

LEMMA PostGrants ==
  ASSUME NEW p, NEW o, Post(p, o)
  PROVE  Grants(p, o.pool)
BY DEF Post, Grants

LEMMA GrantsOnce ==
  ASSUME NEW p, NEW q, NEW r, Grants(p, q), Grants(q, r)
  PROVE  Grants(p, r)
BY DEF Grants

\* Fields that say nothing about the memory handed out.
LEMMA FaultGrants ==
  ASSUME NEW p \in PoolType, Sound(p), p.current \in Blocks, NEW why \in Faults
  PROVE  Grants(p, Broken(p, why))
<1>. DEFINE q == Broken(p, why)
<1>1. q \in PoolType
  BY DEF PoolType, Broken
<1>2. /\ q.psize = p.psize /\ q.head = p.head /\ q.linked = p.linked
      /\ q.current = p.current /\ q.live = p.live /\ q.heap = p.heap
      /\ q.last = p.last /\ q.leisure = p.leisure
  BY DEF PoolType, Broken
<1>. QED BY <1>1, <1>2 DEF Grants, Sound, Header

LEMMA LockGrants ==
  ASSUME NEW p \in PoolType, Sound(p), p.current \in Blocks, NEW lock \in {0, 1}
  PROVE  Grants(p, [p EXCEPT !.lock = lock])
BY DEF Grants, PoolType, Sound, Header

LEMMA CleanupGrants ==
  ASSUME NEW p \in PoolType, Sound(p), p.current \in Blocks, NEW cleanup \in Seq(Region)
  PROVE  Grants(p, [p EXCEPT !.cleanup = cleanup])
BY DEF Grants, PoolType, Sound, Header

LEMMA ZeroedGrants ==
  ASSUME NEW p, NEW o, NEW init, Post(p, o)
  PROVE  Grants(p, Zeroed(o, init))
<1>1. Grants(p, o.pool)
  BY PostGrants
<1>2. Grants(o.pool, Broken(o.pool, "memzero(NULL)"))
  BY FaultGrants DEF Post, Faults
<1>. QED BY <1>1, <1>2, GrantsOnce DEF Zeroed

LEMMA GrantsKeepsIInv ==
  ASSUME IInv, pool.head # None, Grants(pool, pool')
  PROVE  IInv' /\ pool.live \subseteq pool'.live
BY DEF IInv, TypeOK, Grants

LEMMA PallocStep ==
  ASSUME IInv, NEW size \in Sizes, NEW init, Palloc(size, init) \/ Pnalloc(size, init)
  PROVE  Grants(pool, pool')
<1>1. size \in Nat
  BY PoolAssumption
<1>2. PICK align : \E o \in Locked(pool, size, align) : pool' = Zeroed(o, init)
  BY DEF Palloc, Pnalloc
<1>3. PICK o \in Locked(pool, size, align) : pool' = Zeroed(o, init)
  BY <1>2
<1>4. pool \in PoolType /\ Sound(pool) /\ pool.head \in pool.linked /\ pool.current \in Blocks
  BY DEF Palloc, Pnalloc, Usable, IInv, TypeOK
<1>5. Post(pool, o)
  BY <1>1, <1>4, LockedSound
<1>. QED BY <1>3, <1>5, ZeroedGrants

LEMMA PmemalignStep ==
  ASSUME IInv, Pmemalign
  PROVE  Grants(pool, pool')
<1>1. PICK m \in Bigs \ pool.heap :
        \E o \in Record([pool EXCEPT !.heap = pool.heap \cup {m}], m) :
          pool' = [o.pool EXCEPT !.lock = IF Reusable(pool) # {} \/ o.addr = None
                                          THEN 1 ELSE 0]
  BY DEF Pmemalign
<1>2. PICK o \in Record([pool EXCEPT !.heap = pool.heap \cup {m}], m) :
        pool' = [o.pool EXCEPT !.lock = IF Reusable(pool) # {} \/ o.addr = None
                                        THEN 1 ELSE 0]
  BY <1>1
<1>3. pool \in PoolType /\ Sound(pool) /\ pool.head \in pool.linked /\ pool.current \in Blocks
  BY DEF Pmemalign, Usable, IInv, TypeOK
<1>4. Post(pool, o)
  BY <1>3, RecordSound
<1>5. PICK lock \in {0, 1} : pool' = [o.pool EXCEPT !.lock = lock]
  BY <1>2
<1>6. Grants(o.pool, pool')
  BY <1>4, <1>5, LockGrants DEF Post
<1>. QED BY <1>4, <1>6, PostGrants, GrantsOnce

LEMMA CleanupAddStep ==
  ASSUME IInv, NEW size \in Sizes \cup {0}, CleanupAdd(size)
  PROVE  Grants(pool, pool')
<1>1. PICK c \in PallocSmall(pool, CleanupSize, TRUE) :
        IF c.addr = None THEN pool' = c.pool
        ELSE \E d \in IF size > 0 THEN Locked(c.pool, size, TRUE) ELSE {c} :
               pool' = IF d.addr = None THEN Zeroed(d, TRUE)
                       ELSE [d.pool EXCEPT !.cleanup = Append(d.pool.cleanup, c.addr)]
  BY DEF CleanupAdd
<1>2. pool \in PoolType /\ Sound(pool) /\ pool.head \in pool.linked /\ pool.current \in Blocks
  BY DEF CleanupAdd, Usable, IInv, TypeOK
<1>3. SmallPost(pool, c) /\ Post(pool, c)
  BY <1>2, SmallSound, SmallIsPost DEF CleanupSize
<1>4. CASE c.addr = None
  BY <1>1, <1>3, <1>4, PostGrants
<1>5. CASE c.addr # None
  <2>1. PICK d \in IF size > 0 THEN Locked(c.pool, size, TRUE) ELSE {c} :
          pool' = IF d.addr = None THEN Zeroed(d, TRUE)
                  ELSE [d.pool EXCEPT !.cleanup = Append(d.pool.cleanup, c.addr)]
    BY <1>1, <1>5
  <2>2. Post(c.pool, c) /\ c.addr \in Region
    BY <1>3, <1>5 DEF SmallPost, Post
  <2>3. /\ c.pool \in PoolType /\ Sound(c.pool)
        /\ c.pool.head \in c.pool.linked /\ c.pool.current \in Blocks
    BY <1>2, <1>3 DEF SmallPost
  <2>4. size \in Nat
    BY PoolAssumption
  <2>5. Post(c.pool, d)
    <3>1. CASE d \in Locked(c.pool, size, TRUE)
      BY <2>3, <2>4, <3>1, LockedSound
    <3>2. CASE d = c
      BY <2>2, <3>2
    <3>. QED BY <2>1, <3>1, <3>2
  <2>6. CASE d.addr = None
    BY <1>3, <2>1, <2>5, <2>6, ZeroedGrants, PostGrants, GrantsOnce
  <2>7. CASE d.addr # None
    <3>. DEFINE list == Append(d.pool.cleanup, c.addr)
    <3>1. list \in Seq(Region)
      BY <2>2, <2>5, PoolFields, AppendProperties DEF Post
    <3>2. pool' = [d.pool EXCEPT !.cleanup = list]
      BY <2>1, <2>7
    <3>. HIDE DEF list
    <3>3. Grants(d.pool, pool')
      BY <2>5, <3>1, <3>2, CleanupGrants DEF Post
    <3>. QED BY <1>3, <2>5, <3>3, PostGrants, GrantsOnce
  <2>. QED BY <2>6, <2>7
<1>. QED BY <1>4, <1>5

LEMMA NoPoolType ==
  ASSUME NEW heap \in SUBSET Memory
  PROVE  /\ NoPool(heap, "none") \in PoolType
         /\ NoPool(heap, "none").head = None /\ NoPool(heap, "none").current = None
         /\ NoPool(heap, "none").linked = {} /\ NoPool(heap, "none").live = {}
<1>1. << >> \in Seq([rec : Region, alloc : Bigs \cup {None}]) /\ << >> \in Seq(Region)
  OBVIOUS
<1>. QED BY <1>1 DEF NoPool, PoolType, Faults

LEMMA NoLiveSound ==
  ASSUME NEW p, p.live = {}, p.linked \subseteq p.heap,
         \A b \in p.linked : Header(p, b) <= p.last[b]
  PROVE  Sound(p)
BY DEF Sound, Promise!Apart

LEMMA AllocsType ==
  ASSUME NEW p \in PoolType
  PROVE  Allocs(p) \subseteq Bigs
<1>. DEFINE Rec == [rec : Region, alloc : Bigs \cup {None}]
<1>1. p.large \in Seq(Rec)
  BY PoolFields
<1>2. \A i \in DOMAIN p.large : p.large[i] \in Rec
  <2>. HIDE DEF Rec
  <2>. QED BY <1>1, ElementOfSeq, LenProperties
<1>. QED BY <1>2 DEF Allocs

LEMMA CreateStep ==
  ASSUME IInv, NEW size \in CreateSizes, Create(size)
  PROVE  IInv' /\ pool'.live = {}
<1>. DEFINE cap == Capped(size)
<1>1. cap \in Nat
  BY PoolAssumption DEF Capped, MAX_ALLOC
<1>2. PICK b \in Blocks \ pool.heap :
        pool' = [NoPool(pool.heap \cup {b}, "none") EXCEPT
                   !.psize = cap, !.head = b, !.linked = {b},
                   !.last[b] = PoolSize, !.current = b]
  BY DEF Create
<1>. HIDE DEF cap
<1>3. pool.heap \cup {b} \in SUBSET Memory /\ b # None
  BY PoolFields, PoolAssumption DEF IInv, TypeOK, Memory
<1>. DEFINE q == NoPool(pool.heap \cup {b}, "none")
            last == [q.last EXCEPT ![b] = PoolSize]
<1>4. /\ q \in PoolType /\ q.live = {} /\ q.heap = pool.heap \cup {b}
  BY <1>3, NoPoolType DEF NoPool
<1>5. pool' = [q EXCEPT !.psize = cap, !.head = b, !.linked = {b},
                        !.last = last, !.current = b]
  BY <1>2
<1>6. last \in [Blocks -> Nat] /\ last[b] = PoolSize
  BY <1>4, PoolFields DEF PoolSize
<1>. HIDE DEF q, last
<1>7. /\ pool' \in PoolType /\ pool'.live = {} /\ pool'.head = b /\ pool'.linked = {b}
      /\ pool'.last = last /\ pool'.current = b /\ pool'.heap = pool.heap \cup {b}
  BY <1>1, <1>4, <1>5, <1>6 DEF PoolType
<1>8. Sound(pool')
  BY <1>6, <1>7, NoLiveSound DEF Header, PoolSize
<1>. QED BY <1>3, <1>7, <1>8 DEF IInv, TypeOK

LEMMA PfreeStep ==
  ASSUME IInv, NEW m \in Bigs, Pfree(m)
  PROVE  IInv' /\ pool'.live = {r \in pool.live : r.blk # m}
<1>. DEFINE Rec == [rec : Region, alloc : Bigs \cup {None}]
<1>1. PICK i \in DOMAIN pool.large :
        pool' = [pool EXCEPT !.large = [pool.large EXCEPT ![i] = [pool.large[i] EXCEPT !.alloc = None]],
                             !.heap = pool.heap \ {m},
                             !.live = {r \in pool.live : r.blk # m}]
  BY DEF Pfree
<1>2. /\ pool \in PoolType /\ Sound(pool) /\ pool.head # None
      /\ pool.head \in pool.linked /\ pool.current \in Blocks
  BY DEF Pfree, Usable, IInv, TypeOK
<1>. DEFINE e == [pool.large[i] EXCEPT !.alloc = None]
            large == [pool.large EXCEPT ![i] = e]
            live == {r \in pool.live : r.blk # m}
            heap == pool.heap \ {m}
<1>3. large \in Seq(Rec)
  <2>1. pool.large \in Seq(Rec) /\ i \in 1..Len(pool.large) /\ pool.large[i] \in Rec
    BY <1>2, PoolFields, ElementOfSeq, LenProperties
  <2>2. e \in Rec
    BY <2>1
  <2>. HIDE DEF e, Rec
  <2>. QED BY <2>1, <2>2, ExceptSeq
<1>4. live \in SUBSET Region /\ heap \in SUBSET Memory
  BY <1>2, PoolFields
<1>5. pool' = [pool EXCEPT !.large = large, !.heap = heap, !.live = live]
  BY <1>1
<1>6. /\ \A r \in live : r \in pool.live /\ r.blk # m
      /\ pool.linked \subseteq heap
  BY <1>2, PoolFields, PoolAssumption DEF Sound
<1>. HIDE DEF large
<1>7. pool' \in PoolType
  <2>. HIDE DEF live, heap
  <2>. QED BY <1>2, <1>3, <1>4, <1>5 DEF PoolType
<1>8. /\ pool'.live = live /\ pool'.heap = heap /\ pool'.linked = pool.linked
      /\ pool'.head = pool.head /\ pool'.current = pool.current
      /\ pool'.last = pool.last /\ pool'.leisure = pool.leisure
  <2>. HIDE DEF live, heap
  <2>. QED BY <1>2, <1>5 DEF PoolType
<1>9. Sound(pool')
  BY <1>2, <1>6, <1>8 DEF Sound, Header, Promise!Apart
<1>. QED BY <1>2, <1>7, <1>8, <1>9 DEF IInv, TypeOK

LEMMA ResetStep ==
  ASSUME IInv, Reset
  PROVE  IInv' /\ pool'.live = {}
<1>. DEFINE heap == pool.heap \ Allocs(pool)
            last == [b \in Blocks |-> IF b \in pool.linked THEN PoolSize ELSE pool.last[b]]
            failed == [b \in Blocks |-> IF b \in pool.linked THEN 0 ELSE pool.failed[b]]
            leisure == [b \in Blocks |-> IF b \in pool.linked THEN pool.leisure[b] + 1
                                                               ELSE pool.leisure[b]]
<1>1. pool' = [pool EXCEPT !.heap = heap, !.last = last, !.failed = failed,
                 !.leisure = leisure, !.current = pool.head, !.large = <<>>,
                 !.live = {}, !.stale = Len(pool.cleanup)]
  BY DEF Reset
<1>2. pool \in PoolType /\ Sound(pool) /\ pool.head # None /\ pool.head \in pool.linked
  BY DEF Reset, Usable, IInv, TypeOK
<1>3. /\ last \in [Blocks -> Nat] /\ failed \in [Blocks -> Nat]
      /\ leisure \in [Blocks -> Nat] /\ heap \in SUBSET Memory
      /\ Len(pool.cleanup) \in Nat
  BY <1>2, PoolFields, LenProperties DEF PoolSize
<1>4. pool.linked \subseteq heap
  <2>1. Allocs(pool) \subseteq Bigs
    BY <1>2, AllocsType
  <2>. QED BY <1>2, <2>1, PoolFields, PoolAssumption DEF Sound
<1>5. \A b \in pool.linked : last[b] = 72
  BY <1>2, PoolFields DEF PoolSize
<1>6. << >> \in Seq([rec : Region, alloc : Bigs \cup {None}])
  OBVIOUS
<1>. HIDE DEF heap, last, failed, leisure
<1>. DEFINE q == [pool EXCEPT !.heap = heap, !.last = last, !.failed = failed,
                              !.leisure = leisure]
<1>7. q \in PoolType
  BY <1>2, <1>3 DEF PoolType
<1>8. pool' = [q EXCEPT !.current = pool.head, !.large = <<>>, !.live = {},
                        !.stale = Len(pool.cleanup)]
  BY <1>1
<1>9. /\ pool'.head = pool.head /\ pool'.linked = pool.linked /\ pool'.heap = heap
      /\ pool'.last = last /\ pool'.current = pool.head /\ pool'.live = {}
  BY <1>1, <1>2 DEF PoolType
<1>. HIDE DEF q
<1>10. pool.head \in Blocks
  BY <1>2, PoolFields
<1>11. pool' \in PoolType
  BY <1>3, <1>6, <1>7, <1>8, <1>10 DEF PoolType
<1>12. Sound(pool')
  BY <1>4, <1>5, <1>9, NoLiveSound DEF Header, PoolSize, DataSize
<1>. QED BY <1>2, <1>9, <1>10, <1>11, <1>12 DEF IInv, TypeOK

LEMMA ManageSmallStep ==
  ASSUME IInv, ManageSmall
  PROVE  IInv' /\ pool'.live = pool.live
<1>1. /\ pool \in PoolType /\ Sound(pool) /\ pool.head # None
      /\ pool.head \in pool.linked /\ pool.current \in Blocks
  BY DEF ManageSmall, Usable, IInv, TypeOK
<1>2. PICK g \in Freed(pool) :
       pool' = [pool EXCEPT
         !.linked  = pool.linked \ g,
         !.ahead   = [b \in Blocks |-> IF b \in g THEN {} ELSE pool.ahead[b] \ g],
         !.last    = [b \in Blocks |-> IF b \in g THEN 0 ELSE pool.last[b]],
         !.failed  = [b \in Blocks |-> IF b \in g THEN 0 ELSE pool.failed[b]],
         !.leisure = [b \in Blocks |-> IF b \in g THEN 0 ELSE pool.leisure[b]],
         !.heap    = pool.heap \ g,
         !.fault   = IF LastBlock(pool) \cap g # {} THEN "NULL->d.next" ELSE "none"]
  BY DEF ManageSmall
<1>. DEFINE linked == pool.linked \ g
            ahead == [b \in Blocks |-> IF b \in g THEN {} ELSE pool.ahead[b] \ g]
            last == [b \in Blocks |-> IF b \in g THEN 0 ELSE pool.last[b]]
            failed == [b \in Blocks |-> IF b \in g THEN 0 ELSE pool.failed[b]]
            leisure == [b \in Blocks |-> IF b \in g THEN 0 ELSE pool.leisure[b]]
            heap == pool.heap \ g
            fault == IF LastBlock(pool) \cap g # {} THEN "NULL->d.next" ELSE "none"
<1>3. \A b \in g : b \in pool.linked /\ b # pool.head /\ pool.leisure[b] > LeisureTimes
  BY DEF Freed, Idle
<1>4. \A r \in pool.live : r.blk \notin g
  <2>. SUFFICES ASSUME NEW r \in pool.live, r.blk \in g PROVE FALSE
    OBVIOUS
  <2>1. r.blk \in Blocks /\ pool.leisure[r.blk] > LeisureTimes
    BY <1>1, <1>3, PoolFields
  <2>2. pool.leisure[r.blk] = 0
    BY <1>1, <2>1 DEF Sound
  <2>. QED BY <2>1, <2>2, PoolAssumption
<1>5. /\ linked \in SUBSET Blocks /\ ahead \in [Blocks -> SUBSET Blocks]
      /\ last \in [Blocks -> Nat] /\ failed \in [Blocks -> Nat]
      /\ leisure \in [Blocks -> Nat] /\ heap \in SUBSET Memory /\ fault \in Faults
  BY <1>1, PoolFields DEF Faults
<1>6. /\ \A b \in Blocks \ g : last[b] = pool.last[b] /\ leisure[b] = pool.leisure[b]
      /\ linked \subseteq Blocks \ g /\ linked \subseteq pool.linked
      /\ linked \subseteq heap /\ pool.head \in linked
      /\ \A r \in pool.live : r.blk \in heap /\ (r.blk \in Blocks => r.blk \in linked)
  BY <1>1, <1>3, <1>4, PoolFields DEF Sound
<1>. HIDE DEF linked, ahead, last, failed, leisure, heap, fault
<1>. DEFINE q == [pool EXCEPT !.linked = linked, !.ahead = ahead, !.last = last]
<1>7. q \in PoolType
  BY <1>1, <1>5 DEF PoolType
<1>8. pool' = [q EXCEPT !.failed = failed, !.leisure = leisure, !.heap = heap,
                        !.fault = fault]
  BY <1>2 DEF linked, ahead, last, failed, leisure, heap, fault
<1>9. /\ pool'.linked = linked /\ pool'.last = last /\ pool'.leisure = leisure
      /\ pool'.heap = heap /\ pool'.live = pool.live /\ pool'.head = pool.head
      /\ pool'.current = pool.current
  BY <1>1, <1>8 DEF PoolType
<1>. HIDE DEF q
<1>10. pool' \in PoolType
  BY <1>5, <1>7, <1>8 DEF PoolType
<1>11. Sound(pool')
  BY <1>1, <1>6, <1>9 DEF Sound, Header
<1>. QED BY <1>1, <1>6, <1>9, <1>10, <1>11 DEF IInv, TypeOK

LEMMA DestroyStep ==
  ASSUME IInv, Destroy
  PROVE  IInv' /\ (pool'.live = {} \/ pool'.live = pool.live)
<1>1. /\ pool \in PoolType /\ Sound(pool) /\ pool.head # None
      /\ pool.head \in pool.linked /\ pool.current \in Blocks
  BY DEF Destroy, Usable, IInv, TypeOK
<1>2. CASE pool' = Broken(pool, "cleanup record reused")
  <2>1. Grants(pool, pool')
    BY <1>1, <1>2, FaultGrants DEF Faults
  <2>2. pool'.live = pool.live
    BY <1>1, <1>2 DEF Broken, PoolType
  <2>. QED BY <1>1, <2>1, <2>2, GrantsKeepsIInv
<1>3. CASE pool' = NoPool(pool.heap \ (Allocs(pool) \cup pool.linked), "none")
  <2>1. pool.heap \ (Allocs(pool) \cup pool.linked) \in SUBSET Memory
    BY <1>1, PoolFields
  <2>2. /\ pool' \in PoolType /\ pool'.head = None /\ pool'.current = None
        /\ pool'.linked = {} /\ pool'.live = {}
    BY <1>3, <2>1, NoPoolType
  <2>3. Sound(pool')
    BY <2>2, NoLiveSound
  <2>. QED BY <2>2, <2>3 DEF IInv, TypeOK
<1>. QED BY <1>2, <1>3 DEF Destroy

-----------------------------------------------------------------------------

\* Each call either hands out memory, frees one chunk, or reclaims or keeps
\* everything.
LEMMA StepOfThePool ==
  ASSUME IInv, [Next]_vars
  PROVE  /\ IInv'
         /\ \/ pool.live \subseteq pool'.live
            \/ \E m \in Bigs : pool'.live = {r \in pool.live : r.blk # m}
            \/ pool'.live = {}
<1>1. CASE UNCHANGED vars
  BY <1>1 DEF vars, IInv, TypeOK
<1>2. ASSUME NEW size \in CreateSizes, Create(size) PROVE IInv' /\ pool'.live = {}
  BY <1>2, CreateStep
<1>3. ASSUME \/ \E size \in Sizes, init \in BOOLEAN : Palloc(size, init) \/ Pnalloc(size, init)
             \/ Pmemalign
             \/ \E size \in Sizes \cup {0} : CleanupAdd(size)
      PROVE  IInv' /\ pool.live \subseteq pool'.live
  <2>1. Grants(pool, pool')
    BY <1>3, PallocStep, PmemalignStep, CleanupAddStep
  <2>2. pool.head # None
    BY <1>3 DEF Palloc, Pnalloc, Pmemalign, CleanupAdd, Usable
  <2>. QED BY <2>1, <2>2, GrantsKeepsIInv
<1>4. ASSUME NEW m \in Bigs, Pfree(m)
      PROVE  IInv' /\ pool'.live = {r \in pool.live : r.blk # m}
  BY <1>4, PfreeStep
<1>5. CASE Reset
  BY <1>5, ResetStep
<1>6. CASE ManageSmall
  BY <1>6, ManageSmallStep
<1>7. CASE Destroy
  BY <1>7, DestroyStep
<1>. QED BY <1>1, <1>2, <1>3, <1>4, <1>5, <1>6, <1>7 DEF Next

LEMMA Inductive == Spec => []IInv
<1>1. Init => IInv
  <2>. SUFFICES ASSUME Init PROVE IInv
    OBVIOUS
  <2>1. /\ pool \in PoolType /\ pool.head = None /\ pool.current = None
        /\ pool.linked = {} /\ pool.live = {}
    BY NoPoolType DEF Init
  <2>2. Sound(pool)
    BY <2>1, NoLiveSound
  <2>. QED BY <2>1, <2>2 DEF IInv, TypeOK
<1>2. IInv /\ [Next]_vars => IInv'
  BY StepOfThePool
<1>. QED BY <1>1, <1>2, PTL DEF Spec

\* The pool's fields keep their types through every call and every outcome
\* of the system's allocator; a pool that exists has a first and a current block.
THEOREM Typing == Spec => []TypeOK
BY Inductive, PTL DEF IInv

\* For all block sizes, requests and limits, no two live regions share a
\* byte and none lies over a block header, however resets recycle blocks.
THEOREM Separation == Spec => []NoOverlap
<1>1. IInv => NoOverlap
  BY DEF IInv, Sound, NoOverlap
<1>. QED BY <1>1, Inductive, PTL

\* art_manage_small frees no block, and art_pfree no chunk, that a caller
\* may still use.
THEOREM NothingFreedInUse == Spec => []LiveInHeap
<1>1. IInv => LiveInHeap
  BY DEF IInv, Sound, LiveInHeap
<1>. QED BY <1>1, Inductive, PTL

\* Every call on the pool is a step of Arena: it hands out regions apart from
\* all live ones, frees one chunk by name, or reclaims everything.
THEOREM Refinement == Spec => ImplementsArena
<1>1. Init => Promise!Init
  BY DEF Init, Promise!Init, NoPool
<1>2. IInv /\ [Next]_vars => [Promise!Next]_(pool.live)
  <2>. SUFFICES ASSUME IInv, [Next]_vars PROVE [Promise!Next]_(pool.live)
    OBVIOUS
  <2>1. pool'.live \in SUBSET Promise!Region /\ Promise!Apart(pool'.live)
    BY StepOfThePool, PoolFields DEF IInv, TypeOK, Sound, Region, Promise!Region
  <2>2. CASE pool.live \subseteq pool'.live
    BY <2>1, <2>2 DEF Promise!Next, Promise!Grant
  <2>3. CASE \E m \in Bigs : pool'.live = {r \in pool.live : r.blk # m}
    BY <2>3 DEF Promise!Next, Promise!FreeOne, Memory
  <2>4. CASE pool'.live = {}
    BY <2>4 DEF Promise!Next, Promise!FreeAll
  <2>. QED BY <2>2, <2>3, <2>4, StepOfThePool
<1>. QED BY <1>1, <1>2, Inductive, PTL DEF Spec, ImplementsArena, Promise!Spec

-----------------------------------------------------------------------------
(***************************************************************************)
(* The ledger: what the pool was given and has not freed is what its block *)
(* chain and its large list hold, on every path through every call, the    *)
(* failing ones included.                                                  *)
(***************************************************************************)

Rec == [rec : Region, alloc : Bigs \cup {None}]

\* The chunks that a list of large records holds, and that it holds once.
HeldBy(large) == {large[i].alloc : i \in DOMAIN large} \ {None}

Once(large) ==
  \A i, j \in DOMAIN large : large[i].alloc = large[j].alloc => i = j \/ large[i].alloc = None

\* The ledger while the chunks `owed` came from the system and have no record.
Ledger(p, owed) ==
  /\ p.heap = p.linked \cup HeldBy(p.large) \cup owed
  /\ owed \cap HeldBy(p.large) = {}
  /\ Once(p.large)
  /\ \A m \in Bigs : m \in HeldBy(p.large) <=> \E r \in p.live : r.blk = m

LEMMA RecordsAreRecs ==
  ASSUME NEW large \in Seq(Rec)
  PROVE  /\ DOMAIN large = 1..Len(large) /\ Len(large) \in Nat
         /\ \A i \in DOMAIN large : large[i] \in Rec
<1>. HIDE DEF Rec
<1>. QED BY ElementOfSeq, LenProperties

LEMMA HeldIsBig ==
  ASSUME NEW large \in Seq(Rec)
  PROVE  HeldBy(large) \subseteq Bigs
BY RecordsAreRecs DEF HeldBy, Rec

\* The record at i takes the chunk m in place of what it held: nothing.
LEMMA RefillRecord ==
  ASSUME NEW large \in Seq(Rec), NEW i \in DOMAIN large, large[i].alloc = None,
         NEW m \in Bigs, m \notin HeldBy(large), Once(large),
         NEW new, new = [large EXCEPT ![i].alloc = m]
  PROVE  new \in Seq(Rec) /\ HeldBy(new) = HeldBy(large) \cup {m} /\ Once(new)
<1>1. DOMAIN large = 1..Len(large) /\ \A j \in DOMAIN large : large[j] \in Rec
  BY RecordsAreRecs
<1>. DEFINE e == [large[i] EXCEPT !.alloc = m]
<1>2. e \in Rec /\ e.alloc = m /\ m # None
  BY <1>1, PoolAssumption DEF Rec, Memory
<1>3. new = [large EXCEPT ![i] = e]
  OBVIOUS
<1>. HIDE DEF e
<1>4. new \in Seq(Rec) /\ DOMAIN new = DOMAIN large
  <2>. HIDE DEF Rec
  <2>. QED BY <1>1, <1>2, <1>3, ExceptSeq
<1>5. new[i].alloc = m /\ \A j \in DOMAIN large : j # i => new[j] = large[j]
  BY <1>2, <1>3
<1>6. \A j \in DOMAIN large : large[j].alloc # m
  BY <1>2 DEF HeldBy
<1>7. HeldBy(new) = HeldBy(large) \cup {m}
  <2>1. ASSUME NEW x \in HeldBy(new) PROVE x \in HeldBy(large) \cup {m}
    BY <1>4, <1>5 DEF HeldBy
  <2>2. ASSUME NEW x \in HeldBy(large) PROVE x \in HeldBy(new)
    <3>1. PICK j \in DOMAIN large : x = large[j].alloc /\ x # None
      BY DEF HeldBy
    <3>2. j # i
      BY <3>1
    <3>. QED BY <1>4, <1>5, <3>1, <3>2 DEF HeldBy
  <2>3. m \in HeldBy(new)
    BY <1>2, <1>4, <1>5 DEF HeldBy
  <2>. QED BY <2>1, <2>2, <2>3
<1>8. Once(new)
  BY <1>4, <1>5, <1>6 DEF Once
<1>. QED BY <1>4, <1>7, <1>8

\* A new record for the chunk m at the head of the list.
LEMMA AddRecord ==
  ASSUME NEW large \in Seq(Rec), NEW m \in Bigs, m \notin HeldBy(large), Once(large),
         NEW e \in Rec, e.alloc = m, NEW new, new = Append(large, e)
  PROVE  new \in Seq(Rec) /\ HeldBy(new) = HeldBy(large) \cup {m} /\ Once(new)
<1>1. DOMAIN large = 1..Len(large) /\ Len(large) \in Nat
  BY RecordsAreRecs
<1>2. m # None
  BY PoolAssumption DEF Memory
<1>. DEFINE n == Len(large) + 1
<1>3. /\ new \in Seq(Rec) /\ DOMAIN new = 1..n /\ new[n] = e
      /\ \A j \in DOMAIN large : new[j] = large[j]
  <2>. HIDE DEF Rec
  <2>. QED BY <1>1, AppendProperties, LenProperties
<1>4. DOMAIN new = DOMAIN large \cup {n} /\ n \notin DOMAIN large
  BY <1>1, <1>3
<1>. HIDE DEF n
<1>5. \A j \in DOMAIN large : large[j].alloc # m
  BY <1>2 DEF HeldBy
<1>6. HeldBy(new) = HeldBy(large) \cup {m}
  <2>1. ASSUME NEW x \in HeldBy(new) PROVE x \in HeldBy(large) \cup {m}
    BY <1>3, <1>4 DEF HeldBy
  <2>2. ASSUME NEW x \in HeldBy(large) PROVE x \in HeldBy(new)
    BY <1>3, <1>4 DEF HeldBy
  <2>3. m \in HeldBy(new)
    BY <1>2, <1>3, <1>4 DEF HeldBy
  <2>. QED BY <2>1, <2>2, <2>3
<1>7. Once(new)
  BY <1>3, <1>4, <1>5 DEF Once
<1>. QED BY <1>3, <1>6, <1>7

\* The record at i gives its chunk up.
LEMMA EmptyRecord ==
  ASSUME NEW large \in Seq(Rec), NEW i \in DOMAIN large, NEW m \in Bigs,
         large[i].alloc = m, Once(large),
         NEW new, new = [large EXCEPT ![i].alloc = None]
  PROVE  HeldBy(new) = HeldBy(large) \ {m} /\ Once(new)
<1>1. \A j \in DOMAIN large : large[j] \in Rec
  BY RecordsAreRecs
<1>2. m # None
  BY PoolAssumption DEF Memory
<1>3. /\ DOMAIN new = DOMAIN large /\ new[i].alloc = None
      /\ \A j \in DOMAIN large : j # i => new[j] = large[j]
  BY <1>1 DEF Rec
<1>4. \A j \in DOMAIN large : j # i => large[j].alloc # m
  BY <1>2 DEF Once
<1>5. HeldBy(new) = HeldBy(large) \ {m}
  <2>1. ASSUME NEW x \in HeldBy(new) PROVE x \in HeldBy(large) \ {m}
    BY <1>3, <1>4 DEF HeldBy
  <2>2. ASSUME NEW x \in HeldBy(large) \ {m} PROVE x \in HeldBy(new)
    <3>1. PICK j \in DOMAIN large : x = large[j].alloc /\ x # None
      BY DEF HeldBy
    <3>2. j # i
      BY <3>1
    <3>. QED BY <1>3, <3>1, <3>2 DEF HeldBy
  <2>. QED BY <2>1, <2>2
<1>6. Once(new)
  BY <1>3 DEF Once
<1>. QED BY <1>5, <1>6

-----------------------------------------------------------------------------

LEMMA LargeIsRecs ==
  ASSUME NEW p \in PoolType
  PROVE  p.large \in Seq(Rec) /\ HeldBy(p.large) \subseteq Bigs
         /\ HeldBy(p.large) = Allocs(p)
BY PoolFields, HeldIsBig DEF Rec, HeldBy, Allocs

\* The ledger reads only four fields: blocks that are linked as they come, and
\* unlinked as they go, leave it balanced.
LEMMA SameLedger ==
  ASSUME NEW p \in PoolType, NEW q, NEW owed \in SUBSET Bigs, Ledger(p, owed),
         NEW N \in SUBSET Blocks,
         \/ q.linked = p.linked \cup N /\ q.heap = p.heap \cup N
         \/ q.linked = p.linked \ N /\ q.heap = p.heap \ N,
         q.large = p.large,
         \A m \in Bigs : (\E r \in q.live : r.blk = m) <=> (\E r \in p.live : r.blk = m)
  PROVE  Ledger(q, owed)
<1>1. HeldBy(p.large) \cap N = {} /\ owed \cap N = {}
  BY LargeIsRecs, PoolAssumption
<1>2. q.heap = q.linked \cup HeldBy(p.large) \cup owed
  BY <1>1 DEF Ledger
<1>. QED BY <1>2 DEF Ledger

\* The blocks N came from the system and were linked.
Linked(p, q, N) == q.linked = p.linked \cup N /\ q.heap = p.heap \cup N

LEMMA ServeLinks ==
  ASSUME NEW p \in PoolType, NEW b \in Blocks, NEW size \in Nat, NEW align,
         NEW o, o = Serve(p, b, size, align)
  PROVE  Linked(p, o.pool, {})
<1>1. o.pool.linked = p.linked /\ o.pool.heap = p.heap
  BY DEF Serve, Result, PoolType
<1>. QED BY <1>1 DEF Linked

LEMMA LinkNewLinks ==
  ASSUME NEW p \in PoolType, NEW new \in Blocks, NEW cur,
         NEW size \in Nat, NEW o, o = LinkNew(p, new, cur, size)
  PROVE  Linked(p, o.pool, {new})
<1>1. o.pool.linked = p.linked \cup {new} /\ o.pool.heap = p.heap \cup {new}
  BY DEF LinkNew, Result, PoolType
<1>. QED BY <1>1 DEF Linked

\* art_palloc_small gets at most one block, and links every block it gets.
LEMMA SmallBlocks ==
  ASSUME NEW p \in PoolType, NEW size \in Nat, NEW align,
         NEW o \in PallocSmall(p, size, align)
  PROVE  \E N \in SUBSET Blocks : Linked(p, o.pool, N)
<1>1. CASE p.current \notin p.linked
  <2>1. o = Failure(Broken(p, "current was freed"))
    BY <1>1 DEF PallocSmall
  <2>2. o.pool.linked = p.linked /\ o.pool.heap = p.heap
    BY <2>1 DEF Failure, Broken, PoolType
  <2>3. Linked(p, o.pool, {})
    BY <2>2 DEF Linked
  <2>. QED BY <2>3
<1>2. CASE p.current \in p.linked /\ o \in PallocBlock(p, size)
  <2>1. CASE o = Failure(p)
    <3>1. Linked(p, o.pool, {})
      BY <2>1 DEF Failure, Linked
    <3>. QED BY <3>1
  <2>2. ASSUME NEW new \in Blocks \ p.heap, NEW cur \in CurrentAfter(p),
               o = LinkNew(p, new, cur, size)
        PROVE  \E N \in SUBSET Blocks : Linked(p, o.pool, N)
    <3>1. Linked(p, o.pool, {new})
      BY <2>2, LinkNewLinks
    <3>. QED BY <3>1
  <2>. QED BY <1>2, <2>1, <2>2 DEF PallocBlock
<1>3. CASE \E b \in FirstFit(p, size, align) : o = Serve(p, b, size, align)
  <2>1. Linked(p, o.pool, {})
    BY <1>3, ServeLinks, PoolFields DEF FirstFit, Walk
  <2>. QED BY <2>1
<1>. QED BY <1>1, <1>2, <1>3 DEF PallocSmall

LEMMA SmallLedger ==
  ASSUME NEW p \in PoolType, Sound(p), p.head \in p.linked, p.current \in Blocks,
         NEW size \in Nat, NEW align, NEW o \in PallocSmall(p, size, align),
         NEW owed \in SUBSET Bigs, Ledger(p, owed)
  PROVE  Ledger(o.pool, owed)
<1>1. PICK N \in SUBSET Blocks : Linked(p, o.pool, N)
  BY SmallBlocks
<1>2. SmallPost(p, o)
  BY SmallSound
<1>3. \A m \in Bigs : (\E r \in o.pool.live : r.blk = m) <=> (\E r \in p.live : r.blk = m)
  BY <1>2, PoolAssumption DEF SmallPost
<1>4. o.pool.large = p.large
  BY <1>2 DEF SmallPost
<1>5. PICK q : q = o.pool
  OBVIOUS
<1>6. Ledger(q, owed)
  BY <1>1, <1>3, <1>4, <1>5, SameLedger DEF Linked
<1>. QED BY <1>5, <1>6

\* A chunk that was owed is handed out once a record holds it.
LEMMA HandOutLedger ==
  ASSUME NEW p \in PoolType, NEW m \in Bigs, Ledger(p, {m}),
         NEW large \in Seq(Rec), HeldBy(large) = HeldBy(p.large) \cup {m}, Once(large)
  PROVE  Ledger(HandOut(p, m, large).pool, {})
<1>. DEFINE q == HandOut(p, m, large).pool
<1>1. /\ q.large = large /\ q.live = p.live \cup {Chunk(m)}
      /\ q.heap = p.heap /\ q.linked = p.linked
  BY DEF HandOut, Result, PoolType
<1>2. Chunk(m).blk = m
  BY DEF Chunk
<1>. HIDE DEF q
<1>3. Ledger(q, {})
  BY <1>1, <1>2 DEF Ledger
<1>. QED BY <1>3 DEF q

\* A chunk that was owed is given back.
LEMMA GiveBackLedger ==
  ASSUME NEW p \in PoolType, NEW m \in Bigs, Ledger(p, {m}),
         NEW q, q.large = p.large, q.live = p.live, q.linked = p.linked,
         q.heap = p.heap \ {m}
  PROVE  Ledger(q, {})
<1>1. m \notin p.linked
  BY PoolFields, PoolAssumption
<1>. QED BY <1>1 DEF Ledger

\* Whatever becomes of chunk m in art_palloc_large or art_pmemalign, it ends
\* in one record or with the system.
LEMMA RecordLedger ==
  ASSUME NEW p \in PoolType, Sound(p), p.head \in p.linked, p.current \in Blocks,
         Ledger(p, {}), NEW m \in Bigs \ p.heap, NEW o,
         o \in Record([p EXCEPT !.heap = p.heap \cup {m}], m)
  PROVE  Ledger(o.pool, {})
<1>. DEFINE q == [p EXCEPT !.heap = p.heap \cup {m}]
<1>1. /\ q \in PoolType
      /\ q.psize = p.psize /\ q.head = p.head /\ q.lock = p.lock
      /\ q.linked = p.linked /\ q.current = p.current /\ q.large = p.large
      /\ q.last = p.last /\ q.leisure = p.leisure /\ q.live = p.live
      /\ q.heap = p.heap \cup {m}
  BY DEF PoolType, Memory
<1>2. o \in Record(q, m)
  OBVIOUS
<1>. HIDE DEF q
<1>3. Sound(q)
  BY <1>1 DEF Sound, Header
<1>4. Ledger(q, {m})
  BY <1>1 DEF Ledger
<1>5. q.large \in Seq(Rec) /\ Once(q.large) /\ m \notin HeldBy(q.large)
  BY <1>1, <1>4, LargeIsRecs DEF Ledger
<1>6. CASE Reusable(q) # {}
  <2>1. PICK i \in Reusable(q) :
          o = HandOut(q, m, [q.large EXCEPT ![i].alloc = m])
    BY <1>2, <1>6 DEF Record
  <2>2. i \in DOMAIN q.large /\ q.large[i].alloc = None
    BY DEF Reusable
  <2>. DEFINE large == [q.large EXCEPT ![i].alloc = m]
  <2>3. /\ large \in Seq(Rec) /\ HeldBy(large) = HeldBy(q.large) \cup {m}
        /\ Once(large)
    BY <1>5, <2>2, RefillRecord
  <2>4. o.pool = HandOut(q, m, large).pool
    BY <2>1
  <2>. HIDE DEF large
  <2>. QED BY <1>1, <1>4, <2>3, <2>4, HandOutLedger
<1>7. CASE Reusable(q) = {}
  <2>1. PICK s \in PallocSmall(q, LargeSize, TRUE) :
          o = IF s.addr = None
              THEN Failure([s.pool EXCEPT !.heap = s.pool.heap \ {m}])
              ELSE HandOut(s.pool, m, Append(s.pool.large, [rec |-> s.addr, alloc |-> m]))
    BY <1>2, <1>7 DEF Record
  <2>2. SmallPost(q, s)
    BY <1>1, <1>3, SmallSound DEF LargeSize
  <2>3. s.pool \in PoolType /\ s.pool.large = q.large
    BY <2>2 DEF SmallPost
  <2>4. Ledger(s.pool, {m})
    <3>1. LargeSize \in Nat /\ {m} \in SUBSET Bigs
      BY DEF LargeSize
    <3>. QED BY <1>1, <1>3, <1>4, <3>1, SmallLedger
  <2>5. CASE s.addr = None
    <3>1. o.pool = [s.pool EXCEPT !.heap = s.pool.heap \ {m}]
      BY <2>1, <2>5 DEF Failure
    <3>2. /\ o.pool.large = s.pool.large /\ o.pool.live = s.pool.live
          /\ o.pool.linked = s.pool.linked /\ o.pool.heap = s.pool.heap \ {m}
      BY <2>3, <3>1 DEF PoolType
    <3>. QED BY <2>3, <2>4, <3>2, GiveBackLedger
  <2>6. CASE s.addr # None
    <3>. DEFINE e == [rec |-> s.addr, alloc |-> m]
                large == Append(s.pool.large, e)
    <3>1. e \in Rec /\ e.alloc = m
      BY <2>2, <2>6 DEF SmallPost, Rec
    <3>2. o.pool = HandOut(s.pool, m, large).pool
      BY <2>1, <2>6
    <3>. HIDE DEF e
    <3>3. /\ large \in Seq(Rec) /\ HeldBy(large) = HeldBy(s.pool.large) \cup {m}
          /\ Once(large)
      BY <1>5, <2>3, <3>1, AddRecord
    <3>. HIDE DEF large
    <3>. QED BY <2>3, <2>4, <3>2, <3>3, HandOutLedger
  <2>. QED BY <2>5, <2>6
<1>. QED BY <1>6, <1>7

LEMMA LockedLedger ==
  ASSUME NEW p \in PoolType, Sound(p), p.head \in p.linked, p.current \in Blocks,
         Ledger(p, {}), NEW size \in Nat, NEW align, NEW o \in Locked(p, size, align)
  PROVE  Ledger(o.pool, {})
<1>1. CASE o \in PallocSmall(p, size, align)
  BY <1>1, SmallLedger
<1>2. CASE o = Failure(p)
  BY <1>2 DEF Failure
<1>3. CASE \E m \in Bigs \ p.heap : o \in Record([p EXCEPT !.heap = p.heap \cup {m}], m)
  BY <1>3, RecordLedger
<1>. QED BY <1>1, <1>2, <1>3 DEF Locked, PallocLarge

LEMMA ZeroedLedger ==
  ASSUME NEW o, o.pool \in PoolType, Ledger(o.pool, {}), NEW init
  PROVE  Ledger(Zeroed(o, init), {})
<1>. DEFINE q == Broken(o.pool, "memzero(NULL)")
<1>1. /\ q.large = o.pool.large /\ q.live = o.pool.live
      /\ q.linked = o.pool.linked /\ q.heap = o.pool.heap
  BY DEF Broken, PoolType
<1>. HIDE DEF q
<1>2. Ledger(q, {})
  BY <1>1 DEF Ledger
<1>. QED BY <1>2 DEF Zeroed, q

-----------------------------------------------------------------------------

\* The inductive invariant: the ledger balances with nothing owed, and without
\* a pool nothing of the system's memory is held.
Balanced ==
  /\ IInv /\ Ledger(pool, {})
  /\ pool.head = None => pool.heap = {}

LEMMA BalancedUse ==
  ASSUME Balanced, Usable
  PROVE  /\ pool \in PoolType /\ Sound(pool) /\ pool.head # None
         /\ pool.head \in pool.linked /\ pool.current \in Blocks
         /\ Ledger(pool, {})
BY DEF Balanced, Usable, IInv, TypeOK

LEMMA CreateLedger ==
  ASSUME Balanced, NEW size \in CreateSizes, Create(size)
  PROVE  Ledger(pool', {}) /\ pool'.head # None
<1>. DEFINE cap == Capped(size)
<1>1. PICK b \in Blocks \ pool.heap :
        pool' = [NoPool(pool.heap \cup {b}, "none") EXCEPT
                   !.psize = cap, !.head = b, !.linked = {b},
                   !.last[b] = PoolSize, !.current = b]
  BY DEF Create
<1>. HIDE DEF cap
<1>2. pool.heap = {} /\ b # None
  BY PoolAssumption DEF Create, Balanced, Memory
<1>3. /\ pool'.large = <<>> /\ pool'.live = {} /\ pool'.linked = {b}
      /\ pool'.heap = pool.heap \cup {b} /\ pool'.head = b
  BY <1>1 DEF NoPool
<1>4. HeldBy(<<>>) = {} /\ Once(<<>>)
  BY DEF HeldBy, Once
<1>. QED BY <1>2, <1>3, <1>4 DEF Ledger

LEMMA PallocLedger ==
  ASSUME Balanced, NEW size \in Sizes, NEW init, Palloc(size, init) \/ Pnalloc(size, init)
  PROVE  Ledger(pool', {})
<1>1. size \in Nat
  BY PoolAssumption
<1>2. PICK align : \E o \in Locked(pool, size, align) : pool' = Zeroed(o, init)
  BY DEF Palloc, Pnalloc
<1>3. PICK o \in Locked(pool, size, align) : pool' = Zeroed(o, init)
  BY <1>2
<1>4. /\ pool \in PoolType /\ Sound(pool) /\ pool.head \in pool.linked
      /\ pool.current \in Blocks /\ Ledger(pool, {})
  BY BalancedUse DEF Palloc, Pnalloc
<1>5. o.pool \in PoolType
  BY <1>1, <1>4, LockedSound DEF Post
<1>6. Ledger(o.pool, {})
  BY <1>1, <1>4, LockedLedger
<1>. QED BY <1>3, <1>5, <1>6, ZeroedLedger

\* art_pmemalign's two early returns keep the lock, not the chunk.
LEMMA PmemalignLedger ==
  ASSUME Balanced, Pmemalign
  PROVE  Ledger(pool', {})
<1>1. PICK m \in Bigs \ pool.heap :
        \E o \in Record([pool EXCEPT !.heap = pool.heap \cup {m}], m) :
          pool' = [o.pool EXCEPT !.lock = IF Reusable(pool) # {} \/ o.addr = None
                                          THEN 1 ELSE 0]
  BY DEF Pmemalign
<1>2. PICK o \in Record([pool EXCEPT !.heap = pool.heap \cup {m}], m) :
        pool' = [o.pool EXCEPT !.lock = IF Reusable(pool) # {} \/ o.addr = None
                                        THEN 1 ELSE 0]
  BY <1>1
<1>3. /\ pool \in PoolType /\ Sound(pool) /\ pool.head \in pool.linked
      /\ pool.current \in Blocks /\ Ledger(pool, {})
  BY BalancedUse DEF Pmemalign
<1>4. o.pool \in PoolType /\ Ledger(o.pool, {})
  BY <1>3, RecordSound, RecordLedger DEF Post
<1>5. /\ pool'.large = o.pool.large /\ pool'.live = o.pool.live
      /\ pool'.linked = o.pool.linked /\ pool'.heap = o.pool.heap
  BY <1>2, <1>4 DEF PoolType
<1>. QED BY <1>4, <1>5 DEF Ledger

LEMMA PfreeLedger ==
  ASSUME Balanced, NEW m \in Bigs, Pfree(m)
  PROVE  Ledger(pool', {}) /\ pool'.head # None
<1>1. PICK i \in DOMAIN pool.large :
        /\ pool.large[i].alloc = m
        /\ pool' = [pool EXCEPT !.large = [pool.large EXCEPT ![i].alloc = None],
                                !.heap = pool.heap \ {m},
                                !.live = {r \in pool.live : r.blk # m}]
  BY DEF Pfree
<1>2. /\ pool \in PoolType /\ Sound(pool) /\ pool.head # None
      /\ Ledger(pool, {})
  BY BalancedUse DEF Pfree
<1>. DEFINE large == [pool.large EXCEPT ![i].alloc = None]
            live == {r \in pool.live : r.blk # m}
<1>3. HeldBy(large) = HeldBy(pool.large) \ {m} /\ Once(large)
  <2>1. pool.large \in Seq(Rec) /\ Once(pool.large)
    BY <1>2, LargeIsRecs DEF Ledger
  <2>. QED BY <1>1, <2>1, EmptyRecord
<1>4. \A r \in pool.live : r \in live <=> r.blk # m
  OBVIOUS
<1>5. live \subseteq pool.live
  OBVIOUS
<1>. HIDE DEF large, live
<1>6. /\ pool'.large = large /\ pool'.live = live /\ pool'.linked = pool.linked
      /\ pool'.heap = pool.heap \ {m} /\ pool'.head = pool.head
  BY <1>1, <1>2 DEF PoolType, large, live
<1>7. m \notin pool.linked
  BY <1>2, PoolFields, PoolAssumption
<1>8. \A n \in Bigs : n \in HeldBy(large) <=> \E r \in live : r.blk = n
  BY <1>2, <1>3, <1>4, <1>5 DEF Ledger
<1>9. pool.heap \ {m} = pool.linked \cup HeldBy(large) \cup {}
  BY <1>2, <1>3, <1>7 DEF Ledger
<1>. QED BY <1>2, <1>3, <1>6, <1>8, <1>9 DEF Ledger

LEMMA CleanupAddLedger ==
  ASSUME Balanced, NEW size \in Sizes \cup {0}, CleanupAdd(size)
  PROVE  Ledger(pool', {})
<1>1. PICK c \in PallocSmall(pool, CleanupSize, TRUE) :
        IF c.addr = None THEN pool' = c.pool
        ELSE \E d \in IF size > 0 THEN Locked(c.pool, size, TRUE) ELSE {c} :
               pool' = IF d.addr = None THEN Zeroed(d, TRUE)
                       ELSE [d.pool EXCEPT !.cleanup = Append(d.pool.cleanup, c.addr)]
  BY DEF CleanupAdd
<1>2. /\ pool \in PoolType /\ Sound(pool) /\ pool.head \in pool.linked
      /\ pool.current \in Blocks /\ Ledger(pool, {})
  BY BalancedUse DEF CleanupAdd
<1>3. SmallPost(pool, c) /\ CleanupSize \in Nat
  BY <1>2, SmallSound DEF CleanupSize
<1>4. Ledger(c.pool, {})
  BY <1>2, <1>3, SmallLedger
<1>5. CASE c.addr = None
  BY <1>1, <1>4, <1>5
<1>6. CASE c.addr # None
  <2>1. PICK d \in IF size > 0 THEN Locked(c.pool, size, TRUE) ELSE {c} :
          pool' = IF d.addr = None THEN Zeroed(d, TRUE)
                  ELSE [d.pool EXCEPT !.cleanup = Append(d.pool.cleanup, c.addr)]
    BY <1>1, <1>6
  <2>2. /\ c.pool \in PoolType /\ Sound(c.pool)
        /\ c.pool.head \in c.pool.linked /\ c.pool.current \in Blocks
    BY <1>2, <1>3 DEF SmallPost
  <2>3. size \in Nat
    BY PoolAssumption
  <2>4. d.pool \in PoolType /\ Ledger(d.pool, {})
    <3>1. CASE d \in Locked(c.pool, size, TRUE)
      <4>1. Post(c.pool, d)
        BY <2>2, <2>3, <3>1, LockedSound
      <4>2. Ledger(d.pool, {})
        BY <1>4, <2>2, <2>3, <3>1, LockedLedger
      <4>. QED BY <4>1, <4>2 DEF Post
    <3>2. CASE d = c
      BY <1>4, <2>2, <3>2
    <3>. QED BY <2>1, <3>1, <3>2
  <2>5. CASE d.addr = None
    BY <2>1, <2>4, <2>5, ZeroedLedger
  <2>6. CASE d.addr # None
    <3>. DEFINE list == Append(d.pool.cleanup, c.addr)
    <3>1. pool' = [d.pool EXCEPT !.cleanup = list]
      BY <2>1, <2>6
    <3>. HIDE DEF list
    <3>2. /\ pool'.large = d.pool.large /\ pool'.live = d.pool.live
          /\ pool'.linked = d.pool.linked /\ pool'.heap = d.pool.heap
      BY <2>4, <3>1 DEF PoolType
    <3>. QED BY <2>4, <3>2 DEF Ledger
  <2>. QED BY <2>5, <2>6
<1>. QED BY <1>5, <1>6

LEMMA ResetLedger ==
  ASSUME Balanced, Reset
  PROVE  Ledger(pool', {}) /\ pool'.head # None
<1>1. /\ pool \in PoolType /\ pool.head # None /\ Ledger(pool, {})
  BY BalancedUse DEF Reset
<1>2. /\ pool'.large = <<>> /\ pool'.live = {} /\ pool'.linked = pool.linked
      /\ pool'.heap = pool.heap \ Allocs(pool) /\ pool'.head = pool.head
  BY <1>1 DEF Reset, PoolType
<1>3. HeldBy(<<>>) = {} /\ Once(<<>>)
  BY DEF HeldBy, Once
<1>4. pool.heap \ Allocs(pool) = pool.linked
  BY <1>1, LargeIsRecs, PoolFields, PoolAssumption DEF Ledger
<1>. QED BY <1>1, <1>2, <1>3, <1>4 DEF Ledger

LEMMA ManageSmallLedger ==
  ASSUME Balanced, ManageSmall
  PROVE  Ledger(pool', {}) /\ pool'.head # None
<1>1. /\ pool \in PoolType /\ pool.head # None /\ Ledger(pool, {})
  BY BalancedUse DEF ManageSmall
<1>2. PICK g \in Freed(pool) :
        /\ pool'.linked = pool.linked \ g /\ pool'.heap = pool.heap \ g
        /\ pool'.large = pool.large /\ pool'.live = pool.live
        /\ pool'.head = pool.head
  BY <1>1 DEF ManageSmall, PoolType
<1>3. g \in SUBSET Blocks
  BY <1>1, PoolFields DEF Freed, Idle
<1>4. PICK q : q = pool'
  OBVIOUS
<1>5. Ledger(q, {})
  BY <1>1, <1>2, <1>3, <1>4, SameLedger
<1>. QED BY <1>1, <1>2, <1>4, <1>5

LEMMA DestroyLedger ==
  ASSUME Balanced, Destroy
  PROVE  Ledger(pool', {}) /\ (pool'.head = None => pool'.heap = {})
<1>1. /\ pool \in PoolType /\ pool.head # None /\ Ledger(pool, {})
  BY BalancedUse DEF Destroy
<1>2. CASE pool' = Broken(pool, "cleanup record reused")
  <2>1. /\ pool'.large = pool.large /\ pool'.live = pool.live
        /\ pool'.linked = pool.linked /\ pool'.heap = pool.heap
        /\ pool'.head = pool.head
    BY <1>1, <1>2 DEF Broken, PoolType
  <2>. QED BY <1>1, <2>1 DEF Ledger
<1>3. CASE pool' = NoPool(pool.heap \ (Allocs(pool) \cup pool.linked), "none")
  <2>1. pool.heap \ (Allocs(pool) \cup pool.linked) = {}
    BY <1>1, LargeIsRecs DEF Ledger
  <2>2. /\ pool'.large = <<>> /\ pool'.live = {} /\ pool'.linked = {}
        /\ pool'.heap = {}
    BY <1>3, <2>1 DEF NoPool
  <2>3. HeldBy(<<>>) = {} /\ Once(<<>>)
    BY DEF HeldBy, Once
  <2>. QED BY <2>2, <2>3 DEF Ledger
<1>. QED BY <1>2, <1>3 DEF Destroy

LEMMA BalancedStep ==
  ASSUME Balanced, [Next]_vars
  PROVE  Balanced'
<1>1. IInv'
  BY StepOfThePool DEF Balanced
<1>2. CASE UNCHANGED vars
  BY <1>1, <1>2 DEF vars, Balanced, Ledger
<1>3. ASSUME NEW size \in CreateSizes, Create(size) PROVE Balanced'
  BY <1>1, <1>3, CreateLedger DEF Balanced
<1>4. ASSUME \/ \E size \in Sizes, init \in BOOLEAN : Palloc(size, init) \/ Pnalloc(size, init)
             \/ Pmemalign
             \/ \E size \in Sizes \cup {0} : CleanupAdd(size)
      PROVE  Balanced'
  <2>1. Grants(pool, pool')
    BY <1>4, PallocStep, PmemalignStep, CleanupAddStep DEF Balanced
  <2>2. pool'.head # None
    BY <1>4, <2>1 DEF Grants, Palloc, Pnalloc, Pmemalign, CleanupAdd, Usable
  <2>3. Ledger(pool', {})
    BY <1>4, PallocLedger, PmemalignLedger, CleanupAddLedger
  <2>. QED BY <1>1, <2>2, <2>3 DEF Balanced
<1>5. ASSUME NEW m \in Bigs, Pfree(m) PROVE Balanced'
  BY <1>1, <1>5, PfreeLedger DEF Balanced
<1>6. CASE Reset
  BY <1>1, <1>6, ResetLedger DEF Balanced
<1>7. CASE ManageSmall
  BY <1>1, <1>7, ManageSmallLedger DEF Balanced
<1>8. CASE Destroy
  BY <1>1, <1>8, DestroyLedger DEF Balanced
<1>. QED BY <1>2, <1>3, <1>4, <1>5, <1>6, <1>7, <1>8 DEF Next

LEMMA AlwaysBalanced == Spec => []Balanced
<1>1. Init => Balanced
  <2>. SUFFICES ASSUME Init PROVE Balanced
    OBVIOUS
  <2>1. /\ pool \in PoolType /\ pool.head = None /\ pool.current = None
        /\ pool.linked = {} /\ pool.live = {}
    BY NoPoolType DEF Init
  <2>2. Sound(pool)
    BY <2>1, NoLiveSound
  <2>3. pool.heap = {} /\ pool.large = <<>>
    BY DEF Init, NoPool
  <2>4. HeldBy(<<>>) = {} /\ Once(<<>>)
    BY DEF HeldBy, Once
  <2>5. Ledger(pool, {})
    BY <2>1, <2>3, <2>4 DEF Ledger
  <2>. QED BY <2>1, <2>2, <2>3, <2>5 DEF Balanced, IInv, TypeOK
<1>2. Balanced /\ [Next]_vars => Balanced'
  BY BalancedStep
<1>. QED BY <1>1, <1>2, PTL DEF Spec

\* Nothing leaks and nothing is freed twice: whatever calls were made, and
\* whichever of them the system refused memory, art_reset_pool and
\* art_destroy_pool find on the chain and in the large list exactly what the
\* pool still holds.
THEOREM NothingLeaks == Spec => []HeapAccounted
<1>1. Balanced => HeapAccounted
  BY LargeIsRecs DEF Balanced, IInv, TypeOK, Ledger, HeapAccounted
<1>. QED BY <1>1, AlwaysBalanced, PTL

\* A chunk has one record exactly while its caller may use it, though
\* art_palloc_large and art_pmemalign reuse the records that art_pfree emptied.
THEOREM OneRecordPerChunk == Spec => []ChunksRecordedOnce
<1>1. ASSUME Balanced PROVE ChunksRecordedOnce
  <2>1. HeldBy(pool.large) = Allocs(pool) /\ Allocs(pool) \subseteq Bigs
    BY <1>1, LargeIsRecs DEF Balanced, IInv, TypeOK
  <2>2. Allocs(pool) = {r.blk : r \in pool.live} \cap Bigs
    BY <1>1, <2>1 DEF Balanced, Ledger
  <2>. QED BY <1>1, <2>2 DEF Balanced, Ledger, Once, ChunksRecordedOnce
<1>. QED BY <1>1, AlwaysBalanced, PTL

-----------------------------------------------------------------------------
(* The nodes of the pool's two lists, which lie in the pool's own blocks.   *)

\* The cleanup records that no reset has reclaimed.
Added(p) == {p.cleanup[k] : k \in p.stale + 1 .. Len(p.cleanup)}

\* Every large record, every cleanup record and every region in `kept` is live
\* and in a block, and a large record is none of the others.
Nodes(p, kept) ==
  /\ \A i \in DOMAIN p.large : p.large[i].rec \in p.live /\ p.large[i].rec.blk \in Blocks
  /\ \A i, j \in DOMAIN p.large : p.large[i].rec = p.large[j].rec => i = j
  /\ \A r \in kept \cup Added(p) :
       r \in p.live /\ r.blk \in Blocks /\ \A i \in DOMAIN p.large : p.large[i].rec # r

\* Records may gain and lose their chunks, and callers their regions.
LEMMA KeepNodes ==
  ASSUME NEW p, NEW kept, Nodes(p, kept), NEW q,
         DOMAIN q.large = DOMAIN p.large,
         \A i \in DOMAIN p.large : q.large[i].rec = p.large[i].rec,
         q.cleanup = p.cleanup, q.stale = p.stale,
         \A r \in p.live : r.blk \in Blocks => r \in q.live
  PROVE  Nodes(q, kept)
<1>1. Added(q) = Added(p)
  BY DEF Added
<1>. QED BY <1>1 DEF Nodes

LEMMA NoNodes ==
  ASSUME NEW p, p.large = <<>>, Added(p) = {}
  PROVE  Nodes(p, {})
BY DEF Nodes

\* art_palloc_small hands out what nobody holds, not even as an equal region.
LEMMA SmallFresh ==
  ASSUME NEW p \in PoolType, Sound(p), NEW size \in Nat, size > 0, NEW align,
         NEW o \in PallocSmall(p, size, align), o.addr # None
  PROVE  o.addr \notin p.live
<1>1. \A q : o # Failure(q)
  BY DEF Failure
<1>2. ASSUME NEW new \in Blocks \ p.heap, NEW cur \in CurrentAfter(p),
             o = LinkNew(p, new, cur, size)
      PROVE  o.addr \notin p.live
  <2>1. o.addr.blk = new
    BY <1>2 DEF LinkNew, Result
  <2>. QED BY <2>1 DEF Sound
<1>3. ASSUME NEW b \in FirstFit(p, size, align), o = Serve(p, b, size, align)
      PROVE  o.addr \notin p.live
  <2>1. b \in Blocks
    BY PoolFields DEF FirstFit, Walk
  <2>2. o.addr = [blk |-> b, lo |-> Start(p, b, align), hi |-> Start(p, b, align) + size]
    BY <1>3 DEF Serve, Result
  <2>3. Start(p, b, align) \in Nat /\ Start(p, b, align) >= p.last[b] /\ p.last[b] \in Nat
    BY <2>1, StartType, PoolFields
  <2>. SUFFICES ASSUME o.addr \in p.live PROVE FALSE
    OBVIOUS
  <2>4. o.addr.hi <= p.last[b]
    BY <2>1, <2>2 DEF Sound
  <2>. QED BY <2>2, <2>3, <2>4
<1>4. CASE p.current \notin p.linked
  BY <1>1, <1>4 DEF PallocSmall
<1>5. CASE p.current \in p.linked /\ o \in PallocBlock(p, size)
  <2>1. o # Failure(p)
    BY <1>1
  <2>2. \E new \in Blocks \ p.heap, cur \in CurrentAfter(p) : o = LinkNew(p, new, cur, size)
    BY <1>5, <2>1 DEF PallocBlock
  <2>. QED BY <1>2, <2>2
<1>6. CASE \E b \in FirstFit(p, size, align) : o = Serve(p, b, size, align)
  BY <1>3, <1>6
<1>. QED BY <1>4, <1>5, <1>6 DEF PallocSmall

LEMMA SmallNodes ==
  ASSUME NEW p, NEW kept, Nodes(p, kept), NEW o, SmallPost(p, o)
  PROVE  Nodes(o.pool, kept)
<1>1. PICK q : q = o.pool
  OBVIOUS
<1>2. /\ q.large = p.large /\ q.cleanup = p.cleanup /\ q.stale = p.stale
      /\ p.live \subseteq q.live
  BY <1>1 DEF SmallPost
<1>. QED BY <1>1, <1>2, KeepNodes

\* A chunk handed out under a record that was there already.
LEMMA RefillNodes ==
  ASSUME NEW p \in PoolType, NEW kept, Nodes(p, kept), NEW m \in Bigs,
         NEW i \in DOMAIN p.large, NEW large, large = [p.large EXCEPT ![i].alloc = m]
  PROVE  Nodes(HandOut(p, m, large).pool, kept)
<1>1. \A j \in DOMAIN p.large : p.large[j] \in Rec
  BY LargeIsRecs, RecordsAreRecs
<1>2. /\ DOMAIN large = DOMAIN p.large
      /\ \A j \in DOMAIN p.large : large[j].rec = p.large[j].rec
  BY <1>1 DEF Rec
<1>3. PICK q : q = HandOut(p, m, large).pool
  OBVIOUS
<1>4. /\ q.large = large /\ q.cleanup = p.cleanup /\ q.stale = p.stale
      /\ q.live = p.live \cup {Chunk(m)}
  BY <1>3 DEF HandOut, Result, PoolType
<1>. QED BY <1>2, <1>3, <1>4, KeepNodes

\* A chunk handed out under a new record, cut from the pool for it.
LEMMA NewRecordNodes ==
  ASSUME NEW p \in PoolType, NEW kept, Nodes(p, kept), NEW m \in Bigs,
         NEW r \in p.live, r.blk \in Blocks, r \notin kept \cup Added(p),
         \A i \in DOMAIN p.large : p.large[i].rec # r,
         NEW large, large = Append(p.large, [rec |-> r, alloc |-> m])
  PROVE  Nodes(HandOut(p, m, large).pool, kept)
<1>. DEFINE e == [rec |-> r, alloc |-> m]
            n == Len(p.large) + 1
<1>1. p.large \in Seq(Rec) /\ DOMAIN p.large = 1..Len(p.large) /\ Len(p.large) \in Nat
  BY LargeIsRecs, RecordsAreRecs
<1>2. e \in Rec /\ e.rec = r
  BY PoolFields DEF Rec
<1>. HIDE DEF e
<1>3. /\ DOMAIN large = 1..n /\ large[n] = e
      /\ \A j \in DOMAIN p.large : large[j] = p.large[j]
  <2>. HIDE DEF Rec
  <2>1. large = Append(p.large, e)
    BY DEF e
  <2>. QED BY <1>1, <1>2, <2>1, AppendProperties, LenProperties
<1>4. DOMAIN large = DOMAIN p.large \cup {n} /\ n \notin DOMAIN p.large
  BY <1>1, <1>3
<1>. HIDE DEF n
<1>5. PICK q : q = HandOut(p, m, large).pool
  OBVIOUS
<1>6. /\ q.large = large /\ q.cleanup = p.cleanup /\ q.stale = p.stale
      /\ q.live = p.live \cup {Chunk(m)}
  BY <1>5 DEF HandOut, Result, PoolType
<1>7. Added(q) = Added(p)
  BY <1>6 DEF Added
<1>8. Nodes(q, kept)
  BY <1>2, <1>3, <1>4, <1>6, <1>7 DEF Nodes
<1>. QED BY <1>5, <1>8

LEMMA RecordNodes ==
  ASSUME NEW p \in PoolType, Sound(p), p.head \in p.linked, p.current \in Blocks,
         NEW kept, Nodes(p, kept), NEW m \in Bigs \ p.heap, NEW o,
         o \in Record([p EXCEPT !.heap = p.heap \cup {m}], m)
  PROVE  Nodes(o.pool, kept)
<1>. DEFINE q == [p EXCEPT !.heap = p.heap \cup {m}]
<1>1. /\ q \in PoolType
      /\ q.psize = p.psize /\ q.head = p.head /\ q.lock = p.lock
      /\ q.linked = p.linked /\ q.current = p.current /\ q.large = p.large
      /\ q.last = p.last /\ q.leisure = p.leisure /\ q.live = p.live
      /\ q.heap = p.heap \cup {m} /\ q.cleanup = p.cleanup /\ q.stale = p.stale
  BY DEF PoolType, Memory
<1>2. o \in Record(q, m)
  OBVIOUS
<1>. HIDE DEF q
<1>3. Sound(q)
  BY <1>1 DEF Sound, Header
<1>4. Nodes(q, kept)
  BY <1>1 DEF Nodes, Added
<1>5. CASE Reusable(q) # {}
  <2>1. PICK i \in Reusable(q) :
          o = HandOut(q, m, [q.large EXCEPT ![i].alloc = m])
    BY <1>2, <1>5 DEF Record
  <2>2. PICK large : large = [q.large EXCEPT ![i].alloc = m]
    OBVIOUS
  <2>3. Nodes(HandOut(q, m, large).pool, kept)
    BY <1>1, <1>4, <2>2, RefillNodes DEF Reusable
  <2>. QED BY <2>1, <2>2, <2>3
<1>6. CASE Reusable(q) = {}
  <2>1. PICK s \in PallocSmall(q, LargeSize, TRUE) :
          o = IF s.addr = None
              THEN Failure([s.pool EXCEPT !.heap = s.pool.heap \ {m}])
              ELSE HandOut(s.pool, m, Append(s.pool.large, [rec |-> s.addr, alloc |-> m]))
    BY <1>2, <1>6 DEF Record
  <2>2. SmallPost(q, s)
    BY <1>1, <1>3, SmallSound DEF LargeSize
  <2>3. s.pool \in PoolType /\ Nodes(s.pool, kept)
    BY <1>4, <2>2, SmallNodes DEF SmallPost
  <2>4. CASE s.addr = None
    <3>1. o.pool = [s.pool EXCEPT !.heap = s.pool.heap \ {m}]
      BY <2>1, <2>4 DEF Failure
    <3>2. /\ o.pool.large = s.pool.large /\ o.pool.live = s.pool.live
          /\ o.pool.cleanup = s.pool.cleanup /\ o.pool.stale = s.pool.stale
      BY <2>3, <3>1 DEF PoolType
    <3>3. PICK t : t = o.pool
      OBVIOUS
    <3>. QED BY <2>3, <3>2, <3>3, KeepNodes
  <2>5. CASE s.addr # None
    <3>1. s.addr \notin q.live
      <4>1. LargeSize \in Nat /\ LargeSize > 0
        BY DEF LargeSize
      <4>. QED BY <1>1, <1>3, <2>5, <4>1, SmallFresh
    <3>2. PICK r : r = s.addr
      OBVIOUS
    <3>3. /\ r \in s.pool.live /\ r.blk \in Blocks /\ r \notin q.live
          /\ s.pool.large = q.large /\ s.pool.cleanup = q.cleanup
          /\ s.pool.stale = q.stale
      BY <2>2, <2>5, <3>1, <3>2 DEF SmallPost
    <3>4. /\ r \notin kept \cup Added(s.pool)
          /\ \A i \in DOMAIN s.pool.large : s.pool.large[i].rec # r
      BY <1>4, <3>3 DEF Nodes, Added
    <3>5. PICK large : large = Append(s.pool.large, [rec |-> r, alloc |-> m])
      OBVIOUS
    <3>6. Nodes(HandOut(s.pool, m, large).pool, kept)
      BY <2>3, <3>3, <3>4, <3>5, NewRecordNodes
    <3>. QED BY <2>1, <2>5, <3>2, <3>5, <3>6
  <2>. QED BY <2>4, <2>5
<1>. QED BY <1>5, <1>6

LEMMA LockedNodes ==
  ASSUME NEW p \in PoolType, Sound(p), p.head \in p.linked, p.current \in Blocks,
         NEW kept, Nodes(p, kept), NEW size \in Nat, NEW align,
         NEW o \in Locked(p, size, align)
  PROVE  Nodes(o.pool, kept)
<1>1. CASE o \in PallocSmall(p, size, align)
  BY <1>1, SmallSound, SmallNodes
<1>2. CASE o = Failure(p)
  BY <1>2 DEF Failure
<1>3. CASE \E m \in Bigs \ p.heap : o \in Record([p EXCEPT !.heap = p.heap \cup {m}], m)
  BY <1>3, RecordNodes
<1>. QED BY <1>1, <1>2, <1>3 DEF Locked, PallocLarge

LEMMA ZeroedNodes ==
  ASSUME NEW o, o.pool \in PoolType, NEW kept, Nodes(o.pool, kept), NEW init
  PROVE  Nodes(Zeroed(o, init), kept)
<1>1. PICK p : p = o.pool
  OBVIOUS
<1>2. PICK q : q = Broken(o.pool, "memzero(NULL)")
  OBVIOUS
<1>3. /\ q.large = p.large /\ q.live = p.live
      /\ q.cleanup = p.cleanup /\ q.stale = p.stale
  BY <1>1, <1>2 DEF Broken, PoolType
<1>4. Nodes(q, kept)
  BY <1>1, <1>3, KeepNodes
<1>. QED BY <1>2, <1>4 DEF Zeroed

\* A kept region becomes the cleanup list's newest record.
LEMMA ListNodes ==
  ASSUME NEW p \in PoolType, NEW r \in Region, Nodes(p, {r}),
         NEW q, q = [p EXCEPT !.cleanup = Append(p.cleanup, r)]
  PROVE  Nodes(q, {})
<1>1. /\ p.cleanup \in Seq(Region) /\ p.stale \in Nat /\ Len(p.cleanup) \in Nat
  BY PoolFields, LenProperties
<1>2. PICK list : list = Append(p.cleanup, r)
  OBVIOUS
<1>3. /\ Len(list) = Len(p.cleanup) + 1 /\ list[Len(p.cleanup) + 1] = r
      /\ \A k \in 1..Len(p.cleanup) : list[k] = p.cleanup[k]
  BY <1>1, <1>2, AppendProperties
<1>4. q = [p EXCEPT !.cleanup = list]
  BY <1>2
<1>5. /\ q.large = p.large /\ q.live = p.live /\ q.cleanup = list
      /\ q.stale = p.stale
  BY <1>4 DEF PoolType
<1>6. Added(q) \subseteq Added(p) \cup {r}
  <2>. SUFFICES ASSUME NEW x \in Added(q) PROVE x \in Added(p) \cup {r}
    OBVIOUS
  <2>1. PICK k \in q.stale + 1 .. Len(q.cleanup) : x = q.cleanup[k]
    BY DEF Added
  <2>2. k \in p.stale + 1 .. Len(p.cleanup) + 1 /\ x = list[k]
    BY <1>3, <1>5, <2>1
  <2>3. CASE k = Len(p.cleanup) + 1
    BY <1>3, <2>2, <2>3
  <2>4. CASE k # Len(p.cleanup) + 1
    <3>1. k \in 1..Len(p.cleanup) /\ k \in p.stale + 1 .. Len(p.cleanup)
      BY <1>1, <2>2, <2>4
    <3>. QED BY <1>3, <2>2, <3>1 DEF Added
  <2>. QED BY <2>3, <2>4
<1>. QED BY <1>5, <1>6 DEF Nodes

Threaded == IInv /\ Nodes(pool, {})

LEMMA ThreadedUse ==
  ASSUME Threaded, Usable
  PROVE  /\ pool \in PoolType /\ Sound(pool) /\ pool.head \in pool.linked
         /\ pool.current \in Blocks /\ Nodes(pool, {})
BY DEF Threaded, Usable, IInv, TypeOK

LEMMA CreateNodes ==
  ASSUME NEW size \in CreateSizes, Create(size)
  PROVE  Nodes(pool', {})
<1>. DEFINE cap == Capped(size)
<1>1. PICK b \in Blocks \ pool.heap :
        pool' = [NoPool(pool.heap \cup {b}, "none") EXCEPT
                   !.psize = cap, !.head = b, !.linked = {b},
                   !.last[b] = PoolSize, !.current = b]
  BY DEF Create
<1>. HIDE DEF cap
<1>2. pool'.large = <<>> /\ pool'.cleanup = <<>> /\ pool'.stale = 0
  BY <1>1 DEF NoPool
<1>3. Added(pool') = {}
  BY <1>2 DEF Added
<1>. QED BY <1>2, <1>3, NoNodes

LEMMA PallocNodes ==
  ASSUME Threaded, NEW size \in Sizes, NEW init, Palloc(size, init) \/ Pnalloc(size, init)
  PROVE  Nodes(pool', {})
<1>1. size \in Nat
  BY PoolAssumption
<1>2. PICK align : \E o \in Locked(pool, size, align) : pool' = Zeroed(o, init)
  BY DEF Palloc, Pnalloc
<1>3. PICK o \in Locked(pool, size, align) : pool' = Zeroed(o, init)
  BY <1>2
<1>4. /\ pool \in PoolType /\ Sound(pool) /\ pool.head \in pool.linked
      /\ pool.current \in Blocks /\ Nodes(pool, {})
  BY ThreadedUse DEF Palloc, Pnalloc
<1>5. o.pool \in PoolType
  BY <1>1, <1>4, LockedSound DEF Post
<1>6. Nodes(o.pool, {})
  BY <1>1, <1>4, LockedNodes
<1>. QED BY <1>3, <1>5, <1>6, ZeroedNodes

LEMMA PmemalignNodes ==
  ASSUME Threaded, Pmemalign
  PROVE  Nodes(pool', {})
<1>1. PICK m \in Bigs \ pool.heap :
        \E o \in Record([pool EXCEPT !.heap = pool.heap \cup {m}], m) :
          pool' = [o.pool EXCEPT !.lock = IF Reusable(pool) # {} \/ o.addr = None
                                          THEN 1 ELSE 0]
  BY DEF Pmemalign
<1>2. PICK o \in Record([pool EXCEPT !.heap = pool.heap \cup {m}], m) :
        pool' = [o.pool EXCEPT !.lock = IF Reusable(pool) # {} \/ o.addr = None
                                        THEN 1 ELSE 0]
  BY <1>1
<1>3. /\ pool \in PoolType /\ Sound(pool) /\ pool.head \in pool.linked
      /\ pool.current \in Blocks /\ Nodes(pool, {})
  BY ThreadedUse DEF Pmemalign
<1>4. o.pool \in PoolType /\ Nodes(o.pool, {})
  BY <1>3, RecordSound, RecordNodes DEF Post
<1>5. /\ pool'.large = o.pool.large /\ pool'.live = o.pool.live
      /\ pool'.cleanup = o.pool.cleanup /\ pool'.stale = o.pool.stale
  BY <1>2, <1>4 DEF PoolType
<1>. QED BY <1>4, <1>5 DEF Nodes, Added

\* The chunk's region goes, no record does: records lie in blocks.
LEMMA PfreeNodes ==
  ASSUME Threaded, NEW m \in Bigs, Pfree(m)
  PROVE  Nodes(pool', {})
<1>1. PICK i \in DOMAIN pool.large :
        pool' = [pool EXCEPT !.large = [pool.large EXCEPT ![i].alloc = None],
                             !.heap = pool.heap \ {m},
                             !.live = {r \in pool.live : r.blk # m}]
  BY DEF Pfree
<1>2. pool \in PoolType /\ Nodes(pool, {})
  BY ThreadedUse DEF Pfree
<1>3. \A j \in DOMAIN pool.large : pool.large[j] \in Rec
  BY <1>2, LargeIsRecs, RecordsAreRecs
<1>4. /\ pool'.large = [pool.large EXCEPT ![i].alloc = None]
      /\ pool'.cleanup = pool.cleanup /\ pool'.stale = pool.stale
      /\ pool'.live = {r \in pool.live : r.blk # m}
  BY <1>1, <1>2 DEF PoolType
<1>5. /\ DOMAIN pool'.large = DOMAIN pool.large
      /\ \A j \in DOMAIN pool.large : pool'.large[j].rec = pool.large[j].rec
  BY <1>3, <1>4 DEF Rec
<1>6. \A r \in pool.live : r.blk \in Blocks => r \in pool'.live
  BY <1>4, PoolAssumption
<1>7. PICK q : q = pool'
  OBVIOUS
<1>. QED BY <1>2, <1>4, <1>5, <1>6, <1>7, KeepNodes

LEMMA CleanupAddNodes ==
  ASSUME Threaded, NEW size \in Sizes \cup {0}, CleanupAdd(size)
  PROVE  Nodes(pool', {})
<1>1. PICK c \in PallocSmall(pool, CleanupSize, TRUE) :
        IF c.addr = None THEN pool' = c.pool
        ELSE \E d \in IF size > 0 THEN Locked(c.pool, size, TRUE) ELSE {c} :
               pool' = IF d.addr = None THEN Zeroed(d, TRUE)
                       ELSE [d.pool EXCEPT !.cleanup = Append(d.pool.cleanup, c.addr)]
  BY DEF CleanupAdd
<1>2. /\ pool \in PoolType /\ Sound(pool) /\ pool.head \in pool.linked
      /\ pool.current \in Blocks /\ Nodes(pool, {})
  BY ThreadedUse DEF CleanupAdd
<1>3. SmallPost(pool, c) /\ CleanupSize \in Nat /\ CleanupSize > 0
  <2>1. CleanupSize \in Nat /\ CleanupSize > 0
    BY DEF CleanupSize
  <2>. QED BY <1>2, <2>1, SmallSound
<1>4. Nodes(c.pool, {})
  BY <1>2, <1>3, SmallNodes
<1>5. CASE c.addr = None
  BY <1>1, <1>4, <1>5
<1>6. CASE c.addr # None
  <2>1. PICK d \in IF size > 0 THEN Locked(c.pool, size, TRUE) ELSE {c} :
          pool' = IF d.addr = None THEN Zeroed(d, TRUE)
                  ELSE [d.pool EXCEPT !.cleanup = Append(d.pool.cleanup, c.addr)]
    BY <1>1, <1>6
  <2>2. /\ c.pool \in PoolType /\ Sound(c.pool)
        /\ c.pool.head \in c.pool.linked /\ c.pool.current \in Blocks
    BY <1>2, <1>3 DEF SmallPost
  <2>3. size \in Nat
    BY PoolAssumption
  <2>. PICK r : r = c.addr
    OBVIOUS
  <2>4. /\ r \in Region /\ r \in c.pool.live /\ r.blk \in Blocks
        /\ c.pool.large = pool.large
    BY <1>3, <1>6 DEF SmallPost
  <2>5. r \notin pool.live
    BY <1>2, <1>3, <1>6, SmallFresh
  <2>6. Nodes(c.pool, {r})
    BY <1>2, <1>4, <2>4, <2>5 DEF Nodes
  <2>7. d.pool \in PoolType /\ Nodes(d.pool, {r})
    <3>1. CASE d \in Locked(c.pool, size, TRUE)
      <4>1. Post(c.pool, d)
        BY <2>2, <2>3, <3>1, LockedSound
      <4>2. Nodes(d.pool, {r})
        BY <2>2, <2>3, <2>6, <3>1, LockedNodes
      <4>. QED BY <4>1, <4>2 DEF Post
    <3>2. CASE d = c
      BY <2>2, <2>6, <3>2
    <3>. QED BY <2>1, <3>1, <3>2
  <2>8. CASE d.addr = None
    <3>1. Nodes(d.pool, {})
      BY <2>7 DEF Nodes
    <3>. QED BY <2>1, <2>7, <2>8, <3>1, ZeroedNodes
  <2>9. CASE d.addr # None
    <3>1. PICK q : q = pool'
      OBVIOUS
    <3>2. Nodes(q, {})
      BY <2>1, <2>4, <2>7, <2>9, <3>1, ListNodes
    <3>. QED BY <3>1, <3>2
  <2>. QED BY <2>8, <2>9
<1>. QED BY <1>5, <1>6

\* A reset empties the large list and turns its back on the cleanup list.
LEMMA ResetNodes ==
  ASSUME Threaded, Reset
  PROVE  Nodes(pool', {})
<1>1. pool \in PoolType
  BY ThreadedUse DEF Reset
<1>2. /\ pool'.large = <<>> /\ pool'.cleanup = pool.cleanup
      /\ pool'.stale = Len(pool.cleanup)
  BY <1>1 DEF Reset, PoolType
<1>3. Len(pool.cleanup) \in Nat
  BY <1>1, PoolFields, LenProperties
<1>4. Added(pool') = {}
  BY <1>2, <1>3 DEF Added
<1>. QED BY <1>2, <1>4, NoNodes

\* art_manage_small frees no block with a region in use, and so no node.
LEMMA ManageSmallNodes ==
  ASSUME Threaded, ManageSmall
  PROVE  Nodes(pool', {})
<1>1. pool \in PoolType /\ Nodes(pool, {})
  BY ThreadedUse DEF ManageSmall
<1>2. /\ pool'.large = pool.large /\ pool'.live = pool.live
      /\ pool'.cleanup = pool.cleanup /\ pool'.stale = pool.stale
  BY <1>1 DEF ManageSmall, PoolType
<1>. QED BY <1>1, <1>2 DEF Nodes, Added

LEMMA DestroyNodes ==
  ASSUME Threaded, Destroy
  PROVE  Nodes(pool', {})
<1>1. pool \in PoolType /\ Nodes(pool, {})
  BY ThreadedUse DEF Destroy
<1>2. CASE pool' = Broken(pool, "cleanup record reused")
  <2>1. /\ pool'.large = pool.large /\ pool'.live = pool.live
        /\ pool'.cleanup = pool.cleanup /\ pool'.stale = pool.stale
    BY <1>1, <1>2 DEF Broken, PoolType
  <2>. QED BY <1>1, <2>1 DEF Nodes, Added
<1>3. CASE pool' = NoPool(pool.heap \ (Allocs(pool) \cup pool.linked), "none")
  <2>1. pool'.large = <<>> /\ pool'.cleanup = <<>> /\ pool'.stale = 0
    BY <1>3 DEF NoPool
  <2>2. Added(pool') = {}
    BY <2>1 DEF Added
  <2>. QED BY <2>1, <2>2, NoNodes
<1>. QED BY <1>2, <1>3 DEF Destroy

\* The pool never loses a node of its own lists: each large record and each
\* cleanup record added since the last reset is in memory nobody else was
\* given, whatever art_pfree and art_manage_small took back meanwhile.
THEOREM NodesKept == Spec => []RecordsLive
<1>1. Init => Threaded
  <2>. SUFFICES ASSUME Init PROVE Threaded
    OBVIOUS
  <2>1. /\ pool \in PoolType /\ pool.head = None /\ pool.current = None
        /\ pool.linked = {} /\ pool.live = {}
    BY NoPoolType DEF Init
  <2>2. Sound(pool)
    BY <2>1, NoLiveSound
  <2>3. pool.large = <<>> /\ pool.cleanup = <<>> /\ pool.stale = 0
    BY DEF Init, NoPool
  <2>4. Added(pool) = {}
    BY <2>3 DEF Added
  <2>5. Nodes(pool, {})
    BY <2>3, <2>4, NoNodes
  <2>. QED BY <2>1, <2>2, <2>5 DEF Threaded, IInv, TypeOK
<1>2. Threaded /\ [Next]_vars => Threaded'
  <2>. SUFFICES ASSUME Threaded, [Next]_vars PROVE Threaded'
    OBVIOUS
  <2>1. IInv'
    BY StepOfThePool DEF Threaded
  <2>2. CASE UNCHANGED vars
    BY <2>1, <2>2 DEF vars, Threaded, Nodes, Added
  <2>3. CASE Next
    <3>1. Nodes(pool', {})
      BY <2>3, CreateNodes, PallocNodes, PmemalignNodes, PfreeNodes,
         CleanupAddNodes, ResetNodes, ManageSmallNodes, DestroyNodes DEF Next
    <3>. QED BY <2>1, <3>1 DEF Threaded
  <2>. QED BY <2>2, <2>3
<1>3. Threaded => RecordsLive
  BY DEF Threaded, Nodes, Added, RecordsLive
<1>. QED BY <1>1, <1>2, <1>3, PTL DEF Spec

-----------------------------------------------------------------------------
(***************************************************************************)
(* When the memory pool stays inside its blocks.  art_palloc_small aligns  *)
(* first and measures the room as a size_t afterwards, so it is safe only  *)
(* in pools whose blocks end at a multiple of ART_POOL_ALIGNMENT.          *)
(***************************************************************************)
\* Every pool is created with such a size, and below the cap of 4095 bytes,
\* which is none.
AlignedSizes == \A s \in CreateSizes : s % ALIGNMENT = 0 /\ s < MAX_ALLOC

\* No bump pointer is past the end of its block, which a record fits after
\* any header.
Within(p) ==
  /\ p.psize % ALIGNMENT = 0 /\ p.psize > PoolSize
  /\ \A b \in p.linked : p.last[b] <= p.psize

\* Aligning d.last does not take it past an aligned end.
LEMMA StartWithin ==
  ASSUME NEW p \in PoolType, Within(p), NEW b \in p.linked, NEW align
  PROVE  Start(p, b, align) \in Nat /\ Start(p, b, align) <= p.psize
<1>1. p.psize \in Nat /\ p.last[b] \in Nat /\ p.last[b] <= p.psize /\ p.psize % 16 = 0
  BY PoolFields DEF Within, ALIGNMENT
<1>2. ASSUME NEW a \in Nat, NEW e \in Nat, NEW d \in Nat,
             a % 16 = 0, e % 16 = 0, d <= e, a < d + 16
      PROVE  a <= e
  BY <1>2
<1>3. AlignUp(p.last[b]) \in Nat /\ AlignUp(p.last[b]) <= p.psize
  BY <1>1, <1>2, AlignUpType
<1>. QED BY <1>1, <1>3 DEF Start

LEMMA ServeWithin ==
  ASSUME NEW p \in PoolType, Within(p), NEW b \in p.linked, NEW size \in Nat, NEW align,
         Fits(p, b, size, align), NEW o, o = Serve(p, b, size, align)
  PROVE  Within(o.pool)
<1>. DEFINE m == Start(p, b, align)
            last == [p.last EXCEPT ![b] = m + size]
<1>1. m \in Nat /\ p.psize \in Nat /\ m <= p.psize /\ b \in Blocks
  BY StartWithin, PoolFields
<1>2. m + size <= p.psize
  BY <1>1 DEF Fits
<1>3. o.pool.psize = p.psize /\ o.pool.linked = p.linked /\ o.pool.last = last
  BY DEF Serve, Result, PoolType
<1>. HIDE DEF m
<1>4. \A c \in p.linked : last[c] <= p.psize
  BY <1>1, <1>2, PoolFields DEF Within
<1>. HIDE DEF last
<1>. QED BY <1>3, <1>4 DEF Within

LEMMA LinkNewWithin ==
  ASSUME NEW p \in PoolType, Within(p), NEW new \in Blocks, NEW cur, NEW size \in Nat,
         DataSize + size <= p.psize, NEW o, o = LinkNew(p, new, cur, size)
  PROVE  Within(o.pool)
<1>. DEFINE last == [p.last EXCEPT ![new] = DataSize + size]
<1>1. /\ o.pool.psize = p.psize /\ o.pool.linked = p.linked \cup {new}
      /\ o.pool.last = last
  BY DEF LinkNew, Result, PoolType
<1>2. \A c \in p.linked \cup {new} : last[c] <= p.psize
  BY PoolFields DEF Within
<1>. HIDE DEF last
<1>. QED BY <1>1, <1>2 DEF Within

\* art_palloc_small: the block it finds has the room, a new one has it too.
LEMMA SmallWithin ==
  ASSUME NEW p \in PoolType, Within(p), NEW size \in Nat, NEW align,
         DataSize + size <= p.psize, NEW o \in PallocSmall(p, size, align)
  PROVE  Within(o.pool)
<1>1. CASE p.current \notin p.linked
  <2>1. o = Failure(Broken(p, "current was freed"))
    BY <1>1 DEF PallocSmall
  <2>2. o.pool.psize = p.psize /\ o.pool.linked = p.linked /\ o.pool.last = p.last
    BY <2>1 DEF Failure, Broken, PoolType
  <2>. QED BY <2>2 DEF Within
<1>2. CASE p.current \in p.linked /\ o \in PallocBlock(p, size)
  <2>1. CASE o = Failure(p)
    BY <2>1 DEF Failure
  <2>2. ASSUME NEW new \in Blocks \ p.heap, NEW cur \in CurrentAfter(p),
               o = LinkNew(p, new, cur, size)
        PROVE  Within(o.pool)
    BY <2>2, LinkNewWithin
  <2>. QED BY <1>2, <2>1, <2>2 DEF PallocBlock
<1>3. CASE \E b \in FirstFit(p, size, align) : o = Serve(p, b, size, align)
  BY <1>3, ServeWithin DEF FirstFit, Walk
<1>. QED BY <1>1, <1>2, <1>3 DEF PallocSmall

LEMMA HandOutWithin ==
  ASSUME NEW p \in PoolType, Within(p), NEW m, NEW large
  PROVE  Within(HandOut(p, m, large).pool)
<1>. DEFINE q == HandOut(p, m, large).pool
<1>1. q.psize = p.psize /\ q.linked = p.linked /\ q.last = p.last
  BY DEF HandOut, Result, PoolType
<1>. HIDE DEF q
<1>2. Within(q)
  BY <1>1 DEF Within
<1>. QED BY <1>2 DEF q

\* The record of a large chunk is cut from the pool too.
LEMMA RecordWithin ==
  ASSUME NEW p \in PoolType, Sound(p), Within(p), p.head \in p.linked,
         p.current \in Blocks, NEW m \in Bigs \ p.heap, NEW o,
         o \in Record([p EXCEPT !.heap = p.heap \cup {m}], m)
  PROVE  Within(o.pool)
<1>. DEFINE q == [p EXCEPT !.heap = p.heap \cup {m}]
<1>1. /\ q \in PoolType /\ q.psize = p.psize /\ q.linked = p.linked /\ q.last = p.last
      /\ q.head = p.head /\ q.current = p.current /\ q.leisure = p.leisure
      /\ q.live = p.live /\ q.heap = p.heap \cup {m}
  BY DEF PoolType, Memory
<1>2. o \in Record(q, m)
  OBVIOUS
<1>. HIDE DEF q
<1>3. Within(q) /\ Sound(q)
  BY <1>1 DEF Within, Sound, Header
<1>4. CASE Reusable(q) # {}
  BY <1>1, <1>2, <1>3, <1>4, HandOutWithin DEF Record
<1>5. CASE Reusable(q) = {}
  <2>1. PICK s \in PallocSmall(q, LargeSize, TRUE) :
          o = IF s.addr = None
              THEN Failure([s.pool EXCEPT !.heap = s.pool.heap \ {m}])
              ELSE HandOut(s.pool, m, Append(s.pool.large, [rec |-> s.addr, alloc |-> m]))
    BY <1>2, <1>5 DEF Record
  <2>2. s.pool \in PoolType
    BY <1>1, <1>3, SmallSound DEF LargeSize, SmallPost
  <2>3. Within(s.pool)
    <3>1. LargeSize \in Nat /\ DataSize + LargeSize <= q.psize
      BY <1>1, <1>3, PoolFields DEF Within, LargeSize, DataSize, PoolSize
    <3>. QED BY <1>1, <1>3, <3>1, SmallWithin
  <2>4. CASE s.addr = None
    <3>1. o.pool = [s.pool EXCEPT !.heap = s.pool.heap \ {m}]
      BY <2>1, <2>4 DEF Failure
    <3>2. /\ o.pool.psize = s.pool.psize /\ o.pool.linked = s.pool.linked
          /\ o.pool.last = s.pool.last
      BY <2>2, <3>1 DEF PoolType
    <3>. QED BY <2>3, <3>2 DEF Within
  <2>5. CASE s.addr # None
    BY <2>1, <2>2, <2>3, <2>5, HandOutWithin
  <2>. QED BY <2>4, <2>5
<1>. QED BY <1>4, <1>5

LEMMA LockedWithin ==
  ASSUME NEW p \in PoolType, Sound(p), Within(p), p.head \in p.linked,
         p.current \in Blocks, NEW size \in Nat, NEW align,
         NEW o \in Locked(p, size, align)
  PROVE  Within(o.pool)
<1>1. CASE size <= p.psize - PoolSize /\ o \in PallocSmall(p, size, align)
  <2>1. DataSize + size <= p.psize
    BY <1>1, PoolFields DEF DataSize, PoolSize
  <2>. QED BY <1>1, <2>1, SmallWithin
<1>2. CASE o = Failure(p)
  BY <1>2 DEF Failure
<1>3. CASE \E m \in Bigs \ p.heap : o \in Record([p EXCEPT !.heap = p.heap \cup {m}], m)
  BY <1>3, RecordWithin
<1>. QED BY <1>1, <1>2, <1>3 DEF Locked, PallocLarge

LEMMA ZeroedWithin ==
  ASSUME NEW o, o.pool \in PoolType, Within(o.pool), NEW init
  PROVE  Within(Zeroed(o, init))
<1>. DEFINE q == Broken(o.pool, "memzero(NULL)")
<1>1. q.psize = o.pool.psize /\ q.linked = o.pool.linked /\ q.last = o.pool.last
  BY DEF Broken, PoolType
<1>. HIDE DEF q
<1>2. Within(q)
  BY <1>1 DEF Within
<1>. QED BY <1>2 DEF Zeroed, q

-----------------------------------------------------------------------------

Bounded == IInv /\ (pool.head # None => Within(pool))

LEMMA BoundedUse ==
  ASSUME Bounded, Usable
  PROVE  /\ pool \in PoolType /\ Sound(pool) /\ pool.head \in pool.linked
         /\ pool.current \in Blocks /\ Within(pool)
BY DEF Bounded, Usable, IInv, TypeOK

LEMMA CreateWithin ==
  ASSUME AlignedSizes, Bounded, NEW size \in CreateSizes, Create(size)
  PROVE  Within(pool')
<1>. DEFINE cap == Capped(size)
<1>1. size \in Nat /\ size % ALIGNMENT = 0 /\ size < MAX_ALLOC
  BY PoolAssumption DEF AlignedSizes
<1>2. cap = size /\ cap > PoolSize
  BY <1>1 DEF Capped, Create
<1>3. PICK b \in Blocks \ pool.heap :
        pool' = [NoPool(pool.heap \cup {b}, "none") EXCEPT
                   !.psize = cap, !.head = b, !.linked = {b},
                   !.last[b] = PoolSize, !.current = b]
  BY DEF Create
<1>. HIDE DEF cap
<1>4. pool'.psize = cap /\ pool'.linked = {b} /\ pool'.last[b] = PoolSize
  BY <1>3 DEF NoPool
<1>. QED BY <1>1, <1>2, <1>4 DEF Within, PoolSize

LEMMA PallocWithin ==
  ASSUME Bounded, NEW size \in Sizes, NEW init, Palloc(size, init) \/ Pnalloc(size, init)
  PROVE  Within(pool')
<1>1. size \in Nat
  BY PoolAssumption
<1>2. PICK align : \E o \in Locked(pool, size, align) : pool' = Zeroed(o, init)
  BY DEF Palloc, Pnalloc
<1>3. PICK o \in Locked(pool, size, align) : pool' = Zeroed(o, init)
  BY <1>2
<1>4. /\ pool \in PoolType /\ Sound(pool) /\ pool.head \in pool.linked
      /\ pool.current \in Blocks /\ Within(pool)
  BY BoundedUse DEF Palloc, Pnalloc
<1>5. o.pool \in PoolType
  BY <1>1, <1>4, LockedSound DEF Post
<1>6. Within(o.pool)
  BY <1>1, <1>4, LockedWithin
<1>. QED BY <1>3, <1>5, <1>6, ZeroedWithin

LEMMA PmemalignWithin ==
  ASSUME Bounded, Pmemalign
  PROVE  Within(pool')
<1>1. PICK m \in Bigs \ pool.heap :
        \E o \in Record([pool EXCEPT !.heap = pool.heap \cup {m}], m) :
          pool' = [o.pool EXCEPT !.lock = IF Reusable(pool) # {} \/ o.addr = None
                                          THEN 1 ELSE 0]
  BY DEF Pmemalign
<1>2. PICK o \in Record([pool EXCEPT !.heap = pool.heap \cup {m}], m) :
        pool' = [o.pool EXCEPT !.lock = IF Reusable(pool) # {} \/ o.addr = None
                                        THEN 1 ELSE 0]
  BY <1>1
<1>3. /\ pool \in PoolType /\ Sound(pool) /\ pool.head \in pool.linked
      /\ pool.current \in Blocks /\ Within(pool)
  BY BoundedUse DEF Pmemalign
<1>4. o.pool \in PoolType /\ Within(o.pool)
  BY <1>3, RecordSound, RecordWithin DEF Post
<1>5. /\ pool'.psize = o.pool.psize /\ pool'.linked = o.pool.linked
      /\ pool'.last = o.pool.last
  BY <1>2, <1>4 DEF PoolType
<1>. QED BY <1>4, <1>5 DEF Within

LEMMA CleanupAddWithin ==
  ASSUME Bounded, NEW size \in Sizes \cup {0}, CleanupAdd(size)
  PROVE  Within(pool')
<1>1. PICK c \in PallocSmall(pool, CleanupSize, TRUE) :
        IF c.addr = None THEN pool' = c.pool
        ELSE \E d \in IF size > 0 THEN Locked(c.pool, size, TRUE) ELSE {c} :
               pool' = IF d.addr = None THEN Zeroed(d, TRUE)
                       ELSE [d.pool EXCEPT !.cleanup = Append(d.pool.cleanup, c.addr)]
  BY DEF CleanupAdd
<1>2. /\ pool \in PoolType /\ Sound(pool) /\ pool.head \in pool.linked
      /\ pool.current \in Blocks /\ Within(pool)
  BY BoundedUse DEF CleanupAdd
<1>3. SmallPost(pool, c)
  BY <1>2, SmallSound DEF CleanupSize
<1>4. Within(c.pool)
  <2>1. CleanupSize \in Nat /\ DataSize + CleanupSize <= pool.psize
    BY <1>2, PoolFields DEF Within, CleanupSize, DataSize, PoolSize
  <2>. QED BY <1>2, <2>1, SmallWithin
<1>5. CASE c.addr = None
  BY <1>1, <1>4, <1>5
<1>6. CASE c.addr # None
  <2>1. PICK d \in IF size > 0 THEN Locked(c.pool, size, TRUE) ELSE {c} :
          pool' = IF d.addr = None THEN Zeroed(d, TRUE)
                  ELSE [d.pool EXCEPT !.cleanup = Append(d.pool.cleanup, c.addr)]
    BY <1>1, <1>6
  <2>2. /\ c.pool \in PoolType /\ Sound(c.pool)
        /\ c.pool.head \in c.pool.linked /\ c.pool.current \in Blocks
    BY <1>2, <1>3 DEF SmallPost
  <2>3. size \in Nat
    BY PoolAssumption
  <2>4. d.pool \in PoolType /\ Within(d.pool)
    <3>1. CASE d \in Locked(c.pool, size, TRUE)
      <4>1. Post(c.pool, d)
        BY <2>2, <2>3, <3>1, LockedSound
      <4>2. Within(d.pool)
        BY <1>4, <2>2, <2>3, <3>1, LockedWithin
      <4>. QED BY <4>1, <4>2 DEF Post
    <3>2. CASE d = c
      BY <1>4, <2>2, <3>2
    <3>. QED BY <2>1, <3>1, <3>2
  <2>5. CASE d.addr = None
    BY <2>1, <2>4, <2>5, ZeroedWithin
  <2>6. CASE d.addr # None
    <3>. DEFINE list == Append(d.pool.cleanup, c.addr)
    <3>1. pool' = [d.pool EXCEPT !.cleanup = list]
      BY <2>1, <2>6
    <3>. HIDE DEF list
    <3>2. /\ pool'.psize = d.pool.psize /\ pool'.linked = d.pool.linked
          /\ pool'.last = d.pool.last
      BY <2>4, <3>1 DEF PoolType
    <3>. QED BY <2>4, <3>2 DEF Within
  <2>. QED BY <2>5, <2>6
<1>. QED BY <1>5, <1>6

\* The calls that give memory back move no bump pointer up but that of a reset.
LEMMA ReclaimWithin ==
  ASSUME Bounded, (\E m \in Bigs : Pfree(m)) \/ Reset \/ ManageSmall
  PROVE  Within(pool')
<1>1. pool \in PoolType /\ Within(pool)
  BY BoundedUse DEF Pfree, Reset, ManageSmall
<1>2. CASE \E m \in Bigs : Pfree(m)
  <2>1. /\ pool'.psize = pool.psize /\ pool'.linked = pool.linked
        /\ pool'.last = pool.last
    BY <1>1, <1>2 DEF Pfree, PoolType
  <2>. QED BY <1>1, <2>1 DEF Within
<1>3. CASE Reset
  <2>1. /\ pool'.psize = pool.psize /\ pool'.linked = pool.linked
        /\ pool'.last = [b \in Blocks |-> IF b \in pool.linked THEN PoolSize
                                                             ELSE pool.last[b]]
    BY <1>1, <1>3 DEF Reset, PoolType
  <2>2. \A b \in pool.linked : pool'.last[b] = PoolSize
    BY <1>1, <2>1, PoolFields
  <2>. QED BY <1>1, <2>1, <2>2, PoolFields DEF Within, PoolSize
<1>4. CASE ManageSmall
  <2>1. PICK g \in Freed(pool) :
          /\ pool'.psize = pool.psize /\ pool'.linked = pool.linked \ g
          /\ pool'.last = [b \in Blocks |-> IF b \in g THEN 0 ELSE pool.last[b]]
    BY <1>1, <1>4 DEF ManageSmall, PoolType
  <2>2. \A b \in pool.linked \ g : pool'.last[b] = pool.last[b]
    BY <1>1, <2>1, PoolFields
  <2>. QED BY <1>1, <2>1, <2>2 DEF Within
<1>. QED BY <1>2, <1>3, <1>4

LEMMA DestroyWithin ==
  ASSUME Bounded, Destroy, pool'.head # None
  PROVE  Within(pool')
<1>1. pool \in PoolType /\ Within(pool)
  BY BoundedUse DEF Destroy
<1>2. pool' = Broken(pool, "cleanup record reused")
  BY DEF Destroy, NoPool
<1>3. /\ pool'.psize = pool.psize /\ pool'.linked = pool.linked
      /\ pool'.last = pool.last
  BY <1>1, <1>2 DEF Broken, PoolType
<1>. QED BY <1>1, <1>3 DEF Within

LEMMA BoundedStep ==
  ASSUME AlignedSizes, Bounded, [Next]_vars
  PROVE  Bounded'
<1>1. IInv'
  BY StepOfThePool DEF Bounded
<1>2. CASE UNCHANGED vars
  BY <1>1, <1>2 DEF vars, Bounded, Within
<1>3. CASE Next
  BY <1>1, <1>3, CreateWithin, PallocWithin, PmemalignWithin, CleanupAddWithin,
     ReclaimWithin, DestroyWithin DEF Next, Bounded
<1>. QED BY <1>2, <1>3

\* Every region that art_palloc, art_pnalloc and the pool's own records take
\* ends inside its block, if every pool is created with a multiple of 16 that
\* art_create_pool does not cut to 4095; the run pool_overrun shows what
\* happens otherwise.
THEOREM RegionsEndInside ==
  ASSUME AlignedSizes
  PROVE  Spec => []InBlock
<1>1. Init => Bounded
  <2>. SUFFICES ASSUME Init PROVE Bounded
    OBVIOUS
  <2>1. /\ pool \in PoolType /\ pool.head = None /\ pool.current = None
        /\ pool.linked = {} /\ pool.live = {}
    BY NoPoolType DEF Init
  <2>2. Sound(pool)
    BY <2>1, NoLiveSound
  <2>. QED BY <2>1, <2>2 DEF Bounded, IInv, TypeOK
<1>2. Bounded /\ [Next]_vars => Bounded'
  BY BoundedStep
<1>3. ASSUME Bounded PROVE InBlock
  <2>. SUFFICES ASSUME NEW r \in pool.live, r.blk \in Blocks PROVE r.hi <= pool.psize
    BY DEF InBlock
  <2>1. /\ pool \in PoolType /\ r.blk \in pool.linked /\ r.hi <= pool.last[r.blk]
        /\ pool.head # None
    BY <1>3 DEF Bounded, IInv, TypeOK, Sound
  <2>2. pool.last[r.blk] <= pool.psize
    BY <1>3, <2>1 DEF Bounded, Within
  <2>3. r.hi \in Nat /\ pool.last[r.blk] \in Nat /\ pool.psize \in Nat
    BY <2>1, PoolFields DEF Region
  <2>. QED BY <2>1, <2>2, <2>3
<1>. QED BY <1>1, <1>2, <1>3, PTL DEF Spec

-----------------------------------------------------------------------------
(***************************************************************************)
(* The block chain and its failure counts: pool->current only moves past   *)
(* blocks that have failed often enough.                                   *)
(***************************************************************************)

\* d.next strings the linked blocks from the head on: `ahead` orders them.
Ordered(p) ==
  /\ p.head # None => p.ahead[p.head] = {}
  /\ \A b \in p.linked : p.ahead[b] \subseteq p.linked /\ b \notin p.ahead[b]
  /\ \A b \in p.linked : \A c \in p.ahead[b] : p.ahead[c] \subseteq p.ahead[b]
  /\ \A b, c \in p.linked : b = c \/ b \in p.ahead[c] \/ c \in p.ahead[b]

\* A block before current has failed MaxFailed + 2 times, one from current on
\* less often, and no less often than those behind it.
Counted(p) ==
  /\ \A b \in p.ahead[p.current] : p.failed[b] = MaxFailed + 2
  /\ \A b \in Walk(p) : p.failed[b] <= MaxFailed + 1
  /\ \A b \in Walk(p) : \A c \in p.ahead[b] \cap Walk(p) : p.failed[b] <= p.failed[c]

Chain(p) == Ordered(p) /\ (p.current \in p.linked => Counted(p))

\* What Chain looks at.
SameChain(p, q) ==
  /\ q.head = p.head /\ q.linked = p.linked /\ q.ahead = p.ahead
  /\ q.failed = p.failed /\ q.current = p.current

LEMMA SameChainKeeps ==
  ASSUME NEW p, NEW q, Chain(p), SameChain(p, q)
  PROVE  Chain(q)
<1>1. Walk(q) = Walk(p)
  BY DEF SameChain, Walk
<1>2. Ordered(q)
  BY DEF SameChain, Chain, Ordered
<1>3. ASSUME q.current \in q.linked PROVE Counted(q)
  BY <1>1, <1>3 DEF SameChain, Chain, Counted
<1>. QED BY <1>2, <1>3 DEF Chain

LEMMA EmptyChain ==
  ASSUME NEW p, p.head = None, p.linked = {}
  PROVE  Chain(p)
BY DEF Chain, Ordered

\* A new block at the end of the chain: the blocks from current to the one
\* before the end have failed once more, and current moves past those that
\* failed often enough.
LEMMA LinkNewChain ==
  ASSUME NEW p \in PoolType, Chain(p), p.current \in p.linked, p.head \in p.linked,
         NEW new \in Blocks, new \notin p.linked,
         NEW cur \in CurrentAfter(p), NEW size \in Nat,
         NEW o, o = LinkNew(p, new, cur, size)
  PROVE  Chain(o.pool)
<1>. DEFINE W == Walk(p)
            L == LastBlock(p)
            q == o.pool
            ahead == [p.ahead EXCEPT ![new] = p.linked]
            failed == [b \in Blocks |-> IF b = new THEN 0
                                        ELSE IF b \in W \ L THEN p.failed[b] + 1
                                        ELSE p.failed[b]]
<1>1. /\ q.head = p.head /\ q.linked = p.linked \cup {new} /\ q.ahead = ahead
      /\ q.failed = failed /\ q.current = cur
  BY DEF LinkNew, Result, PoolType
<1>2. /\ p.linked \subseteq Blocks /\ p.ahead \in [Blocks -> SUBSET Blocks]
      /\ p.failed \in [Blocks -> Nat] /\ MaxFailed \in Nat
  BY PoolFields, PoolAssumption
<1>3. ahead[new] = p.linked /\ \A b \in p.linked : ahead[b] = p.ahead[b]
  BY <1>2
<1>4. failed[new] = 0 /\ \A b \in p.linked : failed[b] = IF b \in W \ L THEN p.failed[b] + 1
                                                         ELSE p.failed[b]
  BY <1>2
<1>5. /\ W \subseteq p.linked
      /\ \A b \in p.linked : b \in W <=> b = p.current \/ p.current \in p.ahead[b]
      /\ \A b \in p.linked : b \in L <=> \A c \in p.linked : b \notin p.ahead[c]
  BY DEF Walk, LastBlock
<1>. HIDE DEF W, L, q, ahead, failed
<1>6. /\ \A b \in p.linked : p.ahead[b] \subseteq p.linked /\ b \notin p.ahead[b]
      /\ \A b \in p.linked : \A c \in p.ahead[b] : p.ahead[c] \subseteq p.ahead[b]
      /\ \A b, c \in p.linked : b = c \/ b \in p.ahead[c] \/ c \in p.ahead[b]
  BY DEF Chain, Ordered
<1>7. Ordered(q)
  <2>1. q.ahead[q.head] = {}
    BY <1>1, <1>2, <1>3, PoolAssumption DEF Chain, Ordered, Memory
  <2>2. \A b \in q.linked : ahead[b] \subseteq q.linked /\ b \notin ahead[b]
    BY <1>1, <1>3 DEF Chain, Ordered
  <2>3. \A b \in q.linked : \A c \in ahead[b] : c \in p.linked /\ ahead[c] \subseteq ahead[b]
    BY <1>1, <1>3 DEF Chain, Ordered
  <2>4. \A b, c \in q.linked : b = c \/ b \in ahead[c] \/ c \in ahead[b]
    BY <1>1, <1>3, <1>6
  <2>. QED BY <1>1, <2>1, <2>2, <2>3, <2>4 DEF Ordered
<1>8. /\ \A b \in p.ahead[p.current] : p.failed[b] = MaxFailed + 2
      /\ \A b \in W : p.failed[b] <= MaxFailed + 1
      /\ \A b \in W : \A c \in p.ahead[b] \cap W : p.failed[b] <= p.failed[c]
  BY DEF Chain, Counted, W
<1>9. \A b \in p.linked : p.failed[b] \in Nat
  BY <1>2
<1>10. \A b \in p.ahead[p.current] : b \notin W
  BY <1>5, <1>6
\* Where current is afterwards.
<1>11. /\ cur \in W /\ p.ahead[p.current] \subseteq p.ahead[cur]
       /\ \A b \in p.ahead[cur] \cap W : b \notin L /\ p.failed[b] = MaxFailed + 1
       /\ \A b \in W : b \in p.ahead[cur] \/ b \in L \/ p.failed[b] <= MaxFailed
  <2>1. \A b : b \in Exhausted(p) <=> b \in W /\ b \notin L /\ p.failed[b] > MaxFailed
    BY DEF Exhausted, W, L
  <2>2. CASE Exhausted(p) = {}
    <3>1. cur = p.current
      BY <2>2 DEF CurrentAfter
    <3>2. \A b \in p.ahead[cur] : b \notin W
      BY <1>10, <3>1
    <3>3. \A b \in W : b \in L \/ p.failed[b] <= MaxFailed
      BY <1>2, <1>5, <1>9, <2>1, <2>2
    <3>. QED BY <1>5, <3>1, <3>2, <3>3
  <2>3. CASE Exhausted(p) # {}
    <3>1. PICK e \in Exhausted(p) : /\ \A f \in Exhausted(p) : e \notin p.ahead[f]
                                    /\ cur \in Successor(p, e)
      BY <2>3 DEF CurrentAfter
    <3>2. cur \in p.linked /\ e \in p.ahead[cur] /\ \A d \in p.ahead[cur] : e \notin p.ahead[d]
      BY <3>1 DEF Successor
    <3>3. e \in W /\ e \notin L /\ p.failed[e] > MaxFailed /\ e \in p.linked
      BY <1>5, <2>1, <3>1
    <3>4. cur \in W /\ p.ahead[p.current] \subseteq p.ahead[cur]
      BY <1>5, <1>6, <3>2, <3>3
    <3>5. \A b \in p.ahead[cur] : b = e \/ b \in p.ahead[e]
      BY <1>6, <3>2, <3>3
    <3>6. ASSUME NEW b \in p.ahead[cur] \cap W PROVE b \notin L /\ p.failed[b] = MaxFailed + 1
      <4>1. b \in p.linked /\ b \notin L
        BY <1>5, <3>2, <3>6
      <4>2. p.failed[e] <= p.failed[b] /\ p.failed[b] <= MaxFailed + 1
        BY <1>8, <1>9, <3>3, <3>5, <3>6, <4>1
      <4>. QED BY <1>2, <1>9, <3>3, <4>1, <4>2
    <3>7. ASSUME NEW b \in W, b \notin p.ahead[cur], b \notin L PROVE p.failed[b] <= MaxFailed
      <4>1. b \in p.linked /\ b # e /\ e \in p.ahead[b]
        BY <1>5, <1>6, <3>2, <3>3, <3>7
      <4>2. b \notin Exhausted(p)
        BY <3>1, <4>1
      <4>. QED BY <1>2, <1>9, <2>1, <3>7, <4>1, <4>2
    <3>. QED BY <3>4, <3>6, <3>7
  <2>. QED BY <2>2, <2>3
<1>12. cur \in p.linked /\ ahead[cur] = p.ahead[cur]
  BY <1>3, <1>5, <1>11
<1>13. ASSUME NEW b \in Walk(q), b # new
       PROVE  b \in p.linked /\ b \in W /\ b \notin p.ahead[cur]
  <2>1. b \in p.linked /\ (b = cur \/ cur \in p.ahead[b])
    BY <1>1, <1>3, <1>13 DEF Walk
  <2>. QED BY <1>5, <1>6, <1>11, <1>12, <2>1
<1>14. Counted(q)
  <2>1. ASSUME NEW b \in p.ahead[cur] PROVE failed[b] = MaxFailed + 2
    <3>1. b \in p.linked
      BY <1>6, <1>12
    <3>2. CASE b \in W
      BY <1>2, <1>4, <1>11, <3>1, <3>2
    <3>3. CASE b \notin W
      <4>1. b \in p.ahead[p.current]
        BY <1>5, <1>6, <3>1, <3>3
      <4>. QED BY <1>4, <1>8, <3>1, <3>3, <4>1
    <3>. QED BY <3>2, <3>3
  <2>2. ASSUME NEW b \in Walk(q) PROVE failed[b] <= MaxFailed + 1
    <3>1. CASE b = new
      BY <1>2, <1>4, <3>1
    <3>2. CASE b \in p.linked /\ b \in W /\ b \notin p.ahead[cur]
      BY <1>2, <1>4, <1>8, <1>9, <1>11, <3>2
    <3>. QED BY <1>13, <3>1, <3>2
  <2>3. ASSUME NEW b \in Walk(q), NEW c \in ahead[b] \cap Walk(q)
        PROVE  failed[b] <= failed[c]
    <3>1. c \in p.linked /\ c \in W
      BY <1>1, <1>3, <1>7, <1>13, <2>3 DEF Ordered, Walk
    <3>2. CASE b = new
      BY <1>4, <1>9, <3>1, <3>2
    <3>3. CASE b \in p.linked /\ b \in W
      <4>1. c \in p.ahead[b] /\ c \notin L
        BY <1>3, <1>5, <3>1, <3>3
      <4>2. p.failed[b] <= p.failed[c]
        BY <1>8, <3>1, <3>3, <4>1
      <4>. QED BY <1>4, <1>9, <3>1, <3>3, <4>1, <4>2
    <3>. QED BY <1>13, <3>2, <3>3
  <2>. QED BY <1>1, <1>12, <2>1, <2>2, <2>3 DEF Counted
<1>. QED BY <1>7, <1>14 DEF Chain, q

LEMMA SmallChain ==
  ASSUME NEW p \in PoolType, Sound(p), Chain(p), p.head \in p.linked, NEW size \in Nat,
         NEW align, NEW o \in PallocSmall(p, size, align)
  PROVE  Chain(o.pool)
<1>1. CASE p.current \notin p.linked
  <2>1. o = Failure(Broken(p, "current was freed"))
    BY <1>1 DEF PallocSmall
  <2>2. SameChain(p, o.pool)
    BY <2>1 DEF Failure, Broken, PoolType, SameChain
  <2>. QED BY <2>2, SameChainKeeps
<1>2. CASE p.current \in p.linked /\ o \in PallocBlock(p, size)
  <2>1. CASE o = Failure(p)
    BY <2>1 DEF Failure
  <2>2. ASSUME NEW new \in Blocks \ p.heap, NEW cur \in CurrentAfter(p),
               o = LinkNew(p, new, cur, size)
        PROVE  Chain(o.pool)
    <3>1. new \notin p.linked
      BY DEF Sound
    <3>. QED BY <1>2, <2>2, <3>1, LinkNewChain
  <2>. QED BY <1>2, <2>1, <2>2 DEF PallocBlock
<1>3. ASSUME NEW b \in FirstFit(p, size, align), o = Serve(p, b, size, align)
      PROVE  Chain(o.pool)
  <2>1. SameChain(p, o.pool)
    BY <1>3 DEF Serve, Result, PoolType, SameChain
  <2>. QED BY <2>1, SameChainKeeps
<1>. QED BY <1>1, <1>2, <1>3 DEF PallocSmall

LEMMA HandOutChain ==
  ASSUME NEW p \in PoolType, Chain(p), NEW m, NEW large
  PROVE  Chain(HandOut(p, m, large).pool)
<1>1. SameChain(p, HandOut(p, m, large).pool)
  BY DEF HandOut, Result, PoolType, SameChain
<1>. QED BY <1>1, SameChainKeeps

LEMMA RecordChain ==
  ASSUME NEW p \in PoolType, Sound(p), Chain(p), p.head \in p.linked,
         p.current \in Blocks, NEW m \in Bigs \ p.heap, NEW o,
         o \in Record([p EXCEPT !.heap = p.heap \cup {m}], m)
  PROVE  Chain(o.pool)
<1>. DEFINE q == [p EXCEPT !.heap = p.heap \cup {m}]
<1>1. /\ q \in PoolType /\ q.psize = p.psize /\ q.linked = p.linked /\ q.last = p.last
      /\ q.head = p.head /\ q.current = p.current /\ q.leisure = p.leisure
      /\ q.live = p.live /\ q.heap = p.heap \cup {m} /\ SameChain(p, q)
  BY DEF PoolType, Memory, SameChain
<1>2. o \in Record(q, m)
  OBVIOUS
<1>. HIDE DEF q
<1>3. Chain(q) /\ Sound(q)
  BY <1>1, SameChainKeeps DEF Sound, Header
<1>4. CASE Reusable(q) # {}
  BY <1>1, <1>2, <1>3, <1>4, HandOutChain DEF Record
<1>5. CASE Reusable(q) = {}
  <2>1. PICK s \in PallocSmall(q, LargeSize, TRUE) :
          o = IF s.addr = None
              THEN Failure([s.pool EXCEPT !.heap = s.pool.heap \ {m}])
              ELSE HandOut(s.pool, m, Append(s.pool.large, [rec |-> s.addr, alloc |-> m]))
    BY <1>2, <1>5 DEF Record
  <2>2. s.pool \in PoolType /\ Chain(s.pool)
    BY <1>1, <1>3, SmallSound, SmallChain DEF LargeSize, SmallPost
  <2>3. CASE s.addr = None
    <3>1. o.pool = [s.pool EXCEPT !.heap = s.pool.heap \ {m}]
      BY <2>1, <2>3 DEF Failure
    <3>2. SameChain(s.pool, o.pool)
      BY <2>2, <3>1 DEF PoolType, SameChain
    <3>. QED BY <2>2, <3>2, SameChainKeeps
  <2>4. CASE s.addr # None
    BY <2>1, <2>2, <2>4, HandOutChain
  <2>. QED BY <2>3, <2>4
<1>. QED BY <1>4, <1>5

LEMMA LockedChain ==
  ASSUME NEW p \in PoolType, Sound(p), Chain(p), p.head \in p.linked,
         p.current \in Blocks, NEW size \in Nat, NEW align, NEW o \in Locked(p, size, align)
  PROVE  Chain(o.pool)
<1>1. CASE o \in PallocSmall(p, size, align)
  BY <1>1, SmallChain
<1>2. CASE o = Failure(p)
  BY <1>2 DEF Failure
<1>3. CASE \E m \in Bigs \ p.heap : o \in Record([p EXCEPT !.heap = p.heap \cup {m}], m)
  BY <1>3, RecordChain
<1>. QED BY <1>1, <1>2, <1>3 DEF Locked, PallocLarge

LEMMA ZeroedChain ==
  ASSUME NEW o, o.pool \in PoolType, Chain(o.pool), NEW init
  PROVE  Chain(Zeroed(o, init))
<1>1. SameChain(o.pool, Broken(o.pool, "memzero(NULL)"))
  BY DEF Broken, PoolType, SameChain
<1>. QED BY <1>1, SameChainKeeps DEF Zeroed

-----------------------------------------------------------------------------

Chained == IInv /\ Chain(pool)

LEMMA ChainedUse ==
  ASSUME Chained, Usable
  PROVE  /\ pool \in PoolType /\ Sound(pool) /\ pool.head \in pool.linked
         /\ pool.current \in Blocks /\ Chain(pool)
BY DEF Chained, Usable, IInv, TypeOK

LEMMA CreateChain ==
  ASSUME Chained, NEW size \in CreateSizes, Create(size)
  PROVE  Chain(pool')
<1>1. PICK b \in Blocks \ pool.heap :
        pool' = [NoPool(pool.heap \cup {b}, "none") EXCEPT
                   !.psize = Capped(size), !.head = b, !.linked = {b},
                   !.last[b] = PoolSize, !.current = b]
  BY DEF Create
<1>2. /\ pool'.head = b /\ pool'.linked = {b} /\ pool'.current = b
      /\ pool'.ahead[b] = {} /\ pool'.failed[b] = 0
  BY <1>1 DEF NoPool
<1>3. Ordered(pool')
  BY <1>2 DEF Ordered
<1>4. Walk(pool') = {b}
  BY <1>2 DEF Walk
<1>5. Counted(pool')
  BY <1>2, <1>4, PoolAssumption DEF Counted
<1>. QED BY <1>3, <1>5 DEF Chain

LEMMA PallocChain ==
  ASSUME Chained, NEW size \in Sizes, NEW init, Palloc(size, init) \/ Pnalloc(size, init)
  PROVE  Chain(pool')
<1>1. size \in Nat
  BY PoolAssumption
<1>2. PICK align : \E o \in Locked(pool, size, align) : pool' = Zeroed(o, init)
  BY DEF Palloc, Pnalloc
<1>3. PICK o \in Locked(pool, size, align) : pool' = Zeroed(o, init)
  BY <1>2
<1>4. /\ pool \in PoolType /\ Sound(pool) /\ pool.head \in pool.linked
      /\ pool.current \in Blocks /\ Chain(pool)
  BY ChainedUse DEF Palloc, Pnalloc
<1>5. o.pool \in PoolType /\ Chain(o.pool)
  BY <1>1, <1>4, LockedSound, LockedChain DEF Post
<1>. QED BY <1>3, <1>5, ZeroedChain

LEMMA PmemalignChain ==
  ASSUME Chained, Pmemalign
  PROVE  Chain(pool')
<1>1. PICK m \in Bigs \ pool.heap :
        \E o \in Record([pool EXCEPT !.heap = pool.heap \cup {m}], m) :
          pool' = [o.pool EXCEPT !.lock = IF Reusable(pool) # {} \/ o.addr = None
                                          THEN 1 ELSE 0]
  BY DEF Pmemalign
<1>2. PICK o \in Record([pool EXCEPT !.heap = pool.heap \cup {m}], m) :
        pool' = [o.pool EXCEPT !.lock = IF Reusable(pool) # {} \/ o.addr = None
                                        THEN 1 ELSE 0]
  BY <1>1
<1>3. /\ pool \in PoolType /\ Sound(pool) /\ pool.head \in pool.linked
      /\ pool.current \in Blocks /\ Chain(pool)
  BY ChainedUse DEF Pmemalign
<1>4. o.pool \in PoolType /\ Chain(o.pool)
  BY <1>3, RecordSound, RecordChain DEF Post
<1>5. SameChain(o.pool, pool')
  BY <1>2, <1>4 DEF PoolType, SameChain
<1>. QED BY <1>4, <1>5, SameChainKeeps

LEMMA CleanupAddChain ==
  ASSUME Chained, NEW size \in Sizes \cup {0}, CleanupAdd(size)
  PROVE  Chain(pool')
<1>1. PICK c \in PallocSmall(pool, CleanupSize, TRUE) :
        IF c.addr = None THEN pool' = c.pool
        ELSE \E d \in IF size > 0 THEN Locked(c.pool, size, TRUE) ELSE {c} :
               pool' = IF d.addr = None THEN Zeroed(d, TRUE)
                       ELSE [d.pool EXCEPT !.cleanup = Append(d.pool.cleanup, c.addr)]
  BY DEF CleanupAdd
<1>2. /\ pool \in PoolType /\ Sound(pool) /\ pool.head \in pool.linked
      /\ pool.current \in Blocks /\ Chain(pool)
  BY ChainedUse DEF CleanupAdd
<1>3. SmallPost(pool, c) /\ Chain(c.pool)
  BY <1>2, SmallSound, SmallChain DEF CleanupSize
<1>4. CASE c.addr = None
  BY <1>1, <1>3, <1>4
<1>5. CASE c.addr # None
  <2>1. PICK d \in IF size > 0 THEN Locked(c.pool, size, TRUE) ELSE {c} :
          pool' = IF d.addr = None THEN Zeroed(d, TRUE)
                  ELSE [d.pool EXCEPT !.cleanup = Append(d.pool.cleanup, c.addr)]
    BY <1>1, <1>5
  <2>2. /\ c.pool \in PoolType /\ Sound(c.pool)
        /\ c.pool.head \in c.pool.linked /\ c.pool.current \in Blocks
    BY <1>2, <1>3 DEF SmallPost
  <2>3. size \in Nat
    BY PoolAssumption
  <2>4. d.pool \in PoolType /\ Chain(d.pool)
    <3>1. CASE d \in Locked(c.pool, size, TRUE)
      <4>1. Post(c.pool, d)
        BY <2>2, <2>3, <3>1, LockedSound
      <4>2. Chain(d.pool)
        BY <1>3, <2>2, <2>3, <3>1, LockedChain
      <4>. QED BY <4>1, <4>2 DEF Post
    <3>2. CASE d = c
      BY <1>3, <2>2, <3>2
    <3>. QED BY <2>1, <3>1, <3>2
  <2>5. CASE d.addr = None
    BY <2>1, <2>4, <2>5, ZeroedChain
  <2>6. CASE d.addr # None
    <3>. DEFINE list == Append(d.pool.cleanup, c.addr)
    <3>1. pool' = [d.pool EXCEPT !.cleanup = list]
      BY <2>1, <2>6
    <3>. HIDE DEF list
    <3>2. SameChain(d.pool, pool')
      BY <2>4, <3>1 DEF PoolType, SameChain
    <3>. QED BY <2>4, <3>2, SameChainKeeps
  <2>. QED BY <2>5, <2>6
<1>. QED BY <1>4, <1>5

LEMMA PfreeChain ==
  ASSUME Chained, NEW m \in Bigs, Pfree(m)
  PROVE  Chain(pool')
<1>1. pool \in PoolType /\ Chain(pool)
  BY ChainedUse DEF Pfree
<1>2. SameChain(pool, pool')
  BY <1>1 DEF Pfree, PoolType, SameChain
<1>. QED BY <1>1, <1>2, SameChainKeeps

\* art_reset_pool starts over from the first block.
LEMMA ResetChain ==
  ASSUME Chained, Reset
  PROVE  Chain(pool')
<1>1. pool \in PoolType /\ Chain(pool) /\ pool.head \in pool.linked
  BY ChainedUse DEF Reset
<1>2. /\ pool'.head = pool.head /\ pool'.linked = pool.linked /\ pool'.ahead = pool.ahead
      /\ pool'.current = pool.head
      /\ pool'.failed = [b \in Blocks |-> IF b \in pool.linked THEN 0 ELSE pool.failed[b]]
  BY <1>1 DEF Reset, PoolType
<1>3. \A b \in pool.linked : pool'.failed[b] = 0
  BY <1>1, <1>2, PoolFields
<1>4. pool.head # None
  BY DEF Reset, Usable
<1>5. Ordered(pool')
  BY <1>1, <1>2 DEF Chain, Ordered
<1>6. pool'.ahead[pool'.current] = {} /\ Walk(pool') \subseteq pool.linked
  BY <1>1, <1>2, <1>4 DEF Chain, Ordered, Walk
<1>7. Counted(pool')
  BY <1>3, <1>6, PoolAssumption DEF Counted
<1>. QED BY <1>5, <1>7 DEF Chain

\* art_manage_small takes blocks out of the chain and leaves the counts of the
\* others; it may take current.
LEMMA ManageSmallChain ==
  ASSUME Chained, ManageSmall
  PROVE  Chain(pool')
<1>1. pool \in PoolType /\ Chain(pool) /\ pool.head \in pool.linked
  BY ChainedUse DEF ManageSmall
<1>2. PICK g \in Freed(pool) :
        /\ pool'.head = pool.head /\ pool'.linked = pool.linked \ g
        /\ pool'.ahead = [b \in Blocks |-> IF b \in g THEN {} ELSE pool.ahead[b] \ g]
        /\ pool'.failed = [b \in Blocks |-> IF b \in g THEN 0 ELSE pool.failed[b]]
        /\ pool'.current = pool.current
  BY <1>1 DEF ManageSmall, PoolType
<1>3. \A b \in pool.linked \ g : /\ pool'.ahead[b] = pool.ahead[b] \ g
                                 /\ pool'.failed[b] = pool.failed[b]
  BY <1>1, <1>2, PoolFields
<1>4. pool.head \notin g
  BY DEF Freed, Idle
<1>5. Ordered(pool')
  <2>1. pool'.head # None => pool'.ahead[pool'.head] = {}
    BY <1>1, <1>2, <1>3, <1>4 DEF Chain, Ordered
  <2>2. \A b \in pool'.linked : pool'.ahead[b] \subseteq pool'.linked /\ b \notin pool'.ahead[b]
    BY <1>1, <1>2, <1>3 DEF Chain, Ordered
  <2>3. \A b \in pool'.linked : \A c \in pool'.ahead[b] : pool'.ahead[c] \subseteq pool'.ahead[b]
    <3>. SUFFICES ASSUME NEW b \in pool.linked \ g, NEW c \in pool'.ahead[b]
                  PROVE  pool'.ahead[c] \subseteq pool'.ahead[b]
      BY <1>2
    <3>1. c \in pool.ahead[b] /\ c \in pool.linked \ g
      BY <1>1, <1>2, <1>3 DEF Chain, Ordered
    <3>2. pool.ahead[c] \subseteq pool.ahead[b]
      BY <1>1, <3>1 DEF Chain, Ordered
    <3>. QED BY <1>3, <3>1, <3>2
  <2>4. \A b, c \in pool'.linked : b = c \/ b \in pool'.ahead[c] \/ c \in pool'.ahead[b]
    BY <1>1, <1>2, <1>3 DEF Chain, Ordered
  <2>. QED BY <2>1, <2>2, <2>3, <2>4 DEF Ordered
<1>6. ASSUME pool'.current \in pool'.linked PROVE Counted(pool')
  <2>1. Walk(pool') \subseteq Walk(pool) \ g /\ Walk(pool) \subseteq pool.linked
    BY <1>2, <1>3, <1>6 DEF Walk
  <2>2. \A b \in pool'.ahead[pool'.current] : b \in pool.linked \ g /\ b \in pool.ahead[pool.current]
    BY <1>1, <1>2, <1>3, <1>6 DEF Chain, Ordered
  <2>. QED BY <1>1, <1>2, <1>3, <1>6, <2>1, <2>2 DEF Chain, Counted
<1>. QED BY <1>5, <1>6 DEF Chain

LEMMA DestroyChain ==
  ASSUME Chained, Destroy
  PROVE  Chain(pool')
<1>1. pool \in PoolType /\ Chain(pool)
  BY ChainedUse DEF Destroy
<1>2. CASE pool' = Broken(pool, "cleanup record reused")
  <2>1. SameChain(pool, pool')
    BY <1>1, <1>2 DEF Broken, PoolType, SameChain
  <2>. QED BY <1>1, <2>1, SameChainKeeps
<1>3. CASE pool' = NoPool(pool.heap \ (Allocs(pool) \cup pool.linked), "none")
  BY <1>3, EmptyChain DEF NoPool
<1>. QED BY <1>2, <1>3 DEF Destroy

\* art_palloc_small's walk starts behind the blocks that MaxFailed + 2
\* requests found full, and behind no other, through every order of requests,
\* resets and passes of art_manage_small.
THEOREM OnlyExhaustedSkipped == Spec => []SkipsOnlyExhausted
<1>1. Init => Chained
  <2>. SUFFICES ASSUME Init PROVE Chained
    OBVIOUS
  <2>1. /\ pool \in PoolType /\ pool.head = None /\ pool.current = None
        /\ pool.linked = {} /\ pool.live = {}
    BY NoPoolType DEF Init
  <2>2. Sound(pool)
    BY <2>1, NoLiveSound
  <2>. QED BY <2>1, <2>2, EmptyChain DEF Chained, IInv, TypeOK
<1>2. Chained /\ [Next]_vars => Chained'
  <2>. SUFFICES ASSUME Chained, [Next]_vars PROVE Chained'
    OBVIOUS
  <2>1. IInv'
    BY StepOfThePool DEF Chained
  <2>2. CASE UNCHANGED vars
    BY <2>1, <2>2 DEF vars, Chained, Chain, Ordered, Counted, Walk
  <2>3. CASE Next
    <3>1. Chain(pool')
      BY <2>3, CreateChain, PallocChain, PmemalignChain, PfreeChain, CleanupAddChain,
         ResetChain, ManageSmallChain, DestroyChain DEF Next
    <3>. QED BY <2>1, <3>1 DEF Chained
  <2>. QED BY <2>2, <2>3
<1>3. ASSUME Chained PROVE SkipsOnlyExhausted
  <2>. SUFFICES ASSUME pool.current \in pool.linked, NEW b \in pool.linked
                PROVE  IF b \in pool.ahead[pool.current] THEN pool.failed[b] = MaxFailed + 2
                       ELSE pool.failed[b] < MaxFailed + 2
    BY DEF SkipsOnlyExhausted
  <2>1. Counted(pool) /\ Ordered(pool) /\ pool.failed[b] \in Nat /\ MaxFailed \in Nat
    BY <1>3, PoolFields, PoolAssumption DEF Chained, Chain, IInv, TypeOK
  <2>2. b \in pool.ahead[pool.current] \/ b \in Walk(pool)
    BY <2>1 DEF Ordered, Walk
  <2>3. CASE b \in pool.ahead[pool.current]
    BY <2>1, <2>3 DEF Counted
  <2>4. CASE b \notin pool.ahead[pool.current]
    BY <2>1, <2>2, <2>4 DEF Counted
  <2>. QED BY <2>3, <2>4
<1>. QED BY <1>1, <1>2, <1>3, PTL DEF Spec

=============================================================================
