-------------------------- MODULE ContainersProofs --------------------------
(***************************************************************************)
(* The list and the array of Containers, for pools and requests of any     *)
(* size: proofs of ListWhole and ArrayInItsMemory, and that the one is the *)
(* promise of Items and the other that of Row.  The inductive invariant    *)
(* IInv names the parts on the list and those on the free chain as two     *)
(* sequences, which Chain is then shown to compute (ChainIs).              *)
(***************************************************************************)
EXTENDS Containers, SequenceTheorems, FiniteSetTheorems, WellFoundedInduction, TLAPS

-----------------------------------------------------------------------------
(* A set of naturals has a least element: what the proofs use to argue by   *)
(* induction, on the least of the counterexamples.                          *)
LEMMA LeastNat ==
  ASSUME NEW T \in SUBSET Nat, T # {}
  PROVE  \E x \in T : \A y \in T : x <= y
<1> DEFINE R == OpToRel(<, Nat)
<1>1. R = {ss \in Nat \X Nat : ss[1] < ss[2]}
  BY DEF OpToRel
<1>2. IsWellFoundedOn(R, Nat)
  BY NatLessThanWellFounded
<1> HIDE DEF R
<1>3. PICK x \in T : \A y \in T : <<y, x>> \notin R
  BY <1>2, WFMin
<1>4. ASSUME NEW y \in T
      PROVE  ~(y < x)
  <2>1. <<y, x>> \in Nat \X Nat /\ <<y, x>>[1] = y /\ <<y, x>>[2] = x
    OBVIOUS
  <2>2. <<y, x>> \notin {ss \in Nat \X Nat : ss[1] < ss[2]}
    BY <1>1, <1>3
  <2> QED  BY <2>1, <2>2
<1>5. \A y \in T : x <= y
  BY <1>4
<1> QED  BY <1>5

-----------------------------------------------------------------------------
(* The pool.                                                                *)

Uses == {"none", "part", "data", "array"}

\* The pool is well formed, and what lies above its top serves nothing yet.
PoolTyped(p) ==
  /\ p \in [top : 0..MaxCells, gaps : 0..MaxGaps, use : [Cell -> Uses]]
  /\ \A c \in Cell : c > p.top => p.use[c] = "none"

\* q is p after allocations that left the cells up to p's top alone.
Extends(q, p) ==
  /\ q.top >= p.top
  /\ \A c \in Cell : c <= p.top => q.use[c] = p.use[c]

\* The cells of p that serve a use.
UsedIn(p, use) == {c \in Cell : p.use[c] = use}

\* The n cells from lo on serve the use in q, the others what they do in p.
Cuts(q, p, lo, n, use) ==
  \A c \in Cell : q.use[c] = IF c \in lo .. lo + n - 1 THEN use ELSE p.use[c]

\* What an allocation returns: the first of n cells above the old top that now
\* serve the use.
LEMMA AllocReturns ==
  ASSUME NEW p, PoolTyped(p), NEW n \in Nat \ {0}, NEW use \in Uses \ {"none"},
         NEW a \in Alloc(p, n, use)
  PROVE  /\ PoolTyped(a.pool)
         /\ Extends(a.pool, p)
         /\ a.lo \in Cell /\ a.lo > p.top /\ a.lo + n - 1 \in Cell
         /\ a.pool.top = a.lo + n - 1
         /\ Cuts(a.pool, p, a.lo, n, use)
<1>1. ASSUME NEW g \in {0, 1}, p.top + g + n <= MaxCells, p.gaps + g <= MaxGaps,
             a = [lo |-> p.top + g + 1,
                  pool |-> [top |-> p.top + g + n, gaps |-> p.gaps + g,
                            use |-> [c \in Cell |->
                                       IF c \in p.top + g + 1 .. p.top + g + 1 + n - 1
                                       THEN use ELSE p.use[c]]]]
      PROVE  /\ PoolTyped(a.pool)
             /\ Extends(a.pool, p)
             /\ a.lo \in Cell /\ a.lo > p.top /\ a.lo + n - 1 \in Cell
             /\ a.pool.top = a.lo + n - 1
             /\ Cuts(a.pool, p, a.lo, n, use)
  <2> DEFINE lo == p.top + g + 1
             used == [c \in Cell |-> IF c \in lo .. lo + n - 1 THEN use ELSE p.use[c]]
  <2>1. p.top \in Nat /\ p.top <= MaxCells /\ p.gaps \in Nat /\ p.use \in [Cell -> Uses]
    BY DEF PoolTyped
  <2>2. /\ a.lo = lo /\ a.pool.top = p.top + g + n /\ a.pool.use = used
        /\ a.pool = [top |-> p.top + g + n, gaps |-> p.gaps + g, use |-> used]
    BY <1>1
  <2>3. /\ p.top + g + n \in 0..MaxCells /\ p.gaps + g \in 0..MaxGaps
        /\ lo \in Cell /\ lo > p.top /\ lo + n - 1 \in Cell /\ lo + n - 1 = p.top + g + n
    <3> p.top \in Nat /\ p.gaps \in Nat /\ g \in Nat /\ n \in Nat /\ n >= 1
        /\ MaxCells \in Nat /\ MaxGaps \in Nat
        /\ p.top + g + n <= MaxCells /\ p.gaps + g <= MaxGaps
      BY <1>1, <2>1, CellsAssumption
    <3> QED  BY DEF Cell
  <2>4. used \in [Cell -> Uses]
    BY <2>1
  <2>5. \A c \in Cell : c > p.top + g + n => used[c] = "none"
    BY <2>1, <2>3 DEF PoolTyped, Cell
  <2>6. \A c \in Cell : c <= p.top => used[c] = p.use[c]
    BY <2>1, <2>3 DEF Cell
  <2> HIDE DEF lo, used
  <2>7. PoolTyped(a.pool)
    BY <2>2, <2>3, <2>4, <2>5 DEF PoolTyped
  <2>8. Extends(a.pool, p)
    BY <2>1, <2>2, <2>6 DEF Extends
  <2>9. \A c \in Cell : used[c] = IF c \in lo .. lo + n - 1 THEN use ELSE p.use[c]
    BY DEF used
  <2> QED  BY <2>2, <2>3, <2>7, <2>8, <2>9 DEF Cuts
<1>2. \E g \in {0, 1} : p.top + g + n <= MaxCells /\ p.gaps + g <= MaxGaps /\
             a = [lo |-> p.top + g + 1,
                  pool |-> [top |-> p.top + g + n, gaps |-> p.gaps + g,
                            use |-> [c \in Cell |->
                                       IF c \in p.top + g + 1 .. p.top + g + 1 + n - 1
                                       THEN use ELSE p.use[c]]]]
  BY DEF Alloc
<1> QED  BY <1>1, <1>2

LEMMA ExtendsTransitive ==
  ASSUME NEW p, NEW q, NEW r, PoolTyped(p), PoolTyped(q), PoolTyped(r),
         Extends(q, p), Extends(r, q)
  PROVE  Extends(r, p)
<1> p.top \in Nat /\ q.top \in Nat /\ r.top \in Nat
  BY DEF PoolTyped
<1> QED  BY DEF Extends, Cell

-----------------------------------------------------------------------------
(* The array.                                                               *)

ArrayTyped(a) ==
  a \in [elts : Cell \cup {NULL}, nalloc : Nat, used : Nat, mem : [Cell -> Nat]]

\* An array's room lies in cells that serve arrays, and no others.
Roomy(p, a) ==
  IF a.elts = NULL THEN a.used = 0
  ELSE /\ a.nalloc >= 1 /\ a.used <= a.nalloc
       /\ a.elts .. a.elts + a.nalloc - 1 \subseteq UsedIn(p, "array")

\* Each element is still what the caller stored.
Stored(a) ==
  \A i \in 1..a.used : a.mem[a.elts + i - 1] = i

ArrayKept(p, a) == ArrayTyped(a) /\ Roomy(p, a) /\ Stored(a)

\* What others allocate leaves the array's room to it.
LEMMA ArrayUndisturbed ==
  ASSUME NEW p, PoolTyped(p), NEW q, Extends(q, p), NEW a, ArrayKept(p, a)
  PROVE  ArrayKept(q, a)
<1>1. \A c \in Cell : p.use[c] = "array" => q.use[c] = "array"
  <2> p.top \in Nat
    BY DEF PoolTyped
  <2> QED  BY DEF PoolTyped, Extends, Cell
<1> QED  BY <1>1 DEF ArrayKept, Roomy, UsedIn

\* Some multiple of the room will do, so the search for the least one ends.
LEMMA MultipleSuffices ==
  ASSUME NEW a, ArrayTyped(a), a.nalloc >= 1, a.used <= a.nalloc, NEW n \in Nat \ {0}
  PROVE  /\ Multiple(a, n) \in 2 .. n + 2
         /\ a.used + n <= a.nalloc * Multiple(a, n)
<1> DEFINE u == a.used
           w == a.nalloc
           Suffices(m) == u + n <= w * m
           T == {m \in 2 .. n + 2 : Suffices(m)}
<1>1. u \in Nat /\ w \in Nat /\ w >= 1 /\ u <= w
  BY DEF ArrayTyped
<1>2. w * (n + 2) = w * (n + 1) + w /\ w * (n + 1) >= n + 1
  BY <1>1
<1>3. n + 2 \in T
  BY <1>1, <1>2
<1>4. T \subseteq Nat /\ T # {}
  BY <1>3
<1>5. PICK x \in T : \A y \in T : x <= y
  BY <1>4, LeastNat
<1>6. /\ x \in 2 .. n + 2
      /\ u + n <= w * x
      /\ \A k \in 2 .. x - 1 : u + n > w * k
  <2>1. ASSUME NEW k \in 2 .. x - 1
        PROVE  u + n > w * k
    <3>1. k \notin T /\ k \in 2 .. n + 2
      BY <1>5
    <3>2. w * k \in Nat /\ u + n \in Nat
      BY <1>1
    <3> QED  BY <3>1, <3>2
  <2> QED  BY <2>1
<1> QED  BY <1>6 DEF Multiple

\* Growing, in place or by moving, keeps the elements and gives the room asked
\* for, whichever cells above the old room the new region takes.
LEMMA RoomierKeeps ==
  ASSUME NEW p, PoolTyped(p), NEW a, ArrayKept(p, a), a.elts # NULL,
         NEW m \in Nat, m >= 2,
         NEW q, PoolTyped(q), Extends(q, p), NEW lo \in Cell, lo > p.top,
         lo .. lo + a.nalloc * m - 1 \subseteq UsedIn(q, "array")
  PROVE  LET r == Roomier(a, lo, m)
         IN  /\ ArrayKept(q, r)
             /\ r.elts # NULL /\ r.used = a.used /\ r.nalloc >= a.nalloc * m
<1> DEFINE w == a.nalloc
           k == a.nalloc * m
           r == Roomier(a, lo, m)
<1>1. /\ w \in Nat /\ w >= 1 /\ a.used \in Nat /\ a.used <= w /\ a.elts \in Cell
      /\ a.mem \in [Cell -> Nat] /\ Stored(a)
      /\ a.elts .. a.elts + w - 1 \subseteq UsedIn(p, "array")
  BY DEF ArrayKept, ArrayTyped, Roomy
<1>2. k \in Nat /\ k >= w /\ (m + 1) * w = w + k
  BY <1>1
<1>3. ArrayKept(q, a)
  BY ArrayUndisturbed
<1>4. lo \in Nat /\ a.elts \in Nat /\ lo # NULL
  BY <1>1 DEF Cell, NULL
<1> HIDE DEF k
<1>5. CASE a.elts + w = lo
  <2>1. r = [a EXCEPT !.nalloc = w + k]
    BY <1>2, <1>5 DEF Roomier
  <2>2. /\ r.elts = a.elts /\ r.nalloc = w + k /\ r.used = a.used /\ r.mem = a.mem
        /\ ArrayTyped(r)
    BY <1>1, <1>2, <1>3, <2>1 DEF ArrayKept, ArrayTyped
  <2>3. a.elts .. a.elts + w - 1 \subseteq UsedIn(q, "array")
    BY <1>1, <1>3 DEF ArrayKept, Roomy
  <2>4. lo .. lo + k - 1 \subseteq UsedIn(q, "array")
    BY DEF k
  <2>5. a.elts .. a.elts + (w + k) - 1 \subseteq UsedIn(q, "array")
    <3>1. ASSUME NEW c \in a.elts .. a.elts + (w + k) - 1
          PROVE  c \in a.elts .. a.elts + w - 1 \/ c \in lo .. lo + k - 1
      BY <1>1, <1>2, <1>4, <1>5
    <3> QED  BY <2>3, <2>4, <3>1
  <2>6. Roomy(q, r) /\ Stored(r)
    BY <1>1, <1>2, <2>2, <2>5 DEF Roomy, Stored
  <2> QED  BY <1>1, <1>2, <2>2, <2>6 DEF ArrayKept, k
<1>6. CASE a.elts + w # lo
  <2> DEFINE moved == [c \in Cell |-> IF c \in lo .. lo + w - 1
                                      THEN a.mem[a.elts + (c - lo)] ELSE a.mem[c]]
  <2>1. r = [a EXCEPT !.elts = lo, !.nalloc = m * w, !.mem = moved]
    BY <1>6 DEF Roomier
  <2>2. m * w = k
    BY <1>1 DEF k
  <2>3. \A c \in lo .. lo + w - 1 : a.elts + (c - lo) \in Cell
    BY <1>1, <1>4 DEF UsedIn
  <2>4. moved \in [Cell -> Nat]
    BY <1>1, <2>3
  <2> HIDE DEF moved
  <2>5. /\ r.elts = lo /\ r.nalloc = k /\ r.used = a.used /\ r.mem = moved
        /\ ArrayTyped(r)
    BY <1>1, <1>2, <2>1, <2>2, <2>4, ArrayKept(p, a) DEF ArrayKept, ArrayTyped
  <2>6. lo .. lo + k - 1 \subseteq UsedIn(q, "array")
    BY DEF k
  <2>7. Roomy(q, r)
    BY <1>1, <1>2, <1>4, <2>5, <2>6 DEF Roomy
  <2>8. Stored(r)
    <3>1. ASSUME NEW c \in Cell, c \in lo .. lo + w - 1
          PROVE  moved[c] = a.mem[a.elts + (c - lo)]
      BY <3>1 DEF moved
    <3>2. ASSUME NEW i \in 1..a.used
          PROVE  moved[lo + i - 1] = i
      <4>1. /\ lo + i - 1 \in lo .. lo + w - 1 /\ lo + i - 1 \in lo .. lo + k - 1
            /\ a.elts + ((lo + i - 1) - lo) = a.elts + i - 1
        BY <1>1, <1>2, <1>4
      <4>2. lo + i - 1 \in Cell
        BY <2>6, <4>1 DEF UsedIn
      <4>3. moved[lo + i - 1] = a.mem[a.elts + ((lo + i - 1) - lo)]
        BY <3>1, <4>1, <4>2
      <4> QED  BY <1>1, <4>1, <4>3 DEF Stored
    <3> QED  BY <2>5, <3>2 DEF Stored
  <2> QED  BY <1>2, <1>4, <2>5, <2>7, <2>8 DEF ArrayKept, k
<1> QED  BY <1>5, <1>6

\* n more elements behind the others, where there is room for them.
LEMMA ExtendedKeeps ==
  ASSUME NEW p, NEW a, ArrayKept(p, a), a.elts # NULL,
         NEW n \in Nat \ {0}, a.used + n <= a.nalloc
  PROVE  LET e == Extended(a, n)
         IN  ArrayKept(p, e) /\ e.elts = a.elts /\ e.used = a.used + n
<1> DEFINE e == Extended(a, n)
           new == a.elts + a.used .. a.elts + a.used + n - 1
           mem == [c \in Cell |-> IF c \in new THEN c - a.elts + 1 ELSE a.mem[c]]
<1>1. /\ a.nalloc \in Nat /\ a.used \in Nat /\ a.elts \in Nat
      /\ a.mem \in [Cell -> Nat] /\ Stored(a)
      /\ a.elts .. a.elts + a.nalloc - 1 \subseteq UsedIn(p, "array")
  BY DEF ArrayKept, ArrayTyped, Roomy, Cell, NULL
<1>2. mem \in [Cell -> Nat]
  BY <1>1
<1>3. ASSUME NEW i \in 1 .. a.used + n
      PROVE  mem[a.elts + i - 1] = i
  <2>1. a.elts + i - 1 \in a.elts .. a.elts + a.nalloc - 1
    BY <1>1
  <2>2. a.elts + i - 1 \in Cell
    BY <1>1, <2>1 DEF UsedIn
  <2>3. CASE i <= a.used
    <3>1. a.elts + i - 1 \notin new /\ i \in 1..a.used
      BY <1>1, <2>3
    <3> QED  BY <1>1, <2>2, <3>1 DEF Stored
  <2>4. CASE i > a.used
    <3>1. a.elts + i - 1 \in new /\ (a.elts + i - 1) - a.elts + 1 = i
      BY <1>1, <2>4
    <3> QED  BY <2>2, <3>1
  <2> QED  BY <1>1, <2>3, <2>4
<1>4. e = [a EXCEPT !.used = a.used + n, !.mem = mem]
  BY DEF Extended
<1> HIDE DEF mem
<1>5. /\ e.elts = a.elts /\ e.nalloc = a.nalloc /\ e.used = a.used + n /\ e.mem = mem
  <2>1. a \in [elts : Cell \cup {NULL}, nalloc : Nat, used : Nat, mem : [Cell -> Nat]]
    BY DEF ArrayKept, ArrayTyped
  <2>2. a.used + n \in Nat
    BY <1>1
  <2> HIDE DEF e
  <2> QED  BY <1>2, <1>4, <2>1, <2>2
<1>5a. ArrayTyped(e)
  <2>1. a \in [elts : Cell \cup {NULL}, nalloc : Nat, used : Nat, mem : [Cell -> Nat]]
    BY DEF ArrayKept, ArrayTyped
  <2>2. a.used + n \in Nat
    BY <1>1
  <2> HIDE DEF e
  <2> QED  BY <1>2, <1>4, <2>1, <2>2 DEF ArrayTyped
<1>6. Roomy(p, e) /\ Stored(e)
  BY <1>1, <1>3, <1>5 DEF Roomy, Stored
<1> QED  BY <1>5, <1>5a, <1>6 DEF ArrayKept

-----------------------------------------------------------------------------
(* Sequences of cells.                                                      *)

Behind(s, i)  == Append(s, i)
Before(i, s)  == <<i>> \o s
Rest(s)       == Tail(s)
Without(s, k) == SubSeq(s, 1, k - 1) \o SubSeq(s, k + 1, Len(s))

LEMMA BehindElements ==
  ASSUME NEW s \in Seq(Cell), NEW i \in Cell
  PROVE  /\ Behind(s, i) \in Seq(Cell) /\ Len(Behind(s, i)) = Len(s) + 1
         /\ Behind(s, i) # <<>>
         /\ \A j \in 1 .. Len(s) + 1 :
              Behind(s, i)[j] = IF j <= Len(s) THEN s[j] ELSE i
BY DEF Behind

LEMMA RestElements ==
  ASSUME NEW s \in Seq(Cell), s # <<>>
  PROVE  /\ Rest(s) \in Seq(Cell) /\ Len(Rest(s)) = Len(s) - 1 /\ Len(s) >= 1
         /\ \A j \in 1 .. Len(s) - 1 : Rest(s)[j] = s[j + 1]
BY DEF Rest

LEMMA BeforeElements ==
  ASSUME NEW s \in Seq(Cell), NEW i \in Cell
  PROVE  /\ Before(i, s) \in Seq(Cell) /\ Len(Before(i, s)) = Len(s) + 1
         /\ Before(i, s) # <<>>
         /\ \A j \in 1 .. Len(s) + 1 :
              Before(i, s)[j] = IF j = 1 THEN i ELSE s[j - 1]
BY DEF Before

LEMMA WithoutElements ==
  ASSUME NEW S, NEW s \in Seq(S), NEW k \in 1..Len(s)
  PROVE  /\ Without(s, k) \in Seq(S) /\ Len(Without(s, k)) = Len(s) - 1
         /\ \A j \in 1 .. Len(s) - 1 :
              Without(s, k)[j] = IF j < k THEN s[j] ELSE s[j + 1]
<1> DEFINE a == SubSeq(s, 1, k - 1)
           b == SubSeq(s, k + 1, Len(s))
<1>1. k \in Nat /\ Len(s) \in Nat /\ 1 <= k /\ k <= Len(s)
  OBVIOUS
<1>2. /\ a \in Seq(S) /\ Len(a) = k - 1
      /\ \A j \in 1 .. k - 1 : a[j] = s[j]
  BY <1>1
<1>3. /\ b \in Seq(S) /\ Len(b) = Len(s) - k
      /\ \A j \in 1 .. Len(s) - k : b[j] = s[k + j]
  BY <1>1
<1> HIDE DEF a, b
<1>4. /\ a \o b \in Seq(S) /\ Len(a \o b) = Len(s) - 1
      /\ \A j \in 1 .. Len(s) - 1 : (a \o b)[j] = IF j <= k - 1 THEN a[j] ELSE b[j - (k - 1)]
  <2>1. /\ a \o b \in Seq(S) /\ Len(a \o b) = Len(a) + Len(b)
        /\ \A j \in 1 .. Len(a) + Len(b) :
             (a \o b)[j] = IF j <= Len(a) THEN a[j] ELSE b[j - Len(a)]
    BY <1>2, <1>3, ConcatProperties
  <2>2. Len(a) + Len(b) = Len(s) - 1 /\ Len(a) = k - 1
    BY <1>1, <1>2, <1>3
  <2> QED  BY <2>1, <2>2
<1>5. ASSUME NEW j \in 1 .. Len(s) - 1
      PROVE  (a \o b)[j] = IF j < k THEN s[j] ELSE s[j + 1]
  BY <1>1, <1>2, <1>3, <1>4
<1>6. Without(s, k) = a \o b
  BY DEF Without, a, b
<1> QED  BY <1>4, <1>5, <1>6

LEMMA EmptyByLength ==
  ASSUME NEW S, NEW s \in Seq(S)
  PROVE  Len(s) \in Nat /\ (s = <<>> <=> Len(s) = 0) /\ \A j \in 1..Len(s) : s[j] \in S
OBVIOUS

-----------------------------------------------------------------------------
(* The chains of the list.                                                  *)

NextTyped(l) == l.next \in [Cell -> Cell \cup {NULL}]

\* The parts of s, each once, are linked from c on: each one's next is the
\* part behind it in s, and the last one's is NULL.
Links(l, c, s) ==
  /\ s \in Seq(Cell)
  /\ c = IF s = <<>> THEN NULL ELSE s[1]
  /\ \A i \in 1..Len(s) : l.next[s[i]] = IF i = Len(s) THEN NULL ELSE s[i + 1]
  /\ \A i, j \in 1..Len(s) : s[i] = s[j] => i = j

LEMMA UpTo ==
  ASSUME NEW n \in Nat
  PROVE  IsFiniteSet(1..n) /\ Cardinality(1..n) = n
<1>1. IsFiniteSet(1..n) /\ Cardinality(1..n) = IF 1 > n THEN 0 ELSE n - 1 + 1
  BY FS_Interval
<1> QED  BY <1>1

\* There are at most as many parts on a chain as there are cells.
LEMMA ChainFits ==
  ASSUME NEW l, NEW c, NEW s, Links(l, c, s)
  PROVE  Len(s) \in 0..MaxCells
<1>1. s \in Injection(1..Len(s), Cell)
  BY DEF Links, Injection, IsInjective
<1>2. /\ IsFiniteSet(Cell) /\ Cardinality(Cell) = MaxCells
      /\ Cardinality(1..Len(s)) = Len(s)
  <2>1. Len(s) \in Nat /\ MaxCells \in Nat
    BY CellsAssumption DEF Links
  <2> QED  BY <2>1, UpTo DEF Cell
<1>3. Cardinality(1..Len(s)) <= Cardinality(Cell)
  BY <1>1, <1>2, FS_Injection
<1> QED  BY <1>2, <1>3 DEF Links

\* Following next from c on gives the parts linked from c on.
LEMMA ChainIs ==
  ASSUME NEW l, NextTyped(l), NEW c, NEW s, Links(l, c, s)
  PROVE  Chain(l, c) = s
<1> DEFINE follow == [d \in Cell \cup {NULL} |-> IF d = NULL THEN NULL ELSE l.next[d]]
           Step(g) == [k \in 1..MaxCells |-> IF k = 1 THEN c ELSE follow[g[k - 1]]]
           q == [k \in 1..MaxCells |-> IF k <= Len(s) THEN s[k] ELSE NULL]
           part == CHOOSE g : g = Step(g)
<1>1. Len(s) \in 0..MaxCells /\ MaxCells \in Nat
  BY ChainFits, CellsAssumption
<1>2. /\ s \in Seq(Cell)
      /\ c = IF s = <<>> THEN NULL ELSE s[1]
      /\ \A i \in 1..Len(s) : s[i] \in Cell
      /\ \A i \in 1..Len(s) : l.next[s[i]] = IF i = Len(s) THEN NULL ELSE s[i + 1]
      /\ \A d \in Cell : d # NULL
      /\ \A d \in Cell : follow[d] = l.next[d]
      /\ follow[NULL] = NULL
      /\ s = <<>> <=> Len(s) = 0
  <2>1. s \in Seq(Cell) /\ \A d \in Cell : d \in Nat /\ d # NULL
    BY <1>1 DEF Links, Cell, NULL
  <2>2. \A d \in Cell : follow[d] = l.next[d]
    BY <2>1
  <2>3. follow[NULL] = NULL
    OBVIOUS
  <2>4. \A i \in 1..Len(s) : s[i] \in Cell
    BY <2>1
  <2>5. s = <<>> <=> Len(s) = 0
    BY <2>1
  <2> HIDE DEF follow
  <2> QED  BY <2>1, <2>2, <2>3, <2>4, <2>5 DEF Links
<1>3. ASSUME NEW k \in 1..MaxCells
      PROVE  q[k] = IF k = 1 THEN c ELSE follow[q[k - 1]]
  <2> HIDE DEF follow
  <2>1. q[k] = IF k <= Len(s) THEN s[k] ELSE NULL
    OBVIOUS
  <2>2. k # 1 => k - 1 \in 1..MaxCells
    BY <1>1
  <2>3. k # 1 => q[k - 1] = IF k - 1 <= Len(s) THEN s[k - 1] ELSE NULL
    BY <2>2
  <2> HIDE DEF q
  <2>4. CASE k = 1
    BY <1>1, <1>2, <2>1, <2>4
  <2>5. CASE k # 1 /\ k - 1 > Len(s)
    BY <1>1, <1>2, <2>1, <2>3, <2>5
  <2>6. CASE k # 1 /\ k - 1 <= Len(s)
    BY <1>1, <1>2, <2>1, <2>3, <2>6
  <2> QED  BY <1>1, <2>4, <2>5, <2>6
<1>4. q = Step(q)
  BY <1>3
<1>5. part = Step(part)
  <2> HIDE DEF Step, q
  <2> QED  BY <1>4
<1>6. part = q
  <2> DEFINE T == {k \in 1..MaxCells : part[k] # q[k]}
  <2>1. ASSUME T # {}
        PROVE  FALSE
    <3>1. PICK k \in T : \A j \in T : k <= j
      <4> HIDE DEF part, q
      <4>1. T \in SUBSET Nat
        BY <1>1
      <4> QED  BY <2>1, <4>1, LeastNat
    <3>2. part[k] = IF k = 1 THEN c ELSE follow[part[k - 1]]
      <4> HIDE DEF part, follow
      <4> QED  BY <1>5
    <3> HIDE DEF part, q, follow
    <3>3. k # 1 => k - 1 \in 1..MaxCells /\ k - 1 \notin T
      <4>1. k \in 1..MaxCells
        OBVIOUS
      <4>2. k # 1 => k - 1 \in 1..MaxCells /\ ~(k <= k - 1)
        BY <1>1, <4>1
      <4> QED  BY <3>1, <4>2
    <3>4. k # 1 => part[k - 1] = q[k - 1]
      BY <3>3
    <3> QED  BY <1>3, <3>2, <3>4
  <2>2. DOMAIN part = 1..MaxCells
    <3> HIDE DEF part
    <3> QED  BY <1>5
  <2>3. part = [k \in 1..MaxCells |-> part[k]]
    <3> HIDE DEF part, follow
    <3> QED  BY <1>5
  <2>4. \A k \in 1..MaxCells : part[k] = q[k]
    BY <2>1
  <2>5. q = [k \in 1..MaxCells |-> q[k]]
    OBVIOUS
  <2> HIDE DEF part, q
  <2> QED  BY <2>3, <2>4, <2>5
<1>7. Cardinality({j \in 1..MaxCells : part[j] # NULL}) = Len(s)
  <2>1. ASSUME NEW j \in 1..MaxCells
        PROVE  q[j] # NULL <=> j \in 1..Len(s)
    BY <1>1, <1>2
  <2> HIDE DEF q
  <2>2. {j \in 1..MaxCells : q[j] # NULL} = 1..Len(s)
    BY <1>1, <2>1
  <2>3. Cardinality(1..Len(s)) = Len(s)
    BY <1>1, UpTo
  <2> HIDE DEF part
  <2> QED  BY <1>6, <2>2, <2>3
<1>8. Chain(l, c) = [k \in 1..Cardinality({j \in 1..MaxCells : part[j] # NULL}) |-> part[k]]
  BY DEF Chain
<1>9. [k \in 1..Len(s) |-> q[k]] = s
  <2>1. \A k \in 1..Len(s) : q[k] = s[k]
    BY <1>1
  <2> HIDE DEF q
  <2> QED  BY <1>2, <2>1
<1> HIDE DEF part, q
<1> QED  BY <1>6, <1>7, <1>8, <1>9

-----------------------------------------------------------------------------
(* The list and its free chain.                                             *)

ListTyped(l) ==
  l \in [made : BOOLEAN, nalloc : Nat, head : Cell \cup {NULL},
         last : Cell \cup {NULL}, freeindex : Cell \cup {NULL},
         next : [Cell -> Cell \cup {NULL}], elts : [Cell -> Cell \cup {NULL}]]

PartsOf(s) == {s[i] : i \in 1..Len(s)}

\* The parts of s are the list, those of f are free, and none is both.
Shape(l, s, f) ==
  /\ Links(l, l.head, s)
  /\ l.last = IF s = <<>> THEN NULL ELSE s[Len(s)]
  /\ Links(l, l.freeindex, f)
  /\ PartsOf(s) \cap PartsOf(f) = {}

\* A chain is linked in any list that has the same next in its parts.
LEMMA LinksFrame ==
  ASSUME NEW l, NEW c, NEW s, Links(l, c, s), NEW m,
         \A i \in 1..Len(s) : m.next[s[i]] = l.next[s[i]]
  PROVE  Links(m, c, s)
BY DEF Links

\* art_list_push takes the first free part.
LEMMA TakeShape ==
  ASSUME NEW l, ListTyped(l), NEW s, NEW f, Shape(l, s, f), f # <<>>
  PROVE  LET i == l.freeindex
             t == [l EXCEPT !.freeindex = l.next[i], !.next[i] = NULL]
         IN  /\ i \in Cell /\ i \in PartsOf(f)
             /\ ListTyped(t) /\ Shape(t, s, Rest(f))
             /\ i \notin PartsOf(s) /\ i \notin PartsOf(Rest(f)) /\ t.next[i] = NULL
             /\ PartsOf(f) = PartsOf(Rest(f)) \cup {i}
<1> DEFINE i == l.freeindex
           t == [l EXCEPT !.freeindex = l.next[i], !.next[i] = NULL]
           g == Rest(f)
<1>1. /\ s \in Seq(Cell) /\ f \in Seq(Cell)
      /\ i = f[1] /\ Len(f) \in Nat /\ Len(f) >= 1 /\ i \in Cell
  BY EmptyByLength DEF Shape, Links
<1>2. /\ g \in Seq(Cell) /\ Len(g) = Len(f) - 1
      /\ \A j \in 1 .. Len(f) - 1 : g[j] = f[j + 1]
  BY <1>1, RestElements
<1> HIDE DEF g
<1>3. /\ t.freeindex = l.next[i] /\ t.head = l.head /\ t.last = l.last
      /\ t.next = [l.next EXCEPT ![i] = NULL] /\ ListTyped(t)
  BY <1>1 DEF ListTyped
<1>4. /\ t.next[i] = NULL
      /\ \A c \in Cell : c # i => t.next[c] = l.next[c]
  BY <1>1, <1>3 DEF ListTyped
<1> HIDE DEF t
<1>5. i \in PartsOf(f) /\ i \notin PartsOf(s)
  <2>1. 1 \in 1..Len(f)
    BY <1>1
  <2>2. i \in PartsOf(f)
    BY <1>1, <2>1 DEF PartsOf
  <2> QED  BY <2>2 DEF Shape
<1>6. i \notin PartsOf(g)
  BY <1>1, <1>2 DEF Shape, PartsOf, Links
<1>7. Links(t, l.head, s)
  <2>1. \A j \in 1..Len(s) : t.next[s[j]] = l.next[s[j]]
    BY <1>1, <1>4, <1>5, EmptyByLength DEF PartsOf
  <2> QED  BY <2>1, LinksFrame DEF Shape
<1>8. Links(t, t.freeindex, g)
  <2>1. l.next[f[1]] = IF Len(f) = 1 THEN NULL ELSE f[2]
    <3>1. 1 \in 1..Len(f) /\ 1 + 1 = 2
      BY <1>1
    <3>2. \A j \in 1..Len(f) : l.next[f[j]] = IF j = Len(f) THEN NULL ELSE f[j + 1]
      BY DEF Shape, Links
    <3>3. l.next[f[1]] = IF 1 = Len(f) THEN NULL ELSE f[1 + 1]
      BY <3>1, <3>2
    <3> QED  BY <3>1, <3>3
  <2>2. l.next[i] = IF g = <<>> THEN NULL ELSE g[1]
    BY <1>1, <1>2, <2>1, EmptyByLength
  <2>3. ASSUME NEW j \in 1..Len(g)
        PROVE  t.next[g[j]] = IF j = Len(g) THEN NULL ELSE g[j + 1]
    <3>1. g[j] = f[j + 1] /\ j + 1 \in 1..Len(f) /\ g[j] # i /\ g[j] \in Cell
      BY <1>1, <1>2, <1>6, EmptyByLength DEF PartsOf
    <3>2. l.next[f[j + 1]] = IF j + 1 = Len(f) THEN NULL ELSE f[j + 1 + 1]
      BY <3>1 DEF Shape, Links
    <3>3. j # Len(g) => g[j + 1] = f[j + 1 + 1]
      BY <1>1, <1>2
    <3>4. j + 1 = Len(f) <=> j = Len(g)
      BY <1>1, <1>2
    <3> QED  BY <1>4, <3>1, <3>2, <3>3, <3>4
  <2>4. ASSUME NEW j \in 1..Len(g), NEW k \in 1..Len(g), g[j] = g[k]
        PROVE  j = k
    <3>1. j + 1 \in 1..Len(f) /\ k + 1 \in 1..Len(f) /\ f[j + 1] = f[k + 1]
      BY <1>1, <1>2, <2>4
    <3>2. j + 1 = k + 1
      BY <3>1 DEF Shape, Links
    <3> QED  BY <1>2, <3>2
  <2> QED  BY <1>2, <1>3, <2>2, <2>3, <2>4 DEF Links
<1>9. PartsOf(f) = PartsOf(g) \cup {i}
  <2>1. \A j \in 1..Len(g) : g[j] \in PartsOf(f)
    BY <1>1, <1>2 DEF PartsOf
  <2>2. ASSUME NEW j \in 1..Len(f)
        PROVE  f[j] \in PartsOf(g) \cup {i}
    <3>1. j # 1 => j - 1 \in 1..Len(g) /\ f[j] = g[j - 1]
      BY <1>1, <1>2
    <3> QED  BY <1>1, <3>1 DEF PartsOf
  <2> QED  BY <1>5, <2>1, <2>2 DEF PartsOf
<1>10. Shape(t, s, g)
  BY <1>3, <1>7, <1>8, <1>9 DEF Shape
<1> QED  BY <1>1, <1>3, <1>4, <1>5, <1>6, <1>9, <1>10 DEF g, t

\* A part that is in neither chain goes to the end of the list.
LEMMA LinkedShape ==
  ASSUME NEW l, ListTyped(l), NEW s, NEW f, Shape(l, s, f), NEW i \in Cell,
         i \notin PartsOf(s), i \notin PartsOf(f), l.next[i] = NULL
  PROVE  LET t == Linked(l, i)
         IN  /\ ListTyped(t) /\ Shape(t, Behind(s, i), f)
             /\ t.elts = l.elts /\ t.nalloc = l.nalloc /\ t.made = l.made
             /\ \A c \in Cell : c \notin PartsOf(s) => t.next[c] = l.next[c]
             /\ PartsOf(Behind(s, i)) = PartsOf(s) \cup {i}
<1> DEFINE t == Linked(l, i)
           e == Behind(s, i)
<1>1. /\ s \in Seq(Cell) /\ f \in Seq(Cell) /\ Len(s) \in Nat
      /\ l.last = (IF s = <<>> THEN NULL ELSE s[Len(s)])
      /\ l.head = (IF s = <<>> THEN NULL ELSE s[1])
      /\ (s = <<>> <=> Len(s) = 0)
      /\ \A j \in 1..Len(s) : s[j] \in Cell /\ s[j] # NULL
      /\ i # NULL
  <2>1. s \in Seq(Cell) /\ f \in Seq(Cell) /\ \A c \in Cell : c # NULL
    BY DEF Shape, Links, Cell, NULL
  <2> QED  BY <2>1, EmptyByLength DEF Shape, Links
<1>2. /\ e \in Seq(Cell) /\ Len(e) = Len(s) + 1 /\ e # <<>>
      /\ \A j \in 1 .. Len(s) + 1 : e[j] = IF j <= Len(s) THEN s[j] ELSE i
  BY <1>1, BehindElements
<1> HIDE DEF e
<1>3. /\ t.last = i /\ t.freeindex = l.freeindex
      /\ t.head = (IF s = <<>> THEN i ELSE l.head)
      /\ t.next = (IF s = <<>> THEN l.next ELSE [l.next EXCEPT ![s[Len(s)]] = i])
      /\ t.elts = l.elts /\ t.nalloc = l.nalloc /\ t.made = l.made
      /\ ListTyped(t)
  <2>1. CASE s = <<>>
    BY <1>1, <2>1 DEF Linked, ListTyped
  <2>2. CASE s # <<>>
    <3>1. /\ l.last = s[Len(s)] /\ l.last # NULL /\ s[Len(s)] \in Cell
          /\ t = [l EXCEPT !.next[s[Len(s)]] = i, !.last = i]
      BY <1>1, <2>2 DEF Linked
    <3>2. PICK x \in Cell : x = s[Len(s)]
      BY <3>1
    <3>3. t = [l EXCEPT !.next = [l.next EXCEPT ![x] = i], !.last = i]
      BY <3>1, <3>2 DEF ListTyped
    <3>4. [l.next EXCEPT ![x] = i] \in [Cell -> Cell \cup {NULL}]
      BY DEF ListTyped
    <3> HIDE DEF t
    <3>5. /\ t.last = i /\ t.freeindex = l.freeindex /\ t.head = l.head
          /\ t.next = [l.next EXCEPT ![x] = i]
          /\ t.elts = l.elts /\ t.nalloc = l.nalloc /\ t.made = l.made
      BY <3>3 DEF ListTyped
    <3>6. ListTyped(t)
      BY <3>3, <3>4 DEF ListTyped
    <3> QED  BY <2>2, <3>2, <3>5, <3>6
  <2> QED  BY <2>1, <2>2
<1> HIDE DEF t
<1>4. PartsOf(e) = PartsOf(s) \cup {i}
  <2>1. \A j \in 1..Len(s) : j \in 1..Len(e) /\ e[j] = s[j]
    BY <1>1, <1>2
  <2>2. Len(e) \in 1..Len(e) /\ e[Len(e)] = i
    BY <1>1, <1>2
  <2>3. \A j \in 1..Len(e) : e[j] = i \/ (j \in 1..Len(s) /\ e[j] = s[j])
    BY <1>1, <1>2
  <2> QED  BY <2>1, <2>2, <2>3 DEF PartsOf
<1>5. /\ \A c \in Cell : c \notin PartsOf(s) => t.next[c] = l.next[c]
      /\ \A j \in 1..Len(s) : j # Len(s) => t.next[s[j]] = l.next[s[j]]
      /\ s # <<>> => t.next[s[Len(s)]] = i
  <2>1. s # <<>> => s[Len(s)] \in PartsOf(s) /\ s[Len(s)] \in Cell
    BY <1>1 DEF PartsOf
  <2>2. l.next \in [Cell -> Cell \cup {NULL}]
    BY DEF ListTyped
  <2>3. \A j \in 1..Len(s) : j # Len(s) => s[j] # s[Len(s)]
    BY <1>1 DEF Shape, Links
  <2> QED  BY <1>1, <1>3, <2>1, <2>2, <2>3
<1>6. Links(t, l.freeindex, f)
  <2>1. \A j \in 1..Len(f) : f[j] \in Cell /\ f[j] \notin PartsOf(s)
    BY <1>1, EmptyByLength, SMTT(30) DEF Shape, PartsOf
  <2>2. \A j \in 1..Len(f) : t.next[f[j]] = l.next[f[j]]
    BY <1>5, <2>1
  <2> QED  BY <2>2, LinksFrame DEF Shape
<1>7. Links(t, t.head, e)
  <2>1. t.head = IF e = <<>> THEN NULL ELSE e[1]
    BY <1>1, <1>2, <1>3
  <2>2. ASSUME NEW j \in 1..Len(e)
        PROVE  t.next[e[j]] = IF j = Len(e) THEN NULL ELSE e[j + 1]
    <3>1. CASE j = Len(e)
      <4>1. e[j] = i
        BY <1>1, <1>2, <3>1
      <4>2. t.next[i] = NULL
        BY <1>5
      <4> QED  BY <3>1, <4>1, <4>2
    <3>2. CASE j = Len(s)
      <4>1. j # Len(e) /\ e[j] = s[Len(s)] /\ e[j + 1] = i /\ s # <<>>
        BY <1>1, <1>2, <3>2
      <4> QED  BY <1>5, <3>2, <4>1
    <3>3. CASE j # Len(e) /\ j # Len(s)
      <4>1. j \in 1..Len(s) /\ e[j] = s[j] /\ e[j + 1] = s[j + 1]
        BY <1>1, <1>2, <3>3
      <4>2. l.next[s[j]] = IF j = Len(s) THEN NULL ELSE s[j + 1]
        BY <4>1 DEF Shape, Links
      <4> QED  BY <1>5, <3>3, <4>1, <4>2
    <3> QED  BY <3>1, <3>2, <3>3
  <2>3. ASSUME NEW j \in 1..Len(e), NEW k \in 1..Len(e), e[j] = e[k]
        PROVE  j = k
    <3>1. \A x \in 1..Len(e) : \/ x = Len(e) /\ e[x] = i
                               \/ x \in 1..Len(s) /\ e[x] = s[x] /\ e[x] # i
      <4>1. \A x \in 1..Len(s) : s[x] # i
        BY DEF PartsOf
      <4> QED  BY <1>1, <1>2, <4>1
    <3>2. \A x, y \in 1..Len(s) : s[x] = s[y] => x = y
      BY DEF Shape, Links
    <3> QED  BY <2>3, <3>1, <3>2
  <2> QED  BY <1>2, <2>1, <2>2, <2>3 DEF Links
<1>8. Shape(t, e, f)
  <2>1. e[Len(e)] = i
    BY <1>1, <1>2
  <2> QED  BY <1>2, <1>3, <1>4, <1>6, <1>7, <2>1 DEF Shape
<1> QED  BY <1>3, <1>4, <1>5, <1>8 DEF e, t

\* art_list_delete: the part at k leaves the list and is the first free one.
LEMMA FreedShape ==
  ASSUME NEW l, ListTyped(l), NEW s, NEW f, Shape(l, s, f), NEW k \in 1..Len(s)
  PROVE  LET t == Freed(l, s[k], IF k = 1 THEN NULL ELSE s[k - 1])
         IN  /\ ListTyped(t) /\ Shape(t, Without(s, k), Before(s[k], f))
             /\ t.elts = l.elts /\ t.nalloc = l.nalloc /\ t.made = l.made
             /\ \A c \in Cell : c \notin PartsOf(s) => t.next[c] = l.next[c]
             /\ PartsOf(Without(s, k)) \cup PartsOf(Before(s[k], f))
                  = PartsOf(s) \cup PartsOf(f)
<1> DEFINE n == Len(s)
           i == s[k]
           pre == IF k = 1 THEN NULL ELSE s[k - 1]
           t == Freed(l, i, pre)
           w == Without(s, k)
           g == Before(i, f)
<1>1. /\ s \in Seq(Cell) /\ f \in Seq(Cell) /\ n \in Nat /\ n >= 1 /\ k \in Nat
      /\ 1 <= k /\ k <= n
      /\ l.last = s[n]
      /\ l.head = s[1]
      /\ \A j \in 1..n : s[j] \in Cell /\ s[j] # NULL
      /\ \A j \in 1..n : l.next[s[j]] = IF j = n THEN NULL ELSE s[j + 1]
      /\ \A j, x \in 1..n : s[j] = s[x] => j = x
  <2>1. s \in Seq(Cell) /\ f \in Seq(Cell) /\ \A c \in Cell : c # NULL
    BY DEF Shape, Links, Cell, NULL
  <2>2. s # <<>>
    BY <2>1, EmptyByLength
  <2> QED  BY <2>1, <2>2, EmptyByLength DEF Shape, Links
<1>2. /\ w \in Seq(Cell) /\ Len(w) = n - 1
      /\ \A j \in 1 .. n - 1 : w[j] = IF j < k THEN s[j] ELSE s[j + 1]
  BY <1>1, WithoutElements
<1>3. /\ g \in Seq(Cell) /\ Len(g) = Len(f) + 1 /\ g # <<>>
      /\ \A j \in 1 .. Len(f) + 1 : g[j] = IF j = 1 THEN i ELSE f[j - 1]
  BY <1>1, BeforeElements, ZenonT(30)
<1>4. /\ i \in Cell /\ i # NULL /\ l.next[i] = IF k = n THEN NULL ELSE s[k + 1]
      /\ pre \in Cell \cup {NULL} /\ (pre = NULL <=> k = 1) /\ (k # 1 => pre = s[k - 1])
      /\ pre # i /\ l.next \in [Cell -> Cell \cup {NULL}] /\ l.next[i] \in Cell \cup {NULL}
      /\ \A c \in Cell : c # NULL
  <2>1. \A c \in Cell : c # NULL
    BY DEF Cell, NULL
  <2> QED  BY <1>1, <2>1 DEF ListTyped
<1> HIDE DEF w, g, i, pre
<1>5. /\ t.freeindex = i
      /\ t.head = (IF k = 1 THEN l.next[i] ELSE l.head)
      /\ t.last = (IF k # n THEN l.last ELSE IF k = 1 THEN NULL ELSE pre)
      /\ t.next = (IF k = 1 THEN [l.next EXCEPT ![i] = l.freeindex]
                   ELSE [l.next EXCEPT ![pre] = l.next[i], ![i] = l.freeindex])
      /\ t.elts = l.elts /\ t.nalloc = l.nalloc /\ t.made = l.made
      /\ ListTyped(t)
  <2>1. l.last = i <=> k = n
    BY <1>1 DEF i
  <2>2. CASE k = 1
    <3>1. pre = NULL /\ (k = n => l.next[i] = NULL)
      BY <1>4, <2>2
    <3> QED  BY <1>4, <2>1, <2>2, <3>1 DEF Freed, ListTyped
  <2>3. CASE k # 1
    <3>1. pre # NULL /\ pre \in Cell
      BY <1>4, <2>3
    <3> QED  BY <1>4, <2>1, <2>3, <3>1 DEF Freed, ListTyped
  <2> QED  BY <2>2, <2>3
<1> HIDE DEF t
<1>6. /\ t.next[i] = l.freeindex
      /\ k # 1 => t.next[pre] = l.next[i]
      /\ \A c \in Cell : c # i /\ c # pre => t.next[c] = l.next[c]
  BY <1>4, <1>5
<1>7. i \in PartsOf(s) /\ i \notin PartsOf(f) /\ (k # 1 => pre \in PartsOf(s))
  <2>1. k \in 1..n /\ (k # 1 => k - 1 \in 1..n)
    BY <1>1
  <2> QED  BY <1>4, <2>1 DEF Shape, PartsOf, i
<1>8. \A c \in Cell : c \notin PartsOf(s) => t.next[c] = l.next[c]
  BY <1>4, <1>6, <1>7
<1>9. Links(t, t.freeindex, g)
  <2>1. \A j \in 1..Len(f) : f[j] \in Cell /\ f[j] \notin PartsOf(s)
    <3>1. \A j \in 1..Len(f) : f[j] \in PartsOf(f) /\ f[j] \in Cell
      BY <1>1, EmptyByLength DEF PartsOf
    <3> QED  BY <3>1 DEF Shape
  <2>2. /\ \A j \in 1..Len(f) : l.next[f[j]] = IF j = Len(f) THEN NULL ELSE f[j + 1]
        /\ \A j, x \in 1..Len(f) : f[j] = f[x] => j = x
        /\ l.freeindex = IF f = <<>> THEN NULL ELSE f[1]
    BY DEF Shape, Links
  <2>3. t.freeindex = g[1] /\ Len(f) \in Nat /\ (f = <<>> <=> Len(f) = 0)
    BY <1>1, <1>3, <1>5, EmptyByLength
  <2>4. ASSUME NEW j \in 1..Len(g)
        PROVE  t.next[g[j]] = IF j = Len(g) THEN NULL ELSE g[j + 1]
    <3>1. CASE j = 1
      <4>1. g[j] = i /\ (j # Len(g) => g[j + 1] = f[1])
        BY <1>3, <2>3, <3>1
      <4> QED  BY <1>3, <1>6, <2>2, <2>3, <3>1, <4>1
    <3>2. CASE j # 1
      <4>1. j - 1 \in 1..Len(f) /\ g[j] = f[j - 1] /\ (j # Len(g) => g[j + 1] = f[j - 1 + 1])
        BY <1>3, <2>3, <3>2
      <4>2. t.next[f[j - 1]] = l.next[f[j - 1]]
        BY <1>8, <2>1, <4>1
      <4>3. l.next[f[j - 1]] = IF j - 1 = Len(f) THEN NULL ELSE f[j - 1 + 1]
        BY <2>2, <4>1
      <4>4. j - 1 = Len(f) <=> j = Len(g)
        BY <1>3, <2>3
      <4> QED  BY <4>1, <4>2, <4>3, <4>4
    <3> QED  BY <3>1, <3>2
  <2>5. ASSUME NEW j \in 1..Len(g), NEW x \in 1..Len(g), g[j] = g[x]
        PROVE  j = x
    <3>1. \A y \in 1..Len(g) : \/ y = 1 /\ g[y] = i
                               \/ y # 1 /\ y - 1 \in 1..Len(f) /\ g[y] = f[y - 1] /\ g[y] # i
      <4>1. \A y \in 1..Len(f) : f[y] # i
        BY <1>7, <2>1
      <4> QED  BY <1>3, <2>3, <4>1
    <3>2. CASE j = 1 \/ x = 1
      BY <2>5, <3>1, <3>2
    <3>3. CASE j # 1 /\ x # 1
      <4>1. j - 1 \in 1..Len(f) /\ x - 1 \in 1..Len(f) /\ f[j - 1] = f[x - 1]
        BY <2>5, <3>1, <3>3
      <4>2. j - 1 = x - 1
        BY <2>2, <4>1
      <4> QED  BY <1>3, <2>3, <4>2
    <3> QED  BY <3>2, <3>3
  <2> QED  BY <1>3, <2>3, <2>4, <2>5 DEF Links
<1>10. Links(t, t.head, w)
  <2>1. t.head = IF w = <<>> THEN NULL ELSE w[1]
    <3>1. w = <<>> <=> Len(w) = 0
      BY <1>2, EmptyByLength
    <3>2. CASE n = 1
      BY <1>1, <1>2, <1>4, <1>5, <3>1, <3>2
    <3>3. CASE n # 1
      <4>1. w # <<>> /\ w[1] = IF k = 1 THEN s[1 + 1] ELSE s[1]
        BY <1>1, <1>2, <3>1, <3>3
      <4>2. /\ t.head = (IF k = 1 THEN l.next[i] ELSE l.head)
            /\ k = 1 => l.next[i] = s[k + 1]
        BY <1>4, <1>5, <3>3
      <4>3. l.head = s[1]
        BY <1>1, <3>3
      <4> QED  BY <4>1, <4>2, <4>3
    <3> QED  BY <3>2, <3>3
  <2>2. ASSUME NEW j \in 1..Len(w)
        PROVE  t.next[w[j]] = IF j = Len(w) THEN NULL ELSE w[j + 1]
    <3>1. CASE j = k - 1
      <4>1. k # 1 /\ w[j] = pre /\ (j # Len(w) => w[j + 1] = s[k + 1]) /\ (j = Len(w) <=> k = n)
        BY <1>1, <1>2, <1>4, <3>1
      <4> QED  BY <1>4, <1>6, <4>1
    <3>2. CASE j < k - 1
      <4>1. /\ w[j] = s[j] /\ w[j + 1] = s[j + 1] /\ j # Len(w) /\ j \in 1..n /\ j # n
            /\ j # k
        BY <1>1, <1>2, <3>2
      <4>2. s[j] # i /\ s[j] # pre
        <5>1. k \in 1..n /\ k - 1 \in 1..n /\ j # k - 1
          BY <1>1, <3>2
        <5> QED  BY <1>1, <1>4, <4>1, <5>1 DEF i
      <4> QED  BY <1>1, <1>6, <4>1, <4>2
    <3>3. CASE j >= k
      <4>4. /\ j \in 1 .. n - 1 /\ ~(j < k) /\ (j = Len(w) <=> j + 1 = n)
            /\ j + 1 \in 1..n /\ (j # Len(w) => j + 1 \in 1 .. n - 1 /\ ~(j + 1 < k))
        BY <1>1, <1>2, <3>3
      <4>1. w[j] = s[j + 1] /\ (j # Len(w) => w[j + 1] = s[j + 1 + 1])
        BY <1>2, <4>4
      <4>2. s[j + 1] # i /\ s[j + 1] # pre
        <5>1. k \in 1..n /\ j + 1 # k /\ (k # 1 => k - 1 \in 1..n /\ j + 1 # k - 1)
          BY <1>1, <3>3
        <5> QED  BY <1>1, <1>4, <4>4, <5>1 DEF i
      <4>3. s[j + 1] \in Cell /\ l.next[s[j + 1]] = IF j + 1 = n THEN NULL ELSE s[j + 1 + 1]
        BY <1>1, <4>4
      <4> QED  BY <1>6, <4>1, <4>2, <4>3, <4>4
    <3> QED  BY <1>1, <1>2, <3>1, <3>2, <3>3
  <2>3. ASSUME NEW j \in 1..Len(w), NEW x \in 1..Len(w), w[j] = w[x]
        PROVE  j = x
    <3>1. \A y \in 1..Len(w) : \/ y < k /\ y \in 1..n /\ w[y] = s[y]
                               \/ y >= k /\ y + 1 \in 1..n /\ w[y] = s[y + 1]
      <4>1. ASSUME NEW y \in 1..Len(w)
            PROVE  /\ y \in 1 .. n - 1
                   /\ y < k => y \in 1..n
                   /\ ~(y < k) => y >= k /\ y + 1 \in 1..n
        BY <1>1, <1>2
      <4> QED  BY <1>2, <4>1
    <3>2. CASE j < k /\ x < k
      BY <1>1, <2>3, <3>1, <3>2
    <3>3. CASE j >= k /\ x >= k
      <4>1. j + 1 = x + 1
        BY <1>1, <1>2, <2>3, <3>1, <3>3, SMTT(30)
      <4> QED  BY <1>1, <1>2, <4>1
    <3>4. CASE j < k /\ x >= k
      <4>1. j = x + 1
        BY <1>1, <1>2, <2>3, <3>1, <3>4
      <4> QED  BY <1>1, <1>2, <3>4, <4>1
    <3>5. CASE j >= k /\ x < k
      <4>1. j + 1 = x
        BY <1>1, <1>2, <2>3, <3>1, <3>5
      <4> QED  BY <1>1, <1>2, <3>5, <4>1
    <3> QED  BY <1>1, <1>2, <3>2, <3>3, <3>4, <3>5
  <2> QED  BY <1>2, <2>1, <2>2, <2>3 DEF Links
<1>11. PartsOf(w) = PartsOf(s) \ {i} /\ PartsOf(g) = PartsOf(f) \cup {i}
  <2>1. ASSUME NEW j \in 1..Len(w)
        PROVE  w[j] \in PartsOf(s) \ {i}
    <3>1. \/ j \in 1..n /\ j # k /\ w[j] = s[j]
          \/ j + 1 \in 1..n /\ j + 1 # k /\ w[j] = s[j + 1]
      BY <1>1, <1>2
    <3> QED  BY <1>1, <3>1 DEF PartsOf, i
  <2>2. ASSUME NEW j \in 1..n, s[j] # i
        PROVE  s[j] \in PartsOf(w)
    <3>1. j # k
      BY <2>2 DEF i
    <3>2. \/ j \in 1..Len(w) /\ w[j] = s[j]
          \/ j - 1 \in 1..Len(w) /\ w[j - 1] = s[j]
      <4>1. \/ j \in 1 .. n - 1 /\ j < k
            \/ j - 1 \in 1 .. n - 1 /\ ~(j - 1 < k) /\ j - 1 + 1 = j
        BY <1>1, <3>1
      <4> QED  BY <1>2, <4>1
    <3> QED  BY <3>2 DEF PartsOf
  <2>3. Len(f) \in Nat
    BY <1>1
  <2>4. \A j \in 1..Len(g) : g[j] = i \/ (j - 1 \in 1..Len(f) /\ g[j] = f[j - 1])
    BY <1>3, <2>3
  <2>5. \A j \in 1..Len(f) : j + 1 \in 1..Len(g) /\ g[j + 1] = f[j]
    BY <1>3, <2>3
  <2>6. 1 \in 1..Len(g) /\ g[1] = i
    BY <1>3, <2>3
  <2>7. PartsOf(w) = PartsOf(s) \ {i}
    BY <2>1, <2>2 DEF PartsOf
  <2>8. PartsOf(g) = PartsOf(f) \cup {i}
    <3>1. PartsOf(g) \subseteq PartsOf(f) \cup {i}
      BY <2>4 DEF PartsOf
    <3>2. PartsOf(f) \subseteq PartsOf(g)
      BY <2>5 DEF PartsOf
    <3>3. i \in PartsOf(g)
      BY <2>6 DEF PartsOf
    <3> QED  BY <3>1, <3>2, <3>3
  <2> QED  BY <2>7, <2>8
<1>12. t.last = IF w = <<>> THEN NULL ELSE w[Len(w)]
  <2>1. w = <<>> <=> Len(w) = 0
    BY <1>2, EmptyByLength
  <2>2. CASE k # n
    <3>1. w # <<>> /\ w[Len(w)] = s[n]
      <4>1. Len(w) \in 1 .. n - 1 /\ ~(Len(w) < k) /\ Len(w) + 1 = n
        BY <1>1, <1>2, <2>2
      <4> QED  BY <1>2, <2>1, <4>1
    <3> QED  BY <1>1, <1>5, <2>2, <3>1
  <2>3. CASE k = n /\ k # 1
    <3>1. w # <<>> /\ w[Len(w)] = s[k - 1]
      BY <1>1, <1>2, <2>1, <2>3
    <3> QED  BY <1>4, <1>5, <2>3, <3>1
  <2>4. CASE k = n /\ k = 1
    BY <1>1, <1>2, <1>5, <2>1, <2>4
  <2> QED  BY <2>2, <2>3, <2>4
<1>13. Shape(t, w, g)
  BY <1>7, <1>9, <1>10, <1>11, <1>12 DEF Shape
<1> QED  BY <1>5, <1>7, <1>8, <1>11, <1>13 DEF t, w, g, i, pre

\* The n parts from lo on.
Run(lo, n) == [j \in 1..n |-> lo + j - 1]

\* New parts, linked by art_list_push or art_list_create when none is free.
LEMMA ChainedShape ==
  ASSUME NEW l, ListTyped(l), NEW s, Shape(l, s, <<>>), NEW lo \in Cell, NEW n \in Nat \ {0},
         lo + n - 1 \in Cell, PartsOf(s) \cap (lo .. lo + n - 1) = {},
         \A c \in lo .. lo + n - 1 : l.next[c] = NULL
  PROVE  LET t == Chained(l, lo, n)
             r == Run(lo, n)
         IN  /\ ListTyped(t) /\ Shape(t, s, r)
             /\ t.elts = l.elts /\ t.nalloc = l.nalloc /\ t.made = l.made
             /\ \A c \in Cell \ (lo .. lo + n - 1) : t.next[c] = l.next[c]
             /\ r # <<>> /\ PartsOf(r) = lo .. lo + n - 1
<1> DEFINE t == Chained(l, lo, n)
           r == Run(lo, n)
           next == [c \in Cell |-> IF c \in lo .. lo + n - 2 THEN c + 1 ELSE l.next[c]]
<1>1. /\ lo \in Nat /\ lo >= 1 /\ n \in Nat /\ n >= 1 /\ lo + n - 1 <= MaxCells
      /\ MaxCells \in Nat /\ s \in Seq(Cell) /\ l.next \in [Cell -> Cell \cup {NULL}]
  BY CellsAssumption DEF Cell, Shape, Links, ListTyped
<1>2. \A c \in lo .. lo + n - 1 : c \in Cell /\ c # NULL
  BY <1>1 DEF Cell, NULL
<1>3. next \in [Cell -> Cell \cup {NULL}]
  <2>1. \A c \in lo .. lo + n - 2 : c + 1 \in lo .. lo + n - 1
    BY <1>1
  <2> QED  BY <1>1, <1>2, <2>1
<1>4. /\ \A c \in Cell : c \in lo .. lo + n - 2 => next[c] = c + 1
      /\ \A c \in Cell : c \notin lo .. lo + n - 2 => next[c] = l.next[c]
  OBVIOUS
<1>5. /\ r \in Seq(Cell) /\ Len(r) = n /\ r # <<>>
      /\ \A j \in 1..n : r[j] = lo + j - 1
  <2>1. \A j \in 1..n : lo + j - 1 \in Cell
    BY <1>1, <1>2
  <2>2. r \in [1..n -> Cell] /\ \A j \in 1..n : r[j] = lo + j - 1
    BY <2>1 DEF Run
  <2> HIDE DEF r
  <2>3. r \in Seq(Cell) /\ Len(r) = n
    BY <1>1, <2>2
  <2> QED  BY <1>1, <2>2, <2>3, EmptyByLength
<1>6. t = [l EXCEPT !.freeindex = lo, !.next = next]
  BY DEF Chained
<1> HIDE DEF next, r, t
<1>7. /\ t.freeindex = lo /\ t.next = next /\ t.head = l.head /\ t.last = l.last
      /\ t.elts = l.elts /\ t.nalloc = l.nalloc /\ t.made = l.made /\ ListTyped(t)
  BY <1>3, <1>6 DEF ListTyped
<1>8. PartsOf(r) = lo .. lo + n - 1
  <2>1. \A j \in 1..n : r[j] \in lo .. lo + n - 1
    BY <1>1, <1>5
  <2>2. ASSUME NEW c \in lo .. lo + n - 1
        PROVE  c \in PartsOf(r)
    <3>1. c - lo + 1 \in 1..n /\ r[c - lo + 1] = c
      BY <1>1, <1>5
    <3> QED  BY <1>5, <3>1 DEF PartsOf
  <2> QED  BY <1>5, <2>1, <2>2 DEF PartsOf
<1>9. \A c \in Cell \ (lo .. lo + n - 1) : t.next[c] = l.next[c]
  <2>1. \A c \in Cell \ (lo .. lo + n - 1) : c \notin lo .. lo + n - 2
    BY <1>1
  <2> QED  BY <1>4, <1>7, <2>1
<1>10. Links(t, l.head, s)
  <2>1. \A j \in 1..Len(s) : s[j] \in Cell /\ s[j] \in PartsOf(s)
    BY <1>1, EmptyByLength DEF PartsOf
  <2>2. \A j \in 1..Len(s) : t.next[s[j]] = l.next[s[j]]
    BY <1>9, <2>1
  <2> QED  BY <2>2, LinksFrame DEF Shape
<1>11. Links(t, lo, r)
  <2>1. lo = r[1]
    BY <1>1, <1>5
  <2>2. ASSUME NEW j \in 1..n
        PROVE  next[r[j]] = IF j = n THEN NULL ELSE r[j + 1]
    <3>1. r[j] = lo + j - 1 /\ r[j] \in lo .. lo + n - 1 /\ r[j] \in Cell
      BY <1>1, <1>2, <1>5
    <3>2. CASE j = n
      <4>1. r[j] \notin lo .. lo + n - 2
        BY <1>1, <3>1, <3>2
      <4> QED  BY <1>4, <3>1, <3>2, <4>1
    <3>3. CASE j # n
      <4>1. r[j] \in lo .. lo + n - 2 /\ r[j + 1] = r[j] + 1
        BY <1>1, <1>5, <3>1, <3>3
      <4> QED  BY <1>4, <3>1, <3>3, <4>1
    <3> QED  BY <3>2, <3>3
  <2>3. \A j, k \in 1..n : r[j] = r[k] => j = k
    BY <1>1, <1>5
  <2> QED  BY <1>5, <1>7, <2>1, <2>2, <2>3 DEF Links
<1>12. Shape(t, s, r)
  BY <1>7, <1>8, <1>10, <1>11 DEF Shape
<1> QED  BY <1>5, <1>7, <1>8, <1>9, <1>12 DEF t, r

\* What was never cut off for parts holds nothing.
Blank(p, l) ==
  \A c \in Cell \ UsedIn(p, "part") : l.next[c] = NULL /\ l.elts[c] = NULL

\* P are all the parts; they hold data, each its own, and all there are.
Owns(p, elts, P) ==
  /\ P = UsedIn(p, "part")
  /\ \A c, d \in P : elts[c] = elts[d] /\ elts[c] # NULL => c = d
  /\ \A c \in P : elts[c] # NULL => elts[c] \in UsedIn(p, "data")
  /\ \A d \in UsedIn(p, "data") : \E c \in P : elts[c] = d

\* The inductive invariant of a list with the parts s, and f free, in pool p.
Whole(p, l, s, f) ==
  /\ PoolTyped(p) /\ ListTyped(l)
  /\ Shape(l, s, f)
  /\ Blank(p, l)
  /\ Cardinality(UsedIn(p, "part")) = l.nalloc
  /\ Owns(p, l.elts, PartsOf(s) \cup PartsOf(f))
  /\ \A i \in 1..Len(s) : l.elts[s[i]] # NULL
  /\ IF l.made THEN l.nalloc >= 1 ELSE s = <<>> /\ f = <<>> /\ l.nalloc = 0

\* What an allocation changes of what the cells serve.
LEMMA AllocUses ==
  ASSUME NEW p, PoolTyped(p), NEW n \in Nat \ {0}, NEW use \in Uses \ {"none"},
         NEW a \in Alloc(p, n, use)
  PROVE  /\ UsedIn(a.pool, use) = UsedIn(p, use) \cup (a.lo .. a.lo + n - 1)
         /\ \A u \in Uses \ {"none", use} : UsedIn(a.pool, u) = UsedIn(p, u)
         /\ \A c \in a.lo .. a.lo + n - 1 : c \in Cell /\ p.use[c] = "none"
<1>1. /\ a.lo \in Cell /\ a.lo > p.top /\ a.lo + n - 1 \in Cell
      /\ \A c \in Cell : a.pool.use[c] = IF c \in a.lo .. a.lo + n - 1
                                          THEN use ELSE p.use[c]
  <2>1. a.lo \in Cell /\ a.lo > p.top /\ a.lo + n - 1 \in Cell
    BY AllocReturns, Zenon
  <2>2. Cuts(a.pool, p, a.lo, n, use)
    BY AllocReturns, Zenon
  <2> QED  BY <2>1, <2>2, Zenon DEF Cuts
<1>2. p.top \in Nat /\ a.lo \in Nat /\ a.lo >= 1 /\ a.lo + n - 1 <= MaxCells /\ MaxCells \in Nat
  BY <1>1, CellsAssumption DEF PoolTyped, Cell
<1>3. ASSUME NEW c \in a.lo .. a.lo + n - 1
      PROVE  c \in Cell /\ p.use[c] = "none"
  <2>1. c \in Cell /\ c > p.top
    BY <1>1, <1>2 DEF Cell
  <2> QED  BY <2>1 DEF PoolTyped
<1>4. \A u \in Uses \ {"none", use} : UsedIn(a.pool, u) = UsedIn(p, u)
  BY <1>1, <1>3 DEF UsedIn
<1>5. UsedIn(a.pool, use) = UsedIn(p, use) \cup (a.lo .. a.lo + n - 1)
  BY <1>1, <1>3 DEF UsedIn
<1> QED  BY <1>3, <1>4, <1>5

LEMMA FiniteUse ==
  ASSUME NEW p, NEW use
  PROVE  IsFiniteSet(UsedIn(p, use)) /\ Cardinality(UsedIn(p, use)) \in Nat
<1>1. IsFiniteSet(Cell)
  BY CellsAssumption, UpTo DEF Cell
<1>2. UsedIn(p, use) \in SUBSET Cell
  BY DEF UsedIn
<1> QED  BY <1>1, <1>2, FS_Subset, FS_CardinalityType

LEMMA PartsGained ==
  ASSUME NEW p, PoolTyped(p), NEW n \in Nat \ {0}, NEW a \in Alloc(p, n, "part")
  PROVE  Cardinality(UsedIn(a.pool, "part")) = Cardinality(UsedIn(p, "part")) + n
<1> DEFINE new == a.lo .. a.lo + n - 1
           old == UsedIn(p, "part")
<1>1. UsedIn(a.pool, "part") = old \cup new /\ \A c \in new : p.use[c] = "none"
  BY AllocUses DEF Uses
<1>2. IsFiniteSet(old) /\ Cardinality(old) \in Nat
  BY FiniteUse
<1>3. IsFiniteSet(new) /\ Cardinality(new) = n
  <2>1. a.lo \in Int /\ a.lo + n - 1 \in Int /\ a.lo <= a.lo + n - 1
    BY AllocReturns DEF Uses, Cell
  <2>2. PICK x \in Int : x = a.lo
    BY <2>1
  <2>3. PICK y \in Int : y = a.lo + n - 1
    BY <2>1
  <2>4. IsFiniteSet(x..y) /\ Cardinality(x..y) = IF x > y THEN 0 ELSE y - x + 1
    BY FS_Interval
  <2>5. y - x + 1 = n /\ ~(x > y)
    BY <2>1, <2>2, <2>3
  <2> QED  BY <2>2, <2>3, <2>4, <2>5
<1>4. old \cap new = {}
  BY <1>1 DEF UsedIn
<1> HIDE DEF new, old
<1>5. Cardinality(old \cup new) = Cardinality(old) + Cardinality(new) - Cardinality(old \cap new)
  BY <1>2, <1>3, FS_Union
<1>6. Cardinality(old \cap new) = 0
  BY <1>4, FS_EmptySet
<1>7. Cardinality(old \cup new) = Cardinality(old) + n
  BY <1>2, <1>3, <1>5, <1>6
<1> QED  BY <1>1, <1>7 DEF old

\* What the array allocates leaves the list as it is.
LEMMA WholeUndisturbed ==
  ASSUME NEW p, NEW l, NEW s, NEW f, Whole(p, l, s, f),
         NEW n \in Nat \ {0}, NEW a \in Alloc(p, n, "array")
  PROVE  Whole(a.pool, l, s, f)
<1>1. UsedIn(a.pool, "part") = UsedIn(p, "part") /\ UsedIn(a.pool, "data") = UsedIn(p, "data")
  BY AllocUses DEF Whole, Uses
<1>2. PoolTyped(a.pool)
  BY AllocReturns DEF Whole, Uses
<1> QED  BY <1>1, <1>2 DEF Whole, Blank, Owns

\* The list with n parts more, from lo on.
Gained(l, lo, n) ==
  [Chained(l, lo, n) EXCEPT !.made = TRUE, !.nalloc = l.nalloc + n]

\* n parts from lo on join the list l, none of which is free.
LEMMA GainedWhole ==
  ASSUME NEW p, NEW l, NEW s, Whole(p, l, s, <<>>), NEW n \in Nat \ {0},
         NEW a \in Alloc(p, n, "part")
  PROVE  /\ \E h : h # <<>> /\ Whole(a.pool, Gained(l, a.lo, n), s, h)
         /\ Gained(l, a.lo, n).elts = l.elts
<1> DEFINE m == Gained(l, a.lo, n)
           q == a.pool
           lo == a.lo
           t == Chained(l, lo, n)
           h == Run(lo, n)
<1>1. PoolTyped(p) /\ PoolTyped(q) /\ lo \in Cell /\ lo + n - 1 \in Cell
  BY AllocReturns DEF Whole, Uses
<1>2. /\ UsedIn(q, "part") = UsedIn(p, "part") \cup (lo .. lo + n - 1)
      /\ UsedIn(q, "data") = UsedIn(p, "data")
      /\ \A c \in lo .. lo + n - 1 : c \in Cell /\ c \notin UsedIn(p, "part")
  <2>1. "part" \in Uses \ {"none"} /\ "data" \in Uses \ {"none", "part"}
    BY DEF Uses
  <2>2. /\ UsedIn(q, "part") = UsedIn(p, "part") \cup (lo .. lo + n - 1)
        /\ \A u \in Uses \ {"none", "part"} : UsedIn(q, u) = UsedIn(p, u)
        /\ \A c \in lo .. lo + n - 1 : c \in Cell /\ p.use[c] = "none"
    BY <1>1, <2>1, AllocUses, Zenon
  <2>3. \A c \in UsedIn(p, "part") : p.use[c] # "none"
    BY DEF UsedIn
  <2>. QED BY <2>1, <2>2, <2>3, Zenon
<1>3. /\ PartsOf(s) \cap (lo .. lo + n - 1) = {}
      /\ \A c \in lo .. lo + n - 1 : l.next[c] = NULL /\ l.elts[c] = NULL
  BY <1>2 DEF Whole, Owns, Blank
<1>4. /\ ListTyped(t) /\ Shape(t, s, h)
      /\ t.elts = l.elts /\ t.nalloc = l.nalloc
      /\ \A c \in Cell \ (lo .. lo + n - 1) : t.next[c] = l.next[c]
      /\ h # <<>> /\ PartsOf(h) = lo .. lo + n - 1
  <2>1. ListTyped(l) /\ Shape(l, s, <<>>)
    BY DEF Whole
  <2> HIDE DEF lo, q
  <2> QED  BY <1>1, <1>3, <2>1, ChainedShape
<1> HIDE DEF t, h
<1>5. /\ m.head = t.head /\ m.last = t.last /\ m.freeindex = t.freeindex /\ m.next = t.next
      /\ m.elts = l.elts /\ m.nalloc = l.nalloc + n /\ m.made /\ ListTyped(m)
  <2>1. l.nalloc + n \in Nat
    BY DEF Whole, ListTyped
  <2>2. m = [t EXCEPT !.made = TRUE, !.nalloc = l.nalloc + n]
    BY DEF t, Gained
  <2> HIDE DEF m
  <2> QED  BY <1>4, <2>1, <2>2 DEF ListTyped
<1> HIDE DEF m
<1>6. Shape(m, s, h)
  BY <1>4, <1>5 DEF Shape, Links
<1>7. Blank(q, m)
  BY <1>2, <1>4, <1>5 DEF Blank, Whole
<1>8. Cardinality(UsedIn(q, "part")) = m.nalloc
  BY <1>1, <1>5, PartsGained DEF Whole
<1>9. PartsOf(<<>>) = {}
  BY DEF PartsOf
<1>10. Owns(q, m.elts, PartsOf(s) \cup PartsOf(h))
  BY <1>2, <1>3, <1>4, <1>5, <1>9 DEF Owns, Whole
<1>11. m.nalloc >= 1
  BY <1>5 DEF Whole, ListTyped
<1>12. Whole(q, m, s, h)
  BY <1>1, <1>5, <1>6, <1>7, <1>8, <1>10, <1>11 DEF Whole
<1> QED  BY <1>4, <1>5, <1>12 DEF m

\* The list without its first free part.
Taken(l) == [l EXCEPT !.freeindex = l.next[l.freeindex], !.next[l.freeindex] = NULL]

LEMMA TakenKeeps ==
  ASSUME NEW p, NEW l, NEW s, NEW f, Whole(p, l, s, f), f # <<>>
  PROVE  LET i == l.freeindex
             t == Taken(l)
             g == Rest(f)
         IN  /\ i \in Cell /\ i \notin PartsOf(s) /\ i \notin PartsOf(g)
             /\ PartsOf(f) = PartsOf(g) \cup {i}
             /\ ListTyped(t) /\ Shape(t, s, g) /\ Blank(p, t) /\ t.next[i] = NULL
             /\ t.elts = l.elts /\ t.nalloc = l.nalloc /\ t.made = l.made
<1> DEFINE i == l.freeindex
           t == Taken(l)
           g == Rest(f)
<1>1. ListTyped(l) /\ Shape(l, s, f)
  BY DEF Whole
<1>2. /\ i \in Cell /\ i \in PartsOf(f)
      /\ ListTyped(t) /\ Shape(t, s, g)
      /\ i \notin PartsOf(s) /\ i \notin PartsOf(g) /\ t.next[i] = NULL
      /\ PartsOf(f) = PartsOf(g) \cup {i}
  BY <1>1, TakeShape DEF Taken
<1>3. /\ t.elts = l.elts /\ t.nalloc = l.nalloc /\ t.made = l.made
      /\ t.next = [l.next EXCEPT ![i] = NULL]
  BY <1>1 DEF Taken, ListTyped
<1> HIDE DEF t
<1>4. i \in UsedIn(p, "part")
  BY <1>2 DEF Whole, Owns
<1>5. Blank(p, t)
  BY <1>1, <1>3, <1>4 DEF Whole, Blank, ListTyped
<1> QED  BY <1>2, <1>3, <1>5 DEF t

\* The list after a push of the datum d.
Pushed(l, d) == Linked([Taken(l) EXCEPT !.elts[l.freeindex] = d], l.freeindex)

\* The part taken goes to the end of the list, with the datum d it has or with
\* one that is new in the pool q.
LEMMA PushedWhole ==
  ASSUME NEW p, NEW l, NEW s, NEW f, Whole(p, l, s, f), f # <<>>, l.made,
         NEW q, NEW d \in Cell, PoolTyped(q),
         UsedIn(q, "part") = UsedIn(p, "part"),
         \/ d = l.elts[l.freeindex] /\ UsedIn(q, "data") = UsedIn(p, "data")
         \/ /\ l.elts[l.freeindex] = NULL /\ d \notin UsedIn(p, "data")
            /\ UsedIn(q, "data") = UsedIn(p, "data") \cup {d}
  PROVE  /\ Whole(q, Pushed(l, d), Behind(s, l.freeindex), Rest(f))
         /\ \A j \in 1..Len(s) : Pushed(l, d).elts[s[j]] = l.elts[s[j]]
         /\ Pushed(l, d).elts[l.freeindex] = d
<1> DEFINE m == Pushed(l, d)
<1> DEFINE t == Taken(l)
           g == Rest(f)
<1> PICK i : i = l.freeindex
  OBVIOUS
<1> DEFINE u == [t EXCEPT !.elts[i] = d]
           e == Behind(s, i)
<1>1. /\ i \in Cell /\ i \notin PartsOf(s) /\ i \notin PartsOf(g)
      /\ PartsOf(f) = PartsOf(g) \cup {i}
      /\ ListTyped(t) /\ Shape(t, s, g) /\ Blank(p, t) /\ t.next[i] = NULL
      /\ t.elts = l.elts /\ t.nalloc = l.nalloc /\ t.made = l.made
  <2>1. l.freeindex \in Cell /\ l.freeindex \notin PartsOf(s) /\ l.freeindex \notin PartsOf(g)
    BY TakenKeeps
  <2>2. PartsOf(f) = PartsOf(g) \cup {l.freeindex}
    BY TakenKeeps
  <2>3. ListTyped(t) /\ Shape(t, s, g) /\ Blank(p, t) /\ t.next[l.freeindex] = NULL
    BY TakenKeeps
  <2>4. t.elts = l.elts /\ t.nalloc = l.nalloc /\ t.made = l.made
    BY TakenKeeps
  <2> QED  BY <2>1, <2>2, <2>3, <2>4
<1> HIDE DEF t, g
<1>2. /\ u.next = t.next /\ u.head = t.head /\ u.last = t.last /\ u.freeindex = t.freeindex
      /\ u.nalloc = t.nalloc /\ u.made = t.made
      /\ u.elts = [l.elts EXCEPT ![i] = d] /\ ListTyped(u)
  BY <1>1 DEF ListTyped
<1>3. m = Linked(u, i)
  BY DEF t, Pushed
<1> HIDE DEF u, m
<1>4. Shape(u, s, g)
  BY <1>1, <1>2 DEF Shape, Links
<1>5. /\ ListTyped(m) /\ Shape(m, e, g)
      /\ m.elts = u.elts /\ m.nalloc = u.nalloc /\ m.made = u.made
      /\ \A c \in Cell : c \notin PartsOf(s) => m.next[c] = u.next[c]
      /\ PartsOf(e) = PartsOf(s) \cup {i}
  <2>1. u.next[i] = NULL
    BY <1>1, <1>2
  <2>2. LET v == Linked(u, i)
         IN  /\ ListTyped(v) /\ Shape(v, Behind(s, i), g)
             /\ v.elts = u.elts /\ v.nalloc = u.nalloc /\ v.made = u.made
             /\ \A c \in Cell : c \notin PartsOf(s) => v.next[c] = u.next[c]
             /\ PartsOf(Behind(s, i)) = PartsOf(s) \cup {i}
    <3>1. /\ ListTyped(Linked(u, i)) /\ Shape(Linked(u, i), Behind(s, i), g)
          /\ PartsOf(Behind(s, i)) = PartsOf(s) \cup {i}
      BY <1>1, <1>2, <1>4, <2>1, LinkedShape
    <3>2. /\ Linked(u, i).elts = u.elts /\ Linked(u, i).nalloc = u.nalloc
          /\ Linked(u, i).made = u.made
      BY <1>1, <1>2, <1>4, <2>1, LinkedShape, ZenonT(30)
    <3>3. \A c \in Cell : c \notin PartsOf(s) => Linked(u, i).next[c] = u.next[c]
      BY <1>1, <1>2, <1>4, <2>1, LinkedShape
    <3> QED  BY <3>1, <3>2, <3>3
  <2> QED  BY <1>3, <2>2
<1>6. /\ l.elts \in [Cell -> Cell \cup {NULL}]
      /\ m.elts[i] = d /\ \A c \in Cell : c # i => m.elts[c] = l.elts[c]
  BY <1>1, <1>2, <1>5 DEF Whole, ListTyped
<1>7. /\ s \in Seq(Cell) /\ \A j \in 1..Len(s) : s[j] \in Cell /\ s[j] \in PartsOf(s)
  <2>1. s \in Seq(Cell)
    BY DEF Whole, Shape, Links
  <2> QED  BY <2>1, EmptyByLength DEF PartsOf
<1>8. d # NULL /\ i \in UsedIn(p, "part") /\ PartsOf(s) \subseteq UsedIn(p, "part")
  BY <1>1 DEF Whole, Owns, Cell, NULL
<1>9. Blank(q, m)
  BY <1>1, <1>2, <1>5, <1>6, <1>8 DEF Blank
<1>10. Owns(q, m.elts, PartsOf(e) \cup PartsOf(g))
  <2> DEFINE P == PartsOf(s) \cup PartsOf(f)
  <2>1. P = PartsOf(e) \cup PartsOf(g) /\ i \in P
    BY <1>1, <1>5
  <2>2. /\ P = UsedIn(p, "part") /\ P \subseteq Cell
        /\ \A a, b \in P : l.elts[a] = l.elts[b] /\ l.elts[a] # NULL => a = b
        /\ \A c \in P : l.elts[c] # NULL => l.elts[c] \in UsedIn(p, "data")
        /\ \A x \in UsedIn(p, "data") : x # NULL /\ \E c \in P : l.elts[c] = x
    BY DEF Whole, Owns, UsedIn, Cell, NULL
  <2> HIDE DEF P
  <2>3. CASE d = l.elts[i] /\ UsedIn(q, "data") = UsedIn(p, "data")
    <3>1. \A c \in P : m.elts[c] = l.elts[c]
      BY <1>6, <2>2, <2>3
    <3>2. Owns(q, m.elts, P)
      BY <2>2, <2>3, <3>1 DEF Owns
    <3> QED  BY <2>1, <3>2, Zenon
  <2>4. CASE /\ l.elts[i] = NULL /\ d \notin UsedIn(p, "data")
             /\ UsedIn(q, "data") = UsedIn(p, "data") \cup {d}
    <3>1. \A a, b \in P : m.elts[a] = m.elts[b] /\ m.elts[a] # NULL => a = b
      BY <1>6, <2>2, <2>4
    <3>2. \A c \in P : m.elts[c] # NULL => m.elts[c] \in UsedIn(q, "data")
      BY <1>6, <2>2, <2>4
    <3>3. \A x \in UsedIn(q, "data") : \E c \in P : m.elts[c] = x
      BY <1>6, <2>1, <2>2, <2>4
    <3>4. P = UsedIn(q, "part")
      BY <2>2
    <3>5. Owns(q, m.elts, P)
      BY <3>1, <3>2, <3>3, <3>4, Zenon DEF Owns
    <3> QED  BY <2>1, <3>5, Zenon
  <2> QED  BY <2>3, <2>4
<1>11. \A j \in 1..Len(s) : m.elts[s[j]] = l.elts[s[j]]
  BY <1>1, <1>6, <1>7
<1>12. \A j \in 1..Len(e) : m.elts[e[j]] # NULL
  <2>1. /\ Len(e) = Len(s) + 1 /\ Len(s) \in Nat
        /\ \A j \in 1 .. Len(s) + 1 : e[j] = IF j <= Len(s) THEN s[j] ELSE i
    <3>1. i \in Cell /\ s \in Seq(Cell)
      BY <1>1, <1>7
    <3> QED  BY <3>1, BehindElements, EmptyByLength
  <2>2. \A j \in 1..Len(s) : l.elts[s[j]] # NULL
    BY DEF Whole
  <2> QED  BY <1>6, <1>8, <1>11, <2>1, <2>2
<1>13. Whole(q, m, e, g)
  BY <1>1, <1>2, <1>5, <1>9, <1>10, <1>12 DEF Whole
<1> QED  BY <1>1, <1>6, <1>11, <1>13 DEF g, m

\* A part deleted from the list keeps its datum, and is free.
LEMMA DeletedWhole ==
  ASSUME NEW p, NEW l, NEW s, NEW f, Whole(p, l, s, f), NEW k \in 1..Len(s)
  PROVE  /\ Whole(p, Deleted(l, s, k), Without(s, k), Before(s[k], f))
         /\ Deleted(l, s, k).elts = l.elts
<1> DEFINE m == Deleted(l, s, k)
           w == Without(s, k)
           g == Before(s[k], f)
<1>1. /\ ListTyped(m) /\ Shape(m, w, g)
      /\ m.elts = l.elts /\ m.nalloc = l.nalloc /\ m.made = l.made
      /\ \A c \in Cell : c \notin PartsOf(s) => m.next[c] = l.next[c]
      /\ PartsOf(w) \cup PartsOf(g) = PartsOf(s) \cup PartsOf(f)
  BY FreedShape DEF Whole, Deleted
<1>2. s \in Seq(Cell) /\ s # <<>>
  BY DEF Whole, Shape, Links
<1>3. /\ Len(w) = Len(s) - 1 /\ Len(s) \in Nat
      /\ \A j \in 1 .. Len(s) - 1 : w[j] = IF j < k THEN s[j] ELSE s[j + 1]
  BY <1>2, WithoutElements, EmptyByLength
<1> HIDE DEF w, g, m
<1>4. Blank(p, m)
  BY <1>1 DEF Whole, Blank, Owns
<1>5. \A j \in 1..Len(w) : m.elts[w[j]] # NULL
  <2>1. \A j \in 1..Len(s) : l.elts[s[j]] # NULL
    BY DEF Whole
  <2>2. \A j \in 1..Len(w) : j \in 1..Len(s) /\ j + 1 \in 1..Len(s)
    BY <1>3
  <2> QED  BY <1>1, <1>3, <2>1, <2>2
<1>6. Owns(p, m.elts, PartsOf(w) \cup PartsOf(g)) /\ l.made
  BY <1>1, <1>2 DEF Whole
<1>7. Whole(p, m, w, g)
  BY <1>1, <1>4, <1>5, <1>6 DEF Whole
<1> QED  BY <1>1, <1>7 DEF w, g, m

-----------------------------------------------------------------------------
(* The steps.  s2 is s as a step of the list may change it: not at all, by a *)
(* part at its end, or by the loss of one part, while the others keep their  *)
(* data; call tells which, and the datum.                                    *)

PushOf(d) == [op |-> "push", d |-> d, ok |-> TRUE]
DeletionOf(d, ok) == [op |-> "delete", d |-> d, ok |-> ok]

Moves(s, s2) ==
  \/ /\ s2 = s /\ call' = call
     /\ \A j \in 1..Len(s) : list'.elts[s[j]] = list.elts[s[j]]
  \/ /\ \E i \in Cell : s2 = Behind(s, i) /\ call' = PushOf(list'.elts[i])
     /\ \A j \in 1..Len(s) : list'.elts[s[j]] = list.elts[s[j]]
  \/ \E k \in 1..Len(s) : /\ s2 = Without(s, k) /\ list'.elts = list.elts
                          /\ call' = DeletionOf(list.elts[s[k]], TRUE)
  \/ \E d \in Cell : /\ s2 = s /\ list'.elts = list.elts
                     /\ \A j \in 1..Len(s) : list.elts[s[j]] # d
                     /\ call' = DeletionOf(d, FALSE)

\* The program dies: what it leaves is as it was.
LEMMA CrashStep ==
  ASSUME NEW s, NEW f, Whole(pool, list, s, f), UNCHANGED <<pool, list, call>>
  PROVE  \E s2, f2 : Whole(pool', list', s2, f2) /\ Extends(pool', pool) /\ Moves(s, s2)
<1>1. Extends(pool', pool)
  BY DEF Extends, Whole, PoolTyped
<1> QED  BY <1>1 DEF Moves

LEMMA CreateStep ==
  ASSUME NEW s, NEW f, Whole(pool, list, s, f), NEW n \in PartCounts, ListCreate(n)
  PROVE  \E s2, f2 : Whole(pool', list', s2, f2) /\ Extends(pool', pool) /\ Moves(s, s2)
<1>1. n \in Nat \ {0} /\ "part" \in Uses \ {"none"}
  BY ListAssumption DEF Uses
<1>2. PoolTyped(pool) /\ ListTyped(list) /\ ~list.made /\ call' = call
  BY DEF Whole, ListCreate
<1>3. s = <<>> /\ f = <<>> /\ list.nalloc = 0
  BY <1>2 DEF Whole
<1>4. ASSUME NEW a \in Alloc(pool, n, "part"),
             pool' = a.pool,
             list' = [Chained(list, a.lo, n) EXCEPT !.made = TRUE, !.nalloc = n]
      PROVE  \E s2, f2 : Whole(pool', list', s2, f2) /\ Extends(pool', pool) /\ Moves(s, s2)
  <2>1. list' = Gained(list, a.lo, n)
    <3>1. list.nalloc + n = n
      BY <1>1, <1>3
    <3> QED  BY <1>4, <3>1 DEF Gained
  <2>2. \E h : h # <<>> /\ Whole(a.pool, list', s, h) /\ list'.elts = list.elts
    BY <1>1, <1>3, <2>1, GainedWhole
  <2>3. Extends(a.pool, pool)
    BY <1>1, <1>2, AllocReturns
  <2> QED  BY <1>2, <1>4, <2>2, <2>3 DEF Moves
<1>5. CASE UNCHANGED <<pool, list>>
  BY <1>2, <1>5, CrashStep
<1> QED  BY <1>4, <1>5 DEF ListCreate

\* A free part is found, or there are new ones.
LEMMA GrownStep ==
  ASSUME NEW s, NEW f, Whole(pool, list, s, f), list.made, NEW g \in Grown(list)
  PROVE  \E h : /\ h # <<>> /\ Whole(g.pool, g.list, s, h) /\ g.list.made
                /\ g.list.elts = list.elts /\ Extends(g.pool, pool)
<1>1. PoolTyped(pool) /\ ListTyped(list) /\ list.nalloc \in Nat \ {0}
  BY DEF Whole, ListTyped
<1>2. CASE list.freeindex # NULL
  <2>1. g = [list |-> list, pool |-> pool]
    BY <1>2 DEF Grown
  <2>2. f # <<>>
    BY <1>2 DEF Whole, Shape, Links
  <2>3. Extends(pool, pool)
    BY <1>1 DEF Extends, PoolTyped
  <2> QED  BY <2>1, <2>2, <2>3
<1>3. CASE list.freeindex = NULL
  <2>1. PICK a \in Alloc(pool, list.nalloc, "part") :
          g = [list |-> [Chained(list, a.lo, list.nalloc) EXCEPT !.nalloc = 2 * @],
               pool |-> a.pool]
    BY <1>3 DEF Grown
  <2>2. f = <<>>
    <3>1. f # <<>> => f[1] \in Cell /\ f[1] # NULL
      <4>1. f \in Seq(Cell)
        BY DEF Whole, Shape, Links
      <4>2. f # <<>> => 1 \in 1..Len(f)
        BY <4>1, EmptyByLength
      <4>3. f # <<>> => f[1] \in Cell
        BY <4>1, <4>2, EmptyByLength
      <4> QED  BY <4>3 DEF Cell, NULL
    <3> QED  BY <1>3, <3>1 DEF Whole, Shape, Links
  <2>3. g.list = Gained(list, a.lo, list.nalloc)
    <3> DEFINE t == Chained(list, a.lo, list.nalloc)
    <3>1. t = [list EXCEPT !.freeindex = t.freeindex, !.next = t.next]
      BY <1>1 DEF Chained, ListTyped
    <3> HIDE DEF t
    <3>2. t.made = list.made /\ t.nalloc = list.nalloc /\ t.made \in BOOLEAN
      BY <1>1, <3>1 DEF ListTyped
    <3>3. [t EXCEPT !.nalloc = 2 * @] = [t EXCEPT !.made = TRUE, !.nalloc = list.nalloc + list.nalloc]
      <4>1. 2 * t.nalloc = list.nalloc + list.nalloc /\ t.made = TRUE
        BY <1>1, <3>2
      <4> QED  BY <1>1, <3>1, <4>1 DEF ListTyped
    <3> QED  BY <2>1, <3>3 DEF t, Gained
  <2>4. \E h : h # <<>> /\ Whole(a.pool, g.list, s, h) /\ g.list.elts = list.elts
    BY <1>1, <2>1, <2>2, <2>3, GainedWhole
  <2>5. g.list.made
    BY <2>3, <1>1 DEF Gained, Chained, ListTyped
  <2>6. Extends(a.pool, pool)
    BY <1>1, AllocReturns DEF Uses
  <2> QED  BY <2>1, <2>4, <2>5, <2>6
<1> QED  BY <1>2, <1>3

LEMMA PushStep ==
  ASSUME NEW s, NEW f, Whole(pool, list, s, f), ListPush
  PROVE  \E s2, f2 : Whole(pool', list', s2, f2) /\ Extends(pool', pool) /\ Moves(s, s2)
<1>1. ASSUME NEW g \in Grown(list), NEW d \in Datum(g, g.list.freeindex),
             pool' = d.pool, list' = Pushed(g.list, d.lo), call' = PushOf(d.lo)
      PROVE  \E s2, f2 : Whole(pool', list', s2, f2) /\ Extends(pool', pool) /\ Moves(s, s2)
  <2>1. list.made /\ PoolTyped(pool)
    BY DEF ListPush, Whole
  <2>2. PICK h : /\ h # <<>> /\ Whole(g.pool, g.list, s, h) /\ g.list.made
                 /\ g.list.elts = list.elts /\ Extends(g.pool, pool)
    BY <2>1, GrownStep
  <2> PICK p, l : p = g.pool /\ l = g.list
    OBVIOUS
  <2>3. Whole(p, l, s, h) /\ l.made /\ PoolTyped(p) /\ Extends(p, pool) /\ l.elts = list.elts
    BY <2>2 DEF Whole
  <2>4. l.freeindex \in Cell /\ l.elts \in [Cell -> Cell \cup {NULL}]
    BY <2>2, <2>3, TakenKeeps DEF Whole, ListTyped
  <2>5. /\ d.lo \in Cell /\ PoolTyped(d.pool) /\ Extends(d.pool, pool)
        /\ UsedIn(d.pool, "part") = UsedIn(p, "part")
        /\ \/ d.lo = l.elts[l.freeindex] /\ UsedIn(d.pool, "data") = UsedIn(p, "data")
           \/ /\ l.elts[l.freeindex] = NULL /\ d.lo \notin UsedIn(p, "data")
              /\ UsedIn(d.pool, "data") = UsedIn(p, "data") \cup {d.lo}
    <3>1. CASE l.elts[l.freeindex] # NULL
      <4>1. d = [lo |-> l.elts[l.freeindex], pool |-> p]
        BY <1>1, <3>1 DEF Datum
      <4> QED  BY <2>3, <2>4, <3>1, <4>1
    <3>2. CASE l.elts[l.freeindex] = NULL
      <4>1. d \in Alloc(p, 1, "data")
        BY <1>1, <3>2 DEF Datum
      <4>2. PoolTyped(d.pool) /\ Extends(d.pool, p) /\ d.lo \in Cell
        BY <2>3, <4>1, AllocReturns DEF Uses
      <4>3. Extends(d.pool, pool)
        BY <2>1, <2>3, <4>2, ExtendsTransitive
      <4>4. /\ UsedIn(d.pool, "data") = UsedIn(p, "data") \cup (d.lo .. d.lo + 1 - 1)
            /\ UsedIn(d.pool, "part") = UsedIn(p, "part")
            /\ \A c \in d.lo .. d.lo + 1 - 1 : p.use[c] = "none"
        BY <2>3, <4>1, AllocUses DEF Uses
      <4>5. d.lo .. d.lo + 1 - 1 = {d.lo}
        BY <4>2 DEF Cell
      <4>6. d.lo \notin UsedIn(p, "data")
        BY <4>4, <4>5 DEF UsedIn
      <4> QED  BY <3>2, <4>2, <4>3, <4>4, <4>5, <4>6
    <3> QED  BY <3>1, <3>2
  <2>6. list' = Pushed(l, d.lo)
    BY <1>1
  <2>7. /\ Whole(d.pool, list', Behind(s, l.freeindex), Rest(h))
        /\ \A j \in 1..Len(s) : list'.elts[s[j]] = l.elts[s[j]]
        /\ list'.elts[l.freeindex] = d.lo
    BY <2>2, <2>3, <2>5, <2>6, PushedWhole
  <2> QED  BY <1>1, <2>3, <2>4, <2>5, <2>7 DEF Moves
<1>2. CASE UNCHANGED <<pool, list, call>>
  BY <1>2, CrashStep
<1>3. \/ UNCHANGED <<pool, list, call>>
      \/ \E g \in Grown(list) : \E d \in Datum(g, g.list.freeindex) :
           pool' = d.pool /\ list' = Pushed(g.list, d.lo) /\ call' = PushOf(d.lo)
  BY DEF ListPush, Taken, Pushed, PushOf
<1> QED  BY <1>1, <1>2, <1>3

LEMMA DeleteStep ==
  ASSUME NEW s, NEW f, Whole(pool, list, s, f), NEW d \in Cell, ListDelete(d)
  PROVE  \E s2, f2 : Whole(pool', list', s2, f2) /\ Extends(pool', pool) /\ Moves(s, s2)
<1> DEFINE found == {k \in DOMAIN s : list.elts[s[k]] = d}
<1>1. Chain(list, list.head) = s /\ s \in Seq(Cell)
  BY ChainIs DEF Whole, Shape, Links, ListTyped, NextTyped
<1>2. pool' = pool /\ Extends(pool, pool)
  BY DEF ListDelete, Extends, Whole, PoolTyped
<1>3. \/ UNCHANGED <<list, call>>
      \/ /\ found = {} /\ list' = list
         /\ call' = DeletionOf(d, FALSE)
      \/ \E k \in found : list' = Deleted(list, s, k) /\ call' = DeletionOf(d, TRUE)
  BY <1>1, Zenon DEF ListDelete, DeletionOf
<1>4. CASE UNCHANGED <<list, call>>
  BY <1>2, <1>4, CrashStep
<1>5. CASE found = {} /\ list' = list /\ call' = DeletionOf(d, FALSE)
  <2>1. \A j \in 1..Len(s) : list.elts[s[j]] # d
    BY <1>1, <1>5
  <2> QED  BY <1>2, <1>5, <2>1 DEF Moves
<1>6. ASSUME NEW k \in found, list' = Deleted(list, s, k), call' = DeletionOf(d, TRUE)
      PROVE  \E s2, f2 : Whole(pool', list', s2, f2) /\ Extends(pool', pool) /\ Moves(s, s2)
  <2>1. k \in 1..Len(s) /\ list.elts[s[k]] = d
    BY <1>1
  <2>2. Whole(pool, list', Without(s, k), Before(s[k], f)) /\ list'.elts = list.elts
    BY <1>6, <2>1, DeletedWhole
  <2> QED  BY <1>2, <1>6, <2>1, <2>2 DEF Moves
<1> QED  BY <1>3, <1>4, <1>5, <1>6

LEMMA ListStep ==
  ASSUME NEW s, NEW f, Whole(pool, list, s, f), ListNext
  PROVE  \E s2, f2 : Whole(pool', list', s2, f2) /\ Extends(pool', pool) /\ Moves(s, s2)
<1>1. Used("data") \subseteq Cell
  BY DEF Used
<1> QED  BY <1>1, CreateStep, PushStep, DeleteStep DEF ListNext

\* A step of the array: no element is lost, and what it allocates is for arrays.
LEMMA ArrayStep ==
  ASSUME PoolTyped(pool), ArrayKept(pool, array), ArrayNext
  PROVE  /\ ArrayKept(pool', array')
         /\ array'.used = array.used \/ \E n \in PushCounts : array'.used = array.used + n
         /\ pool' = pool \/ \E n \in Nat \ {0} : \E a \in Alloc(pool, n, "array") : pool' = a.pool
<1>1. array.used \in Nat /\ array.nalloc \in Nat /\ array.elts \in Cell \cup {NULL}
  BY DEF ArrayKept, ArrayTyped
<1>2. ASSUME NEW n \in ElementCounts, array.elts = NULL,
             NEW a \in Alloc(pool, n, "array"),
             pool' = a.pool, array' = [array EXCEPT !.elts = a.lo, !.nalloc = n]
      PROVE  ArrayKept(pool', array') /\ array'.used = array.used /\ n \in Nat \ {0}
  <2>1. n \in Nat \ {0}
    BY ArrayAssumption
  <2>2. PoolTyped(a.pool) /\ a.lo \in Cell
    BY <2>1, AllocReturns DEF Uses
  <2>3. /\ array'.elts = a.lo /\ array'.nalloc = n /\ array'.used = array.used
        /\ array'.mem = array.mem /\ ArrayTyped(array')
    BY <1>2, <2>1, <2>2 DEF ArrayKept, ArrayTyped
  <2>4. array.used = 0 /\ a.lo # NULL
    BY <1>2, <2>2 DEF ArrayKept, Roomy, Cell, NULL
  <2>5. a.lo .. a.lo + n - 1 \subseteq UsedIn(a.pool, "array")
    BY <2>1, AllocUses DEF Uses
  <2>6. Roomy(a.pool, array') /\ Stored(array')
    BY <2>1, <2>3, <2>4, <2>5 DEF Roomy, Stored
  <2> QED  BY <1>2, <2>1, <2>3, <2>6 DEF ArrayKept
<1>3. ASSUME NEW n \in PushCounts, array.elts # NULL, Fits(array, n),
             array' = Extended(array, n), pool' = pool
      PROVE  ArrayKept(pool', array') /\ array'.used = array.used + n
  <2>1. n \in Nat \ {0} /\ array.used + n <= array.nalloc
    BY <1>3, ArrayAssumption DEF Fits
  <2>2. ArrayKept(pool, Extended(array, n)) /\ Extended(array, n).used = array.used + n
    BY <1>3, <2>1, ExtendedKeeps
  <2> QED  BY <1>3, <2>2
<1>4. ASSUME NEW n \in PushCounts, array.elts # NULL, NEW m, m = Multiple(array, n),
             NEW a \in Alloc(pool, array.nalloc * m, "array"),
             pool' = a.pool, array' = Extended(Roomier(array, a.lo, m), n)
      PROVE  /\ ArrayKept(pool', array') /\ array'.used = array.used + n
             /\ array.nalloc * m \in Nat \ {0}
  <2>1. n \in Nat \ {0} /\ array.nalloc >= 1 /\ array.used <= array.nalloc
    BY <1>4, ArrayAssumption DEF ArrayKept, Roomy
  <2>2. m \in 2 .. n + 2 /\ array.used + n <= array.nalloc * m
    BY <1>4, <2>1, MultipleSuffices DEF ArrayKept
  <2>3. m \in Nat /\ m >= 2 /\ array.nalloc * m \in Nat \ {0}
    <3>1. array.nalloc * m >= array.used + n /\ array.used + n >= 1
      BY <1>1, <2>1, <2>2
    <3> QED  BY <1>1, <2>1, <2>2, <3>1
  <2>4. PoolTyped(a.pool) /\ Extends(a.pool, pool) /\ a.lo \in Cell /\ a.lo > pool.top
    BY <2>3, AllocReturns DEF Uses
  <2> DEFINE r == Roomier(array, a.lo, m)
  <2>5. a.lo .. a.lo + array.nalloc * m - 1 \subseteq UsedIn(a.pool, "array")
    BY <2>3, AllocUses DEF Uses
  <2>6. /\ ArrayKept(a.pool, r)
        /\ r.elts # NULL /\ r.used = array.used /\ r.nalloc >= array.nalloc * m
    BY <1>4, <2>3, <2>4, <2>5, RoomierKeeps
  <2>7. array' = Extended(r, n)
    BY <1>4
  <2> HIDE DEF r
  <2>8. r.used + n <= r.nalloc
    <3>1. r.nalloc \in Nat
      BY <2>6 DEF ArrayKept, ArrayTyped
    <3> QED  BY <1>1, <2>1, <2>2, <2>3, <2>6, <3>1
  <2>9. ArrayKept(a.pool, Extended(r, n)) /\ Extended(r, n).used = array.used + n
    BY <2>1, <2>6, <2>8, ExtendedKeeps
  <2> QED  BY <1>4, <2>3, <2>7, <2>9
<1>5. \/ UNCHANGED <<pool, array>>
      \/ \E n \in ElementCounts :
           /\ array.elts = NULL
           /\ \E a \in Alloc(pool, n, "array") :
                pool' = a.pool /\ array' = [array EXCEPT !.elts = a.lo, !.nalloc = n]
      \/ \E n \in PushCounts :
           array.elts # NULL /\ Fits(array, n) /\ array' = Extended(array, n) /\ pool' = pool
      \/ \E n \in PushCounts :
           /\ array.elts # NULL
           /\ \E m : /\ m = Multiple(array, n)
                     /\ \E a \in Alloc(pool, array.nalloc * m, "array") :
                          pool' = a.pool /\ array' = Extended(Roomier(array, a.lo, m), n)
  BY DEF ArrayNext, ArrayCreate, ArrayPush
<1> QED  BY <1>2, <1>3, <1>4, <1>5

-----------------------------------------------------------------------------
(* The inductive invariant, and what follows from it.                       *)

IInv ==
  /\ \E s, f : Whole(pool, list, s, f)
  /\ ArrayKept(pool, array)

LEMMA InitIInv == Init => IInv
<1> SUFFICES ASSUME Init PROVE IInv
  OBVIOUS
<1>1. pool = [top |-> 0, gaps |-> 0, use |-> [c \in Cell |-> "none"]] /\ PoolTyped(pool)
  BY CellsAssumption DEF Init, PoolInit, PoolTyped, Uses
<1>2. \A use \in Uses \ {"none"} : UsedIn(pool, use) = {}
  BY <1>1 DEF UsedIn, Uses
<1>3. /\ list.head = NULL /\ list.last = NULL /\ list.freeindex = NULL /\ ~list.made
      /\ list.nalloc = 0 /\ list.next = [c \in Cell |-> NULL]
      /\ list.elts = [c \in Cell |-> NULL] /\ ListTyped(list)
  BY DEF Init, ListInit, ListTyped
<1>4. <<>> \in Seq(Cell) /\ Len(<<>>) = 0 /\ PartsOf(<<>>) = {}
  BY DEF PartsOf
<1>5. Shape(list, <<>>, <<>>)
  BY <1>3, <1>4 DEF Shape, Links
<1>6. UsedIn(pool, "part") = {} /\ UsedIn(pool, "data") = {}
  BY <1>2 DEF Uses
<1>7. Blank(pool, list) /\ Owns(pool, list.elts, PartsOf(<<>>) \cup PartsOf(<<>>))
  BY <1>3, <1>4, <1>6 DEF Blank, Owns
<1>8. Cardinality(UsedIn(pool, "part")) = list.nalloc
  BY <1>3, <1>6, FS_EmptySet
<1>9. Whole(pool, list, <<>>, <<>>)
  BY <1>1, <1>3, <1>4, <1>5, <1>7, <1>8 DEF Whole
<1>10. ArrayKept(pool, array)
  BY DEF Init, ArrayInit, ArrayKept, ArrayTyped, Roomy, Stored
<1> QED  BY <1>9, <1>10 DEF IInv

\* A step of the list does to its parts what Moves says; one of the array
\* leaves them alone.
LEMMA NextWhole ==
  ASSUME NEW s, NEW f, Whole(pool, list, s, f), ArrayKept(pool, array), [Next]_vars
  PROVE  /\ \E s2, f2 : Whole(pool', list', s2, f2) /\ Moves(s, s2)
         /\ ArrayKept(pool', array')
         /\ array'.used = array.used \/ \E n \in PushCounts : array'.used = array.used + n
<1>1. PoolTyped(pool)
  BY DEF Whole
<1>2. CASE ListNext /\ UNCHANGED array
  <2>1. PICK s2, f2 : Whole(pool', list', s2, f2) /\ Extends(pool', pool) /\ Moves(s, s2)
    BY <1>2, ListStep
  <2>2. ArrayKept(pool', array')
    BY <1>1, <1>2, <2>1, ArrayUndisturbed
  <2> QED  BY <1>2, <2>1, <2>2
<1>3. CASE ArrayNext /\ UNCHANGED <<list, call>>
  <2>1. /\ ArrayKept(pool', array')
        /\ array'.used = array.used \/ \E n \in PushCounts : array'.used = array.used + n
        /\ pool' = pool \/ \E n \in Nat \ {0} : \E a \in Alloc(pool, n, "array") : pool' = a.pool
    BY <1>1, <1>3, ArrayStep
  <2>2. Whole(pool', list', s, f)
    BY <1>3, <2>1, WholeUndisturbed
  <2> QED  BY <1>3, <2>1, <2>2 DEF Moves
<1>4. CASE UNCHANGED vars
  BY <1>4 DEF vars, Moves
<1> QED  BY <1>2, <1>3, <1>4 DEF Next

LEMMA NextIInv == IInv /\ [Next]_vars => IInv'
<1> SUFFICES ASSUME IInv, [Next]_vars PROVE IInv'
  OBVIOUS
<1>1. PICK s, f : Whole(pool, list, s, f)
  BY DEF IInv
<1>2. /\ \E s2, f2 : Whole(pool', list', s2, f2) /\ Moves(s, s2)
      /\ ArrayKept(pool', array')
  BY <1>1, NextWhole DEF IInv
<1> QED  BY <1>2 DEF IInv

\* ArrayInItsMemory: the array's elements, and the room up to nalloc, are
\* memory that art_array_npush got from the pool, in one region or in several
\* that happened to follow each other.
THEOREM ArrayStaysInItsMemory == Spec => []ArrayInItsMemory
<1>1. IInv => ArrayInItsMemory
  BY DEF IInv, ArrayKept, Roomy, ArrayInItsMemory, Used, UsedIn
<1> QED  BY InitIInv, NextIInv, <1>1, PTL DEF Spec

LEMMA ListIs ==
  ASSUME NEW p, NEW l, NEW s, NEW f, Whole(p, l, s, f)
  PROVE  Chain(l, l.head) = s /\ Chain(l, l.freeindex) = f
BY ChainIs DEF Whole, Shape, ListTyped, NextTyped

LEMMA WholeLinked ==
  ASSUME NEW s, NEW f, Whole(pool, list, s, f)
  PROVE  ListLinked
<1>1. InList = s /\ Free = f /\ s \in Seq(Cell) /\ f \in Seq(Cell)
  BY ListIs DEF InList, Free, Whole, Shape, Links
<1>2. /\ list.head = IF s = <<>> THEN NULL ELSE s[1]
      /\ list.last = IF s = <<>> THEN NULL ELSE s[Len(s)]
      /\ \A i, j \in 1..Len(s) : s[i] = s[j] => i = j
      /\ \A i, j \in 1..Len(f) : f[i] = f[j] => i = j
      /\ PartsOf(s) \cap PartsOf(f) = {}
  BY DEF Whole, Shape, Links
<1>3. \A i \in 1..Len(s), j \in 1..Len(f) : s[i] # f[j]
  BY <1>2 DEF PartsOf
<1>4. list.head = NULL <=> s = <<>>
  <2>1. s # <<>> => 1 \in 1..Len(s)
    BY <1>1, EmptyByLength
  <2>2. s # <<>> => s[1] \in Cell
    BY <1>1, <2>1, EmptyByLength
  <2> QED  BY <1>2, <2>2 DEF Cell, NULL
<1>5. DOMAIN s = 1..Len(s) /\ DOMAIN f = 1..Len(f)
  BY <1>1
<1> QED  BY <1>1, <1>2, <1>3, <1>4, <1>5 DEF ListLinked

LEMMA WholeKept ==
  ASSUME NEW s, NEW f, Whole(pool, list, s, f)
  PROVE  PartsKept
<1> DEFINE P == PartsOf(s) \cup PartsOf(f)
           with == {c \in P : list.elts[c] # NULL}
           data == {list.elts[c] : c \in P} \ {NULL}
<1>1. InList = s /\ Free = f /\ s \in Seq(Cell) /\ f \in Seq(Cell)
  BY ListIs DEF InList, Free, Whole, Shape, Links
<1>2. DOMAIN s = 1..Len(s) /\ DOMAIN f = 1..Len(f)
  BY <1>1
<1>3. /\ {InList[i] : i \in DOMAIN InList} = PartsOf(s)
      /\ {Free[i] : i \in DOMAIN Free} = PartsOf(f)
  BY <1>1, <1>2 DEF PartsOf
<1>4. /\ P = UsedIn(pool, "part")
      /\ \A c, d \in P : list.elts[c] = list.elts[d] /\ list.elts[c] # NULL => c = d
      /\ \A c \in P : list.elts[c] # NULL => list.elts[c] \in UsedIn(pool, "data")
      /\ \A d \in UsedIn(pool, "data") : d # NULL /\ \E c \in P : list.elts[c] = d
  BY DEF Whole, Owns, UsedIn, Cell, NULL
<1>5. Used("part") = UsedIn(pool, "part") /\ Used("data") = UsedIn(pool, "data")
  BY DEF Used, UsedIn
<1> HIDE DEF P
<1>6. data = Used("data")
  BY <1>4, <1>5
<1>7. Cardinality(data) = Cardinality(with)
  <2> DEFINE g == [c \in with |-> list.elts[c]]
  <2>1. g \in Bijection(with, data)
    <3>1. g \in [with -> data]
      OBVIOUS
    <3>2. \A a, b \in with : g[a] = g[b] => a = b
      BY <1>4
    <3>3. \A d \in data : \E c \in with : g[c] = d
      OBVIOUS
    <3> HIDE DEF g, with, data
    <3> QED  BY <3>1, <3>2, <3>3 DEF Bijection, Injection, Surjection, IsInjective
  <2>2. IsFiniteSet(with)
    <3>1. with \in SUBSET UsedIn(pool, "part")
      BY <1>4
    <3> HIDE DEF with
    <3> QED  BY <3>1, FiniteUse, FS_Subset
  <2> HIDE DEF g, with, data
  <2>3. ExistsBijection(with, data)
    BY <2>1 DEF ExistsBijection
  <2> QED  BY <2>2, <2>3, FS_Bijection
<1>8. \A c \in PartsOf(s) : list.elts[c] # NULL
  BY DEF Whole, PartsOf
<1>9. Cardinality(Used("part")) = list.nalloc
  BY <1>5 DEF Whole
<1>10. /\ Cardinality(Used("part")) = list.nalloc
       /\ P = Used("part")
       /\ data = Used("data")
       /\ Cardinality(data) = Cardinality({c \in P : list.elts[c] # NULL})
       /\ \A c \in PartsOf(s) : list.elts[c] # NULL
  BY <1>4, <1>5, <1>6, <1>7, <1>8, <1>9
<1> QED  BY <1>3, <1>10 DEF PartsKept, P

\* ListWhole: after any sequence of art_list_push and art_list_delete, with
\* growth in between, head, last and the free chain are right, each part is in
\* one of the two chains once, and no part or datum is lost.
THEOREM ListStaysWhole == Spec => []ListWhole
<1>1. IInv => ListWhole
  BY WholeLinked, WholeKept DEF IInv, ListWhole
<1> QED  BY InitIInv, NextIInv, <1>1, PTL DEF Spec

-----------------------------------------------------------------------------
(* The list keeps the promises of Items, the array those of Row.             *)

\* The data of the parts of s.
DataOf(l, s) == [i \in 1..Len(s) |-> l.elts[s[i]]]

LEMMA DataOfElements ==
  ASSUME NEW p, NEW l, NEW s, NEW f, Whole(p, l, s, f)
  PROVE  /\ DataOf(l, s) \in Seq(Cell \cup {NULL}) /\ Len(DataOf(l, s)) = Len(s)
         /\ s \in Seq(Cell) /\ Len(s) \in Nat
         /\ \A j \in 1..Len(s) : DataOf(l, s)[j] = l.elts[s[j]]
<1>1. s \in Seq(Cell) /\ l.elts \in [Cell -> Cell \cup {NULL}]
  BY DEF Whole, Shape, Links, ListTyped
<1>2. Len(s) \in Nat /\ \A j \in 1..Len(s) : s[j] \in Cell
  BY <1>1, EmptyByLength
<1>3. DataOf(l, s) \in [1..Len(s) -> Cell \cup {NULL}]
  BY <1>1, <1>2 DEF DataOf
<1>4. \A j \in 1..Len(s) : DataOf(l, s)[j] = l.elts[s[j]]
  BY DEF DataOf
<1>5. DataOf(l, s) \in Seq(Cell \cup {NULL}) /\ Len(DataOf(l, s)) = Len(s)
  BY <1>2, <1>3
<1> QED  BY <1>1, <1>2, <1>4, <1>5

LEMMA DataStep ==
  ASSUME NEW s, NEW f, NEW s2, NEW f2, Whole(pool, list, s, f), Whole(pool', list', s2, f2),
         Moves(s, s2)
  PROVE  LET x == DataOf(list, s)
             y == DataOf(list', s2)
         IN  \/ y = x /\ call' = call
             \/ \E d \in Cell : /\ \A j \in DOMAIN x : x[j] # d
                               /\ y = Append(x, d) /\ call' = PushOf(d)
             \/ \E k \in DOMAIN x : /\ x[k] \in Cell
                                    /\ y = Without(x, k) /\ call' = DeletionOf(x[k], TRUE)
             \/ \E d \in Cell : /\ \A j \in DOMAIN x : x[j] # d
                               /\ y = x /\ call' = DeletionOf(d, FALSE)
<1> DEFINE x == DataOf(list, s)
           y == DataOf(list', s2)
           D == Cell \cup {NULL}
<1>1. /\ x \in Seq(D) /\ Len(x) = Len(s) /\ s \in Seq(Cell) /\ Len(s) \in Nat
      /\ \A j \in 1..Len(s) : x[j] = list.elts[s[j]]
  BY DataOfElements
<1>2. /\ y \in Seq(D) /\ Len(y) = Len(s2) /\ s2 \in Seq(Cell) /\ Len(s2) \in Nat
      /\ \A j \in 1..Len(s2) : y[j] = list'.elts[s2[j]]
  BY DataOfElements
<1> HIDE DEF x, y, D
<1>3. DOMAIN x = 1..Len(s)
  BY <1>1
<1>4. ASSUME s2 = s, \A j \in 1..Len(s) : list'.elts[s[j]] = list.elts[s[j]]
      PROVE  y = x
  <2>1. Len(x) = Len(y) /\ \A j \in 1..Len(x) : x[j] = y[j]
    BY <1>1, <1>2, <1>4
  <2> QED  BY <1>1, <1>2, <2>1, SeqEqual
<1>5. ASSUME NEW k \in 1..Len(s), s2 = Without(s, k), list'.elts = list.elts
      PROVE  y = Without(x, k) /\ x[k] = list.elts[s[k]] /\ x[k] \in Cell
  <2>1. /\ Len(s2) = Len(s) - 1
        /\ \A j \in 1 .. Len(s) - 1 : s2[j] = IF j < k THEN s[j] ELSE s[j + 1]
    BY <1>1, <1>5, WithoutElements
  <2>2. /\ Without(x, k) \in Seq(D) /\ Len(Without(x, k)) = Len(x) - 1
        /\ \A j \in 1 .. Len(x) - 1 :
             Without(x, k)[j] = IF j < k THEN x[j] ELSE x[j + 1]
    BY <1>1, WithoutElements
  <2>3. ASSUME NEW j \in 1..Len(y)
        PROVE  y[j] = Without(x, k)[j]
    <3>1. /\ j \in 1 .. Len(s) - 1 /\ j \in 1..Len(s2) /\ j \in 1 .. Len(x) - 1
          /\ j \in 1..Len(s) /\ j + 1 \in 1..Len(s)
      BY <1>1, <1>2, <2>1
    <3>2. y[j] = list.elts[s2[j]]
      BY <1>2, <1>5, <3>1
    <3>3. CASE j < k
      BY <1>1, <2>1, <2>2, <3>1, <3>2, <3>3
    <3>4. CASE ~(j < k)
      <4>1. s2[j] = s[j + 1] /\ Without(x, k)[j] = x[j + 1]
        BY <2>1, <2>2, <3>1, <3>4
      <4> QED  BY <1>1, <3>1, <3>2, <4>1
    <3> QED  BY <3>3, <3>4
  <2>4. Len(y) = Len(Without(x, k))
    BY <1>1, <1>2, <2>1, <2>2
  <2>5. y = Without(x, k)
    BY <1>2, <2>2, <2>3, <2>4, SeqEqual
  <2>6. x[k] = list.elts[s[k]] /\ x[k] \in Cell
    <3>1. s[k] \in Cell
      BY <1>1, EmptyByLength
    <3> QED  BY <1>1, <3>1 DEF Whole, ListTyped
  <2> QED  BY <2>5, <2>6
<1>6. ASSUME NEW i \in Cell, s2 = Behind(s, i),
             \A j \in 1..Len(s) : list'.elts[s[j]] = list.elts[s[j]]
      PROVE  /\ y = Append(x, list'.elts[i]) /\ list'.elts[i] \in Cell
             /\ \A j \in 1..Len(s) : x[j] # list'.elts[i]
  <2> DEFINE d == list'.elts[i]
             last == Len(s) + 1
  <2>1. /\ Len(s2) = last /\ s2[last] = i
        /\ \A j \in 1..Len(s) : s2[j] = s[j] /\ j \in 1..last /\ j # last
        /\ last \in 1..last
    <3>1. /\ Len(s2) = Len(s) + 1
          /\ \A j \in 1 .. Len(s) + 1 : s2[j] = IF j <= Len(s) THEN s[j] ELSE i
      BY <1>1, <1>6, BehindElements
    <3> QED  BY <1>1, <3>1
  <2>2. d \in Cell
    <3>1. list'.elts \in [Cell -> D] /\ list'.elts[s2[last]] # NULL
      BY <2>1 DEF Whole, ListTyped, D
    <3> QED  BY <1>6, <2>1, <3>1 DEF D
  <2>3. ASSUME NEW j \in 1..Len(s)
        PROVE  x[j] # d
    <3>1. s2[j] # s2[last] /\ s2[j] \in PartsOf(s2) /\ s2[last] \in PartsOf(s2)
      <4>1. \A a, b \in 1..Len(s2) : s2[a] = s2[b] => a = b
        BY DEF Whole, Shape, Links
      <4> QED  BY <2>1, <4>1 DEF PartsOf
    <3>2. list'.elts[s2[j]] # NULL
      BY <2>1 DEF Whole
    <3>3. list'.elts[s2[j]] # list'.elts[s2[last]]
      BY <3>1, <3>2 DEF Whole, Owns
    <3> QED  BY <1>1, <1>6, <2>1, <3>3
  <2> HIDE DEF d
  <2>4. /\ Append(x, d) \in Seq(D) /\ Len(Append(x, d)) = last
        /\ \A j \in 1..last : Append(x, d)[j] = IF j <= Len(s) THEN x[j] ELSE d
    BY <1>1, <2>2 DEF D
  <2>5. ASSUME NEW j \in 1..last
        PROVE  y[j] = Append(x, d)[j]
    <3>1. CASE j \in 1..Len(s)
      BY <1>1, <1>2, <1>6, <2>1, <2>4, <3>1
    <3>2. CASE j = last
      BY <1>1, <1>2, <2>1, <2>4, <3>2 DEF d
    <3> QED  BY <1>1, <3>1, <3>2
  <2>6. y = Append(x, d)
    BY <1>2, <2>1, <2>4, <2>5, SeqEqual
  <2> QED  BY <2>2, <2>3, <2>6 DEF d
<1>7. CASE /\ s2 = s /\ call' = call
           /\ \A j \in 1..Len(s) : list'.elts[s[j]] = list.elts[s[j]]
  BY <1>4, <1>7 DEF x, y
<1>8. CASE /\ \E i \in Cell : s2 = Behind(s, i) /\ call' = PushOf(list'.elts[i])
           /\ \A j \in 1..Len(s) : list'.elts[s[j]] = list.elts[s[j]]
  BY <1>3, <1>6, <1>8 DEF x, y
<1>9. ASSUME NEW k \in 1..Len(s), s2 = Without(s, k), list'.elts = list.elts,
             call' = DeletionOf(list.elts[s[k]], TRUE)
      PROVE  \E i \in DOMAIN x : /\ x[i] \in Cell
                                 /\ y = Without(x, i) /\ call' = DeletionOf(x[i], TRUE)
  BY <1>3, <1>5, <1>9
<1>10. ASSUME NEW d \in Cell, s2 = s, list'.elts = list.elts,
              \A j \in 1..Len(s) : list.elts[s[j]] # d, call' = DeletionOf(d, FALSE)
       PROVE  /\ \A j \in DOMAIN x : x[j] # d
              /\ y = x /\ call' = DeletionOf(d, FALSE)
  BY <1>1, <1>3, <1>4, <1>10
<1> QED  BY <1>7, <1>8, <1>9, <1>10 DEF Moves, x, y

\* ListIsItems: art_list_push appends the datum it returns, which is not in
\* the list; art_list_delete takes out the datum it is given and no other, and
\* answers ART_ERROR just when it is not there; nothing else changes the data.
THEOREM ListImplementsItems == Spec => ListIsItems
<1>1. ASSUME NEW s, NEW f, Whole(pool, list, s, f)
      PROVE  [i \in DOMAIN InList |-> list.elts[InList[i]]] = DataOf(list, s)
  <2>1. InList = s /\ DOMAIN s = 1..Len(s)
    <3>1. InList = s
      BY <1>1, ListIs DEF InList
    <3>2. s \in Seq(Cell)
      BY <1>1 DEF Whole, Shape, Links
    <3> QED  BY <3>1, <3>2
  <2> QED  BY <2>1 DEF DataOf
<1>2. Init => Promised!Init
  <2> SUFFICES ASSUME Init PROVE Promised!Init
    OBVIOUS
  <2>1. PICK s, f : Whole(pool, list, s, f)
    BY InitIInv DEF IInv
  <2>2. list.head = NULL
    BY DEF Init, ListInit
  <2>3. s = <<>>
    <3>1. s \in Seq(Cell) /\ list.head = IF s = <<>> THEN NULL ELSE s[1]
      BY <2>1 DEF Whole, Shape, Links
    <3>2. s # <<>> => 1 \in 1..Len(s)
      BY <3>1, EmptyByLength
    <3>3. s # <<>> => s[1] \in Cell
      BY <3>1, <3>2, EmptyByLength
    <3> QED  BY <2>2, <3>1, <3>3 DEF Cell, NULL
  <2>4. DataOf(list, <<>>) = <<>>
    BY DEF DataOf
  <2>5. call = [op |-> "none", d |-> 0, ok |-> FALSE]
    BY DEF Init, ListInit, NULL
  <2> QED  BY <1>1, <2>1, <2>3, <2>4, <2>5 DEF Promised!Init
<1>3. IInv /\ [Next]_vars =>
        [Promised!Next]_(Promised!vars)
  <2> SUFFICES ASSUME IInv, [Next]_vars
               PROVE  [Promised!Next]_(Promised!vars)
    OBVIOUS
  <2>1. PICK s, f : Whole(pool, list, s, f)
    BY DEF IInv
  <2>2. PICK s2, f2 : Whole(pool', list', s2, f2) /\ Moves(s, s2)
    BY <2>1, NextWhole DEF IInv
  <2> DEFINE x == DataOf(list, s)
             y == DataOf(list', s2)
  <2>3. [i \in DOMAIN InList |-> list.elts[InList[i]]] = x
    BY <1>1, <2>1
  <2>4. [i \in DOMAIN InList |-> list.elts[InList[i]]]' = y
    <3>1. Chain(list', list'.head) = s2 /\ s2 \in Seq(Cell)
      BY <2>2, ListIs DEF Whole, Shape, Links
    <3>2. InList' = s2 /\ DOMAIN s2 = 1..Len(s2)
      BY <3>1 DEF InList
    <3> QED  BY <3>2 DEF DataOf
  <2>5. \/ y = x /\ call' = call
        \/ \E d \in Cell : /\ \A j \in DOMAIN x : x[j] # d
                          /\ y = Append(x, d) /\ call' = PushOf(d)
        \/ \E k \in DOMAIN x : /\ x[k] \in Cell
                               /\ y = Without(x, k) /\ call' = DeletionOf(x[k], TRUE)
        \/ \E d \in Cell : /\ \A j \in DOMAIN x : x[j] # d
                          /\ y = x /\ call' = DeletionOf(d, FALSE)
    BY <2>1, <2>2, DataStep
  <2> HIDE DEF x, y
  <2>6. CASE y = x /\ call' = call
    BY <2>3, <2>4, <2>6 DEF Promised!vars
  <2>7. ASSUME NEW d \in Cell, \A j \in DOMAIN x : x[j] # d,
               y = Append(x, d), call' = PushOf(d)
        PROVE  Promised!Next
    <3>1. Promised!Push(d)
      BY <2>3, <2>4, <2>7, Zenon DEF Promised!Push, PushOf
    <3> QED  BY <3>1 DEF Promised!Next
  <2>8. ASSUME NEW k \in DOMAIN x, x[k] \in Cell,
               y = Without(x, k), call' = DeletionOf(x[k], TRUE)
        PROVE  Promised!Next
    <3> PICK d \in Cell : d = x[k]
      BY <2>8
    <3>1. Promised!Delete(d)
      BY <2>3, <2>4, <2>8, Zenon DEF Promised!Delete, DeletionOf, Without
    <3> QED  BY <3>1 DEF Promised!Next
  <2>9. ASSUME NEW d \in Cell, \A j \in DOMAIN x : x[j] # d,
               y = x, call' = DeletionOf(d, FALSE)
        PROVE  Promised!Next
    <3>1. Promised!NotFound(d)
      BY <2>3, <2>4, <2>9, Zenon DEF Promised!NotFound, DeletionOf
    <3> QED  BY <3>1 DEF Promised!Next
  <2> QED  BY <2>5, <2>6, <2>7, <2>8, <2>9
<1> QED  BY InitIInv, NextIInv, <1>2, <1>3, PTL DEF Spec, ListIsItems, Promised!Spec

\* ArrayIsRow: art_array_npush only ever adds behind the elements there are, and
\* none of these is lost or changed when the array moves or grows in place.
THEOREM ArrayImplementsRow == Spec => ArrayIsRow
<1> DEFINE Numbers(n) == [i \in 1..n |-> i]
<1>1. ASSUME NEW a, ArrayTyped(a), Stored(a)
      PROVE  [i \in 1..a.used |-> a.mem[a.elts + i - 1]] = Numbers(a.used)
  BY <1>1 DEF Stored
<1>2. \A n \in Nat : Numbers(n) \in Seq(Nat) /\ Len(Numbers(n)) = n
  OBVIOUS
<1>3. Init => Elements!Init
  <2>1. Init => array.used = 0
    BY DEF Init, ArrayInit
  <2> QED  BY <2>1 DEF Elements!Init
<1>4. IInv /\ [Next]_vars =>
        [Elements!Next]_([i \in 1..array.used |-> array.mem[array.elts + i - 1]])
  <2> SUFFICES ASSUME IInv, [Next]_vars
               PROVE  [Elements!Next]_([i \in 1..array.used |-> array.mem[array.elts + i - 1]])
    OBVIOUS
  <2>1. PICK s, f : Whole(pool, list, s, f)
    BY DEF IInv
  <2>2. /\ ArrayKept(pool, array) /\ ArrayKept(pool', array')
        /\ array'.used = array.used \/ \E n \in PushCounts : array'.used = array.used + n
    BY <2>1, NextWhole DEF IInv
  <2> DEFINE x == Numbers(array.used)
             y == Numbers(array'.used)
  <2>3. [i \in 1..array.used |-> array.mem[array.elts + i - 1]] = x
    BY <1>1, <2>2 DEF ArrayKept
  <2>4. [i \in 1..array.used |-> array.mem[array.elts + i - 1]]' = y
    BY <1>1, <2>2 DEF ArrayKept
  <2>5. array.used \in Nat
    BY <2>2 DEF ArrayKept, ArrayTyped
  <2>6. CASE array'.used = array.used
    BY <2>3, <2>4, <2>6
  <2>7. ASSUME NEW n \in PushCounts, array'.used = array.used + n
        PROVE  Elements!Push(n)
    <3> DEFINE z == [i \in 1..n |-> Len(x) + i]
    <3>1. n \in Nat /\ Len(x) = array.used /\ x \in Seq(Nat)
      BY <1>2, <2>5, ArrayAssumption
    <3>2. y \in Seq(Nat) /\ Len(y) = array.used + n /\ \A j \in 1..Len(y) : y[j] = j
      BY <1>2, <2>5, <2>7, <3>1
    <3>3. z \in Seq(Nat) /\ Len(z) = n /\ \A j \in 1..n : z[j] = array.used + j
      BY <2>5, <3>1
    <3>4. \A j \in 1..array.used : x[j] = j
      BY <2>5
    <3> HIDE DEF x, y, z
    <3>5. /\ x \o z \in Seq(Nat) /\ Len(x \o z) = Len(x) + Len(z)
          /\ \A j \in 1 .. Len(x) + Len(z) :
               (x \o z)[j] = IF j <= Len(x) THEN x[j] ELSE z[j - Len(x)]
      BY <3>1, <3>3, ConcatProperties
    <3>6. ASSUME NEW j \in 1..Len(y)
          PROVE  (x \o z)[j] = y[j]
      <4>1. j \in 1 .. Len(x) + Len(z) /\ y[j] = j
        BY <2>5, <3>1, <3>2, <3>3
      <4>2. CASE j <= Len(x)
        BY <2>5, <3>1, <3>4, <3>5, <4>1, <4>2
      <4>3. CASE ~(j <= Len(x))
        <5>1. j - Len(x) \in 1..n /\ array.used + (j - Len(x)) = j
          BY <2>5, <3>1, <3>3, <4>1, <4>3
        <5> QED  BY <3>3, <3>5, <4>1, <4>3, <5>1
      <4> QED  BY <4>2, <4>3
    <3>7. y = x \o z
      BY <2>5, <3>1, <3>2, <3>3, <3>5, <3>6, SeqEqual
    <3> QED  BY <2>3, <2>4, <3>7, Zenon DEF Elements!Push, z
  <2> HIDE DEF x, y
  <2> QED  BY <2>2, <2>6, <2>7 DEF Elements!Next
<1> QED  BY InitIInv, NextIInv, <1>3, <1>4, PTL DEF Spec, ArrayIsRow, Elements!Spec

=============================================================================
