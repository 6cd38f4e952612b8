-------------------------------- MODULE List --------------------------------
(***************************************************************************)
(* The linked list of ark_core/art_data (art_list.c): parts that hold one  *)
(* datum each, linked into the list from head to last or into the chain of *)
(* free parts from freeindex on.  A part keeps its datum when it is freed. *)
(***************************************************************************)
EXTENDS Cells, Sequences, FiniteSets

CONSTANT PartCounts   \* the n art_list_create is called with

ASSUME ListAssumption == PartCounts \subseteq Nat \ {0}

VARIABLES
  list,   \* made, nalloc, head, last, freeindex, the next and elts of every part
  call    \* (ghost) the last push or deletion that returned: its datum, and
          \* whether it answered ART_OK

ListInit ==
  /\ list = [made |-> FALSE, nalloc |-> 0, head |-> NULL, last |-> NULL,
             freeindex |-> NULL,
             next |-> [c \in Cell |-> NULL], elts |-> [c \in Cell |-> NULL]]
  /\ call = [op |-> "none", d |-> NULL, ok |-> FALSE]

\* n parts from lo on, chained; the last one's next is NULL from the pool.
Chained(l, lo, n) ==
  [l EXCEPT !.freeindex = lo,
            !.next = [c \in Cell |-> IF c \in lo .. lo + n - 2 THEN c + 1 ELSE @[c]]]

\* art_list_create; it dies without memory for the list or for its parts.
ListCreate(n) ==
  /\ ~list.made
  /\ \/ \E a \in Alloc(pool, n, "part") :
          /\ pool' = a.pool
          /\ list' = [Chained(list, a.lo, n) EXCEPT !.made = TRUE, !.nalloc = n]
          /\ UNCHANGED crashed
     \/ Crash /\ UNCHANGED <<pool, list>>
  /\ UNCHANGED call

\* More parts when none is free: as many as there are.
Grown(l) ==
  IF l.freeindex # NULL THEN {[list |-> l, pool |-> pool]}
  ELSE {[list |-> [Chained(l, a.lo, l.nalloc) EXCEPT !.nalloc = 2 * @], pool |-> a.pool] :
          a \in Alloc(pool, l.nalloc, "part")}

\* The head not set by the first push (for the mutant runs).
LinkedLast(l, i) ==
  IF l.last = NULL THEN [l EXCEPT !.last = i] ELSE [l EXCEPT !.next[l.last] = i, !.last = i]

\* Part i at the end of the list.
Linked(l, i) ==
  IF l.last = NULL THEN [l EXCEPT !.last = i, !.head = i]
  ELSE [l EXCEPT !.next[l.last] = i, !.last = i]

\* The datum of part i: the one it has, or a new one.
Datum(g, i) ==
  IF g.list.elts[i] # NULL THEN {[lo |-> g.list.elts[i], pool |-> g.pool]}
  ELSE Alloc(g.pool, 1, "data")

\* art_list_push; it dies without memory for parts or for a datum it needs.
ListPush ==
  /\ list.made
  /\ \/ \E g \in Grown(list) :
          LET i == g.list.freeindex
              l == [g.list EXCEPT !.freeindex = g.list.next[i], !.next[i] = NULL]
          IN  \E d \in Datum(g, i) :
                /\ pool' = d.pool
                /\ list' = Linked([l EXCEPT !.elts[i] = d.lo], i)
                /\ call' = [op |-> "push", d |-> d.lo, ok |-> TRUE]
                /\ UNCHANGED crashed
     \/ /\ list.freeindex # NULL => list.elts[list.freeindex] = NULL
        /\ Crash /\ UNCHANGED <<pool, list, call>>

\* The parts from c on.
Chain(l, c) ==
  LET follow == [d \in Cell \cup {NULL} |-> IF d = NULL THEN NULL ELSE l.next[d]]
      part[k \in 1..MaxCells] == IF k = 1 THEN c ELSE follow[part[k - 1]]
  IN  [k \in 1..Cardinality({j \in 1..MaxCells : part[j] # NULL}) |-> part[k]]

\* Part i, behind pre or at the head, out of the list and free.
Freed(l, i, pre) ==
  LET q == IF pre = NULL THEN [l EXCEPT !.head = l.next[i]]
           ELSE [l EXCEPT !.next[pre] = l.next[i]]
  IN  [q EXCEPT !.next[i] = l.freeindex, !.freeindex = i,
                !.last = IF @ # i THEN @ ELSE IF pre = NULL THEN l.next[i] ELSE pre]

\* One part further than the one found (for the mutant runs).
DeletedNext(l, q, k) ==
  LET j == IF k < Len(q) THEN k + 1 ELSE k
  IN  Freed(l, q[j], IF j = 1 THEN NULL ELSE q[j - 1])

\* The list, which is q, without its k-th part.
Deleted(l, q, k) == Freed(l, q[k], IF k = 1 THEN NULL ELSE q[k - 1])

\* art_list_delete of d, in the list or not; an empty list has no pre->next.
ListDelete(d) ==
  LET q == Chain(list, list.head)
      found == {k \in DOMAIN q : list.elts[q[k]] = d}
  IN  /\ list.made
      /\ \/ /\ q = <<>>
            /\ Crash /\ UNCHANGED <<list, call>>
         \/ /\ q # <<>>
            /\ \/ found = {} /\ UNCHANGED list
               \/ \E k \in found : /\ \A j \in found : k <= j
                                  /\ list' = Deleted(list, q, k)
            /\ call' = [op |-> "delete", d |-> d, ok |-> found # {}]
            /\ UNCHANGED crashed
      /\ UNCHANGED pool

ListNext ==
  \/ \E n \in PartCounts : ListCreate(n)
  \/ ListPush
  \/ \E d \in Used("data") : ListDelete(d)

-----------------------------------------------------------------------------
(* Properties *)

InList == Chain(list, list.head)
Free   == Chain(list, list.freeindex)

\* head and last are the ends of one chain, whose parts are in it once, and
\* no part is both in the list and free.
ListLinked ==
  /\ IF list.head = NULL THEN list.last = NULL ELSE list.last = InList[Len(InList)]
  /\ \A i, j \in DOMAIN InList : InList[i] = InList[j] => i = j
  /\ \A i, j \in DOMAIN Free : Free[i] = Free[j] => i = j
  /\ \A i \in DOMAIN InList, j \in DOMAIN Free : InList[i] # Free[j]

\* nalloc counts the parts there are; each is in the list, with a datum of
\* its own, or free, and what was allocated for data is always in use again.
PartsKept ==
  LET linked == {InList[i] : i \in DOMAIN InList}
      free   == {Free[i] : i \in DOMAIN Free}
      data   == {list.elts[c] : c \in linked \cup free} \ {NULL}
  IN  /\ Cardinality(Used("part")) = list.nalloc
      /\ linked \cup free = Used("part")
      /\ data = Used("data")
      /\ Cardinality(data) = Cardinality({c \in linked \cup free : list.elts[c] # NULL})
      /\ \A c \in linked : list.elts[c] # NULL

\* The list is whole at both ends, and no part and no datum is lost or held
\* twice, in whatever order the list grows and pushes and deletions at its
\* head, in its middle and at its end follow each other.
ListWhole == ListLinked /\ PartsKept

\* The data in the list are a sequence: a push appends the datum it returns,
\* which was not in it, and a deletion takes out the one named and no other.
Promised == INSTANCE Items WITH
  Data <- Cell, items <- [i \in DOMAIN InList |-> list.elts[InList[i]]]

ListIsItems == Promised!Spec

=============================================================================
