------------------------------- MODULE RBTree -------------------------------
(***************************************************************************)
(* The red-black tree of ark_core/art_data (art_rbtree.c, art_rbtree.h):   *)
(* insertion and deletion, each up to its rebalancing loop in one step and *)
(* then one step per iteration, and the queries as operators.  The code    *)
(* writes each loop body twice, for a node on the left and its mirror      *)
(* image; here the side is a parameter.                                    *)
(***************************************************************************)
EXTENDS Integers, Sequences, FiniteSets

CONSTANTS
  Nodes,      \* the nodes a caller may link into the tree
  Nil,        \* the tree's sentinel
  Null,       \* NULL
  Half,       \* half of the values of art_rbtree_key_t, 2^31 in the code
  DueTimes    \* bound: for each order, the times each node may be due at

Orders == {"value", "timer", "string"}
Sides  == {"left", "right"}
Depth  == Cardinality(Nodes)

ASSUME RBTreeAssumption ==
  /\ IsFiniteSet(Nodes) /\ Nil \notin Nodes /\ Null \notin Nodes \cup {Nil}
  /\ Half \in Nat \ {0}
  /\ DueTimes \in [Orders -> [Nodes -> SUBSET Nat]]
  /\ \A n \in Nodes : /\ DueTimes["value"][n] \subseteq 0 .. 2 * Half - 1
                     /\ DueTimes["string"][n] \subseteq 0 .. 8 * Half - 1

VARIABLES
  tree,   \* root, insert (the order), and the fields of every node: key,
          \* str (length and bytes), kid["left"], kid["right"], parent, red
  pc,     \* idle, or the rebalancing loop that runs
  at,     \* the loop's node: `node` of an insertion, `temp` of a deletion
  due     \* ghost: where each node belongs, a time of which its key is the
          \* low bits or the number its hash, length and bytes are digits of

vars == <<tree, pc, at, due>>

\* art_rbtree_init, for each of the insert functions of the file
Init ==
  /\ \E insert \in Orders :
       tree = [root |-> Nil, insert |-> insert,
               key |-> [n \in Nodes |-> 0], str |-> [n \in Nodes |-> <<0, 0>>],
               kid |-> [s \in Sides |-> [n \in Nodes \cup {Nil} |-> Null]],
               parent |-> [n \in Nodes \cup {Nil} |-> Null],
               red |-> {}]
  /\ pc = "idle" /\ at = Nil
  /\ due = [n \in Nodes |-> 0]

-----------------------------------------------------------------------------
(* Walks over the tree *)

Other(s) == IF s = "left" THEN "right" ELSE "left"

SideOf(t, x) == IF x = t.kid["left"][t.parent[x]] THEN "left" ELSE "right"

\* A loop that goes on by F from x: its Depth-th node, where it has stopped.
Walk(F, x) ==
  LET node[i \in 0..Depth] == IF i = 0 THEN x ELSE F[node[i - 1]]
  IN  node[Depth]

\* art_rbtree_min and art_rbtree_max: down one side as far as it goes.
Outermost(t, x, s) ==
  Walk([y \in Nodes |-> IF t.kid[s][y] = Nil THEN y ELSE t.kid[s][y]], x)

\* Up by one node only (for the mutant runs).
ClimbOnce(t, x, s) ==
  IF x = t.root \/ x # t.kid[s][t.parent[x]] THEN x ELSE t.parent[x]

\* Up from x while it hangs on side s of its parent, to the root at most.
Climb(t, x, s) ==
  Walk([y \in Nodes |-> IF y = t.root \/ y # t.kid[s][t.parent[y]]
                        THEN y ELSE t.parent[y]], x)

\* art_rbtree_suc
Suc(t, x) ==
  IF t.kid["right"][x] # Nil THEN Outermost(t, t.kid["right"][x], "left")
  ELSE LET y == Climb(t, x, "right") IN IF y = t.root THEN Null ELSE t.parent[y]

\* art_rbtree_pre, which takes the least node of the left subtree
Pre(t, x) ==
  IF t.kid["left"][x] # Nil THEN Outermost(t, t.kid["left"][x], "left")
  ELSE LET y == Climb(t, x, "left") IN IF y = t.root THEN Null ELSE t.parent[y]

-----------------------------------------------------------------------------
(* Rotation and colours *)

\* y takes the place of x below x's parent, or as the root.
Hang(t, x, y) ==
  IF x = t.root THEN [t EXCEPT !.root = y]
  ELSE [t EXCEPT !.kid[SideOf(t, x)][t.parent[x]] = y]

\* The links between x and its child y, and to the child c that y had on side s,
\* when y takes x's place and x goes down to that side.
Turn(t, x, y, c, s) ==
  [t EXCEPT !.kid[Other(s)][x] = c, !.kid[s][y] = x,
            !.parent[y] = t.parent[x], !.parent[x] = y,
            !.parent[c] = IF c = Nil THEN t.parent[c] ELSE x]

\* x goes down to side s and its child on the other side takes its place:
\* art_rbtree_left_rotate and art_rbtree_right_rotate.
Rotate(t, x, s) ==
  LET y == t.kid[Other(s)][x]
  IN  Turn(Hang(t, x, y), x, y, t.kid[s][y], s)

Paint(t, black, red) == [t EXCEPT !.red = (@ \ black) \cup red]

\* x takes y's colour.
CopyColor(t, x, y) ==
  IF y \in t.red THEN Paint(t, {}, {x}) ELSE Paint(t, {x}, {})

\* The tree when a call returns: the sentinel's parent, which stays what the
\* call made it, is forgotten, so that a call that read it would go to NULL.
Returned(t) == [t EXCEPT !.parent[Nil] = Null]

-----------------------------------------------------------------------------
(* Insertion *)

\* The key and the string of a node due at d.
Key(order, d) == IF order = "string" THEN d \div 4 ELSE d % (2 * Half)
Str(order, d) == IF order = "string" THEN <<(d \div 2) % 2, d % 2>> ELSE <<0, 0>>

StrBefore(a, b) == a[1] < b[1] \/ (a[1] = b[1] /\ a[2] < b[2])

\* A timer's key compared like any other (for the mutant runs).
BeforeUnsigned(t, d, y) ==
  LET k == Key(t.insert, d)
  IN  k < t.key[y] \/ (k = t.key[y] /\ StrBefore(Str(t.insert, d), t.str[y]))

\* Whether tree->insert takes what is due at d to the left of y: by the key,
\* by the sign of the difference of two timers' keys in their width, or by hash,
\* length and bytes.
Before(t, d, y) ==
  LET k == Key(t.insert, d)
  IN  CASE t.insert = "value"  -> k < t.key[y]
        [] t.insert = "timer"  -> (k - t.key[y]) % (2 * Half) >= Half
        [] t.insert = "string" ->
             k < t.key[y] \/ (k = t.key[y] /\ StrBefore(Str(t.insert, d), t.str[y]))

Toward(t, d, y) == IF Before(t, d, y) THEN "left" ELSE "right"

\* The node below which what is due at d belongs.
Bottom(t, d) ==
  Walk([y \in Nodes |-> LET c == t.kid[Toward(t, d, y)][y] IN IF c = Nil THEN y ELSE c],
       t.root)

\* A node passed over for its hash alone (for the mutant runs).
LookupByHash(t, d) ==
  Walk([y \in Nodes \cup {Nil} |->
          IF y = Nil \/ Key(t.insert, d) = t.key[y] THEN y ELSE t.kid[Toward(t, d, y)][y]],
       t.root)

\* art_str_rbtree_lookup, which stops at a node with the hash and string of d
Lookup(t, d) ==
  Walk([y \in Nodes \cup {Nil} |->
          IF y = Nil \/ (Key(t.insert, d) = t.key[y] /\ Str(t.insert, d) = t.str[y]) THEN y
          ELSE t.kid[Toward(t, d, y)][y]],
       t.root)

\* The nodes at x and below, in order.
InOrder(t, x) ==
  LET walk[d \in 0..Depth] ==
        [y \in Nodes \cup {Nil, Null} |->
           IF d = 0 \/ y \in {Nil, Null} THEN <<>>
           ELSE walk[d - 1][t.kid["left"][y]] \o <<y>> \o walk[d - 1][t.kid["right"][y]]]
  IN  walk[Depth][x]

\* A node outside the tree has no children, not even the sentinel.
Members(t) == {n \in Nodes : t.kid["left"][n] # Null}

\* Timer values "are spread in small range": less than half of the ring.
Spread(times, N) == \A m, n \in N : times[m] - times[n] < Half

\* The fields of a node due at d that enters the tree.
Entered(t, n, d) ==
  [t EXCEPT !.key[n] = Key(t.insert, d), !.str[n] = Str(t.insert, d),
            !.kid = [s \in Sides |-> [t.kid[s] EXCEPT ![n] = Nil]]]

\* n as the first node, and n below p on side s
AsRoot(t, n) == [t EXCEPT !.root = n, !.parent[n] = Null]
AsKid(t, n, p, s) == [t EXCEPT !.kid[s][p] = n, !.parent[n] = p]

\* art_rbtree_insert up to its loop
Insert(n, d) ==
  LET new == Entered(tree, n, d)
      p == Bottom(tree, d)
      s == Toward(tree, d, p)
  IN  /\ pc = "idle" /\ n \notin Members(tree)
      /\ due' = [due EXCEPT ![n] = d]
      /\ tree.insert = "timer" => Spread(due', Members(tree) \cup {n})
      /\ IF tree.root = Nil
         THEN /\ tree' = Paint(AsRoot(new, n), {n}, {})
              /\ UNCHANGED <<pc, at>>
         ELSE /\ tree' = Paint(AsKid(new, n, p, s), {}, {n})
              /\ pc' = "insert" /\ at' = n

\* The loop goes on while at and its parent are both red.
TwoReds(t, x) == x # t.root /\ t.parent[x] \in t.red

\* Rotation of the grandparent with at still on the inner side (for the
\* mutant runs).
RaiseParentOnce(t, x) ==
  LET p == t.parent[x]
      g == t.parent[p]
  IN  Rotate(Paint(t, {p}, {g}), g, Other(SideOf(t, p)))

\* Case B: an inner node first goes outside, then the parent is raised over
\* the grandparent.
RaiseParent(t, x) ==
  LET s == SideOf(t, t.parent[x])
      inner == x = t.kid[Other(s)][t.parent[x]]
      q == IF inner THEN Rotate(t, t.parent[x], s) ELSE t
      p == IF inner THEN x ELSE t.parent[x]
      g == q.parent[p]
  IN  Rotate(Paint(q, {p}, {g}), g, Other(s))

InsertFixup ==
  LET p == tree.parent[at]
      g == tree.parent[p]
      uncle == tree.kid[Other(SideOf(tree, p))][g]
      inner == at = tree.kid[Other(SideOf(tree, p))][p]
  IN  /\ pc = "insert" /\ TwoReds(tree, at)
      /\ IF uncle \in tree.red
         THEN tree' = Paint(tree, {p, uncle}, {g}) /\ at' = g
         ELSE tree' = RaiseParent(tree, at) /\ at' = IF inner THEN p ELSE at
      /\ UNCHANGED <<pc, due>>

InsertDone ==
  /\ pc = "insert" /\ ~TwoReds(tree, at)
  /\ tree' = Returned(Paint(tree, {tree.root}, {}))
  /\ pc' = "idle" /\ at' = Nil
  /\ UNCHANGED due

-----------------------------------------------------------------------------
(* Deletion *)

\* The fields of a node that left the tree (its string is the caller's again).
Cleared(t, n) ==
  [Paint(t, {n}, {}) EXCEPT !.key[n] = 0, !.str[n] = <<0, 0>>, !.parent[n] = Null,
                            !.kid = [s \in Sides |-> [t.kid[s] EXCEPT ![n] = Null]]]

\* The node that is unlinked, and the one that takes its place.
Subst(t, n) ==
  IF \E s \in Sides : t.kid[s][n] = Nil THEN n
  ELSE Outermost(t, t.kid["right"][n], "left")

Temp(t, n) ==
  LET x == Subst(t, n)
  IN  IF t.kid["left"][x] = Nil THEN t.kid["right"][x] ELSE t.kid["left"][x]

\* x is the parent of its children.
Adopt(t, x) ==
  [t EXCEPT !.parent = [y \in Nodes \cup {Nil} |->
     IF y # Nil /\ \E s \in Sides : t.kid[s][x] = y THEN x ELSE t.parent[y]]]

\* x replaces n, with n's colour and links (l.330-353).
Replace(t, n, x) ==
  LET q == Hang(CopyColor(t, x, n), n, x)
  IN  Adopt([q EXCEPT !.kid = [s \in Sides |-> [q.kid[s] EXCEPT ![x] = t.kid[s][n]]],
                      !.parent[x] = t.parent[n]], x)

\* The parent of temp taken from subst even when that is n, the node that
\* leaves (for the mutant runs).
UnlinkUnderNode(t, n) ==
  LET x == Subst(t, n)
      y == Temp(t, n)
      q == [Hang(t, x, y) EXCEPT !.parent[y] = t.parent[x]]
  IN  IF x = n THEN q ELSE Replace(q, n, x)

\* subst is cut out and, unless it is n itself, put in n's place.
Unlink(t, n) ==
  LET x == Subst(t, n)
      y == Temp(t, n)
      q == [Hang(t, x, y) EXCEPT
              !.parent[y] = IF t.parent[x] = n THEN x ELSE t.parent[x]]
  IN  IF x = n THEN q ELSE Replace(q, n, x)

\* art_rbtree_delete up to its loop
Delete(n) ==
  LET x == Subst(tree, n)
      y == Temp(tree, n)
  IN  /\ pc = "idle" /\ n \in Members(tree)
      /\ due' = [due EXCEPT ![n] = 0]
      /\ IF x = tree.root
         THEN /\ tree' = Cleared(Paint([tree EXCEPT !.root = y], {y}, {}), n)
              /\ UNCHANGED <<pc, at>>
         ELSE IF x \in tree.red
         THEN /\ tree' = Returned(Cleared(Unlink(tree, n), n))
              /\ UNCHANGED <<pc, at>>
         ELSE /\ tree' = Cleared(Unlink(tree, n), n)
              /\ pc' = "delete" /\ at' = y

\* The loop goes on while at lacks a black that it cannot take itself.
LacksBlack(t, x) == x # t.root /\ x \notin t.red

\* Case 4 without the far nephew painted black (for the mutant runs).
RaiseBrotherOnly(t, p, w, s) ==
  Rotate(Paint(CopyColor(t, w, p), {p}, {}), p, s)

\* Case 4, at on side s of p and w its brother: w rises with p's colour.
RaiseBrother(t, p, w, s) ==
  Rotate(Paint(CopyColor(t, w, p), {p, t.kid[Other(s)][w]}, {}), p, s)

\* The loop goes on from the same node after case 4 (for the mutant runs).
Stay(t, x) == x

\* Case 4 ends the loop: `temp = *root`.
Finish(t, x) == t.root

\* Case 1: a red brother of p's kid on side s rises over p.
WithBlackBrother(t, p, s) ==
  LET w == t.kid[Other(s)][p]
  IN  IF w \in t.red THEN Rotate(Paint(t, {w}, {p}), p, s) ELSE t

\* Case 3: unless w's kid on the far side is red, the near one rises over w.
WithRedFar(t, w, s) ==
  IF t.kid[Other(s)][w] \in t.red THEN t
  ELSE Rotate(Paint(t, {t.kid[s][w]}, {w}), w, Other(s))

DeleteFixup ==
  LET s == SideOf(tree, at)
      o == Other(s)
      p == tree.parent[at]
      t == WithBlackBrother(tree, p, s)
      w == t.kid[o][p]
      q == WithRedFar(t, w, s)
      done == RaiseBrother(q, p, q.kid[o][p], s)
  IN  /\ pc = "delete" /\ LacksBlack(tree, at)
      /\ IF {t.kid[s][w], t.kid[o][w]} \cap t.red = {}
         THEN tree' = Paint(t, {}, {w}) /\ at' = p
         ELSE tree' = done /\ at' = Finish(done, at)
      /\ UNCHANGED <<pc, due>>

DeleteDone ==
  /\ pc = "delete" /\ ~LacksBlack(tree, at)
  /\ tree' = Returned(Paint(tree, {at}, {}))
  /\ pc' = "idle" /\ at' = Nil
  /\ UNCHANGED due

-----------------------------------------------------------------------------

Next ==
  \/ \E n \in Nodes :
       (\E d \in DueTimes[tree.insert][n] : Insert(n, d)) \/ Delete(n)
  \/ InsertFixup \/ InsertDone
  \/ DeleteFixup \/ DeleteDone

Spec == Init /\ [][Next]_vars

-----------------------------------------------------------------------------
(* Properties *)

\* Types; the loop's node is the sentinel or in the tree, and a node outside
\* the tree has the fields that its deletion cleared.
TypeOK ==
  LET Links(m) == Nodes \cup {Nil} \cup IF m THEN {Null} ELSE {}
  IN  /\ tree.root \in Links(FALSE) /\ tree.insert \in Orders
      /\ tree.key \in [Nodes -> 0 .. 2 * Half - 1]
      /\ tree.str \in [Nodes -> {0, 1} \X {0, 1}]
      /\ tree.kid \in [Sides -> [Nodes \cup {Nil} -> Links(TRUE)]]
      /\ tree.parent \in [Nodes \cup {Nil} -> Links(TRUE)]
      /\ tree.red \subseteq Nodes \cup {Nil}
      /\ pc \in {"idle", "insert", "delete"} /\ due \in [Nodes -> Nat]
      /\ at \in Members(tree) \cup {Nil} /\ (pc = "idle" => at = Nil)
      /\ \A n \in Nodes \ Members(tree) :
           /\ tree.kid["right"][n] = Null /\ tree.parent[n] = Null
           /\ tree.key[n] = 0 /\ n \notin tree.red

\* A node outside the tree has no links left (TypeOK); every node of the
\* tree is reached once, and the links up and down agree,
\* in the middle of a rebalancing too; the sentinel that is temp of a
\* deletion has the parent below which it stands.
Linked ==
  /\ TypeOK
  /\ LET q == InOrder(tree, tree.root) IN
     Len(q) = Cardinality(Members(tree)) /\ {q[i] : i \in DOMAIN q} = Members(tree)
  /\ \A x \in Members(tree), s \in Sides :
       LET y == tree.kid[s][x] IN
       y # Nil => y \in Members(tree) /\ tree.parent[y] = x
  /\ pc = "delete" /\ at = Nil /\ tree.root # Nil =>
       /\ tree.parent[Nil] \in Members(tree)
       /\ \E s \in Sides : tree.kid[s][tree.parent[Nil]] = Nil

\* Black nodes on the way from the root to x; the one that the ways through
\* temp lack in a deletion's loop counts as there.
Owed(x) == IF pc = "delete" /\ x = at THEN 1 ELSE 0

Blacks ==
  LET above[x \in Members(tree)] ==
        Owed(x) + (IF x \in tree.red THEN 0 ELSE 1)
                + (IF x = tree.root THEN 0 ELSE above[tree.parent[x]])
  IN  above

\* A red-black tree between the calls, and in the loops one but for the node
\* they work at: no red node has a red parent except at of an insertion, and
\* at or its child in a deletion about to paint it black; every way from the root to the sentinel has as
\* many black nodes; the root is black, and "a sentinel must be black".
Balanced ==
  /\ Nil \notin tree.red
  /\ pc = "idle" => tree.root \notin tree.red
  /\ \A x \in Members(tree) \ {tree.root} :
       {x, tree.parent[x]} \subseteq tree.red =>
         \/ pc = "insert" /\ at = x
         \/ pc = "delete" /\ at \in {x, tree.parent[x]}
  /\ LET Ends == {e \in Members(tree) \X Sides : tree.kid[e[2]][e[1]] = Nil}
         AtTemp(e) == tree.parent[Nil] = e[1] /\ SideOf(tree, Nil) = e[2]
     IN  Cardinality({Blacks[e[1]] + IF AtTemp(e) THEN Owed(Nil) ELSE 0 : e \in Ends}) <= 1

\* A deletion's loop finds a brother that is a node: it never reads the
\* sentinel's children, nor confuses left and right when temp is the sentinel.
BrotherExists ==
  pc = "delete" /\ LacksBlack(tree, at) =>
    tree.kid[Other(SideOf(tree, at))][tree.parent[at]] \in Members(tree)

\* A walk with art_rbtree_suc comes to every node in order and ends with NULL
\* after the last.  art_rbtree_pre returns the node before wherever the left
\* subtree has at most one node; from the others it may skip nodes (it takes
\* the minimum there, not the maximum), but it still goes back to an earlier
\* one, so a walk backwards ends too, with NULL before the first.
Neighbours ==
  pc = "idle" =>
    LET q == InOrder(tree, tree.root) IN
    \A i \in DOMAIN q :
      /\ Suc(tree, q[i]) = IF i = Len(q) THEN Null ELSE q[i + 1]
      /\ i = 1 => Pre(tree, q[i]) = Null
      /\ i > 1 => \E j \in 1 .. i - 1 : Pre(tree, q[i]) = q[j]
      /\ i > 1 /\ Len(InOrder(tree, tree.kid["left"][q[i]])) <= 1 =>
           Pre(tree, q[i]) = q[i - 1]

\* art_str_rbtree_lookup finds a node with the string it is given exactly if
\* the tree has one, among nodes of the same hash or length too.
LookupFinds ==
  pc = "idle" /\ tree.insert = "string" =>
    \A d \in UNION {DueTimes["string"][n] : n \in Nodes} :
      IF \E n \in Members(tree) : due[n] = d
      THEN Lookup(tree, d) \in Members(tree) /\ due[Lookup(tree, d)] = d
      ELSE Lookup(tree, d) = Nil

\* The tree in order is the sequence SortedSeq promises: sorted by the times
\* the nodes are due, across the overflow of their keys, first come first
\* among equals, and changed by nothing but the calls, not by rebalancing.
Sorted == INSTANCE SortedSeq WITH
  Times <- UNION {DueTimes[o][n] : o \in Orders, n \in Nodes},
  seq <- LET q == InOrder(tree, tree.root)
         IN  [i \in DOMAIN q |-> [node |-> q[i], due |-> due[q[i]]]]

ImplementsSortedSeq == Sorted!Spec

\* Both rebalancing loops end: an iteration is the last one, or it takes its
\* node to one with more nodes below it, of which there are only so many.
Size(t, x) == Len(InOrder(t, x))

LoopsEnd ==
  [][/\ InsertFixup /\ TwoReds(tree', at') => Size(tree', at') > Size(tree, at)
     /\ DeleteFixup /\ LacksBlack(tree', at') => Size(tree', at') > Size(tree, at)]_vars

=============================================================================
