---------------------------- MODULE RBTreeProofs ----------------------------
(***************************************************************************)
(* Proofs about RBTree.  The inductive invariant IInv says that there are  *)
(* a place in order for each node of the tree, which the links, the keys   *)
(* and the walks agree on, and a number of black nodes below each, which   *)
(* all ways down have but for the one that a deletion's loop works at.     *)
(***************************************************************************)
EXTENDS RBTree, SequenceTheorems, FiniteSetTheorems, WellFoundedInduction, TLAPS

-----------------------------------------------------------------------------
(* Where the nodes are: ord[x] is x's place in order, and x and what is     *)
(* below it fill the places from end["left"][x] to end["right"][x].         *)

TreeType ==
  [root : Nodes \cup {Nil}, insert : Orders, key : [Nodes -> 0 .. 2 * Half - 1],
   str : [Nodes -> {0, 1} \X {0, 1}],
   kid : [Sides -> [Nodes \cup {Nil} -> Nodes \cup {Nil, Null}]],
   parent : [Nodes \cup {Nil} -> Nodes \cup {Nil, Null}],
   red : SUBSET (Nodes \cup {Nil})]

\* One place to side s.
Step(s) == IF s = "left" THEN -1 ELSE 1

\* The members M have the places 1 to N, one each.
Ranked(M, N, ord) ==
  /\ N \in Nat /\ ord \in [Nodes -> Int] /\ M \subseteq Nodes
  /\ \A x \in M : ord[x] \in 1..N
  /\ \A x, y \in M : ord[x] = ord[y] => x = y
  /\ \A i \in 1..N : \E x \in M : ord[x] = i

Spans(M, N, ord, end) ==
  /\ end \in [Sides -> [Nodes -> Int]]
  /\ \A x \in M : /\ 1 <= end["left"][x] /\ end["left"][x] <= ord[x]
                  /\ ord[x] <= end["right"][x] /\ end["right"][x] <= N

\* x's link to side s.
KidFits(t, M, ord, end, s, x) ==
  IF end[s][x] = ord[x] THEN t.kid[s][x] = Nil
  ELSE /\ t.kid[s][x] \in M /\ t.parent[t.kid[s][x]] = x
       /\ end[s][t.kid[s][x]] = end[s][x]
       /\ end[Other(s)][t.kid[s][x]] = ord[x] + Step(s)

\* x's link upward.
ParentFits(t, M, x) ==
  x # t.root => t.parent[x] \in M /\ \E s \in Sides : t.kid[s][t.parent[x]] = x

RootFits(t, M, N, end) ==
  IF N = 0 THEN t.root = Nil
  ELSE t.root \in M /\ end["left"][t.root] = 1 /\ end["right"][t.root] = N

Shape(t, M, N, ord, end) ==
  /\ Ranked(M, N, ord) /\ Spans(M, N, ord, end) /\ RootFits(t, M, N, end)
  /\ \A x \in M, s \in Sides : KidFits(t, M, ord, end, s, x)
  /\ \A x \in M : ParentFits(t, M, x)

\* A node outside the tree has no links, key or colour.
Blank(t, M) ==
  /\ M = Members(t)
  /\ \A n \in Nodes \ M : /\ \A s \in Sides : t.kid[s][n] = Null
                          /\ t.parent[n] = Null /\ t.key[n] = 0 /\ n \notin t.red

LEMMA SideFacts ==
  /\ "left" \in Sides /\ "right" \in Sides
  /\ Other("left") = "right" /\ Other("right") = "left"
  /\ Step("left") = -1 /\ Step("right") = 1
  /\ \A s \in Sides : s = "left" \/ s = "right"
BY DEF Sides, Other, Step

LEMMA NilIsNone == Nil \notin Nodes /\ Null \notin Nodes /\ Null # Nil
BY RBTreeAssumption

\* A kid knows its parent, and is neither the root nor its brother.
LEMMA KidIs ==
  ASSUME NEW t, NEW M, NEW N, NEW ord, NEW end, Shape(t, M, N, ord, end),
         NEW x \in M, NEW s \in Sides, t.kid[s][x] # Nil
  PROVE  /\ t.kid[s][x] \in M /\ t.parent[t.kid[s][x]] = x
         /\ t.kid[s][x] # t.root /\ t.kid[s][x] # x
         /\ t.kid[Other(s)][x] # t.kid[s][x]
         /\ end[s][x] # ord[x]
         /\ end[s][t.kid[s][x]] = end[s][x]
         /\ end[Other(s)][t.kid[s][x]] = ord[x] + Step(s)
         /\ SideOf(t, t.kid[s][x]) = s
<1> DEFINE k == t.kid[s][x]
<1>1. KidFits(t, M, ord, end, s, x) /\ KidFits(t, M, ord, end, Other(s), x)
  BY SideFacts DEF Shape
<1>2. /\ k \in M /\ t.parent[k] = x /\ end[s][x] # ord[x]
      /\ end[s][k] = end[s][x] /\ end[Other(s)][k] = ord[x] + Step(s)
  BY <1>1 DEF KidFits
<1>3. /\ N \in Nat /\ M \subseteq Nodes /\ ord[x] \in 1..N /\ ord[k] \in 1..N
      /\ end["left"][x] \in Int /\ end["right"][x] \in Int
      /\ end["left"][k] \in Int /\ end["right"][k] \in Int
      /\ 1 <= end["left"][x] /\ end["left"][x] <= ord[x]
      /\ ord[x] <= end["right"][x] /\ end["right"][x] <= N
      /\ 1 <= end["left"][k] /\ end["left"][k] <= ord[k]
      /\ ord[k] <= end["right"][k] /\ end["right"][k] <= N
  BY <1>2, SideFacts DEF Shape, Ranked, Spans
<1>4. k # x
  BY <1>2, <1>3, SideFacts
<1>5. k # t.root
  BY <1>2, <1>3, SideFacts DEF Shape, RootFits
<1>6. t.kid[Other(s)][x] # k
  <2>1. CASE t.kid[Other(s)][x] = Nil
    BY <2>1
  <2>2. CASE t.kid[Other(s)][x] = k /\ k # Nil
    <3>1. end[s][k] = ord[x] + Step(Other(s)) /\ Other(Other(s)) = s
      BY <1>1, <2>2, SideFacts DEF KidFits
    <3>. QED BY <1>2, <1>3, <3>1, SideFacts
  <2>. QED BY <2>1, <2>2
<1>7. SideOf(t, k) = s
  BY <1>2, <1>6, SideFacts DEF SideOf
<1>. QED BY <1>2, <1>4, <1>5, <1>6, <1>7

-----------------------------------------------------------------------------
(* Rotation. *)

\* y in the place of x below x's parent, or as the root.
LEMMA HangIs ==
  ASSUME NEW t \in TreeType, NEW M, NEW N, NEW ord, NEW end, Shape(t, M, N, ord, end),
         NEW x \in M, NEW y \in Nodes \cup {Nil}
  PROVE  LET u == Hang(t, x, y)
         IN  /\ u \in TreeType
             /\ u.root = IF x = t.root THEN y ELSE t.root
             /\ \A z \in M, s \in Sides :
                  u.kid[s][z] = IF t.kid[s][z] = x THEN y ELSE t.kid[s][z]
             /\ \A z \in (Nodes \cup {Nil}) \ M, s \in Sides : u.kid[s][z] = t.kid[s][z]
             /\ u.parent = t.parent /\ u.red = t.red /\ u.key = t.key /\ u.str = t.str
             /\ u.insert = t.insert
<1> DEFINE u == Hang(t, x, y)
           p == t.parent[x]
           a == SideOf(t, x)
<1>0. x # Nil /\ M \subseteq Nodes /\ x \in Nodes
  BY NilIsNone DEF Shape, Ranked
<1>1. CASE x = t.root
  <2>1. u = [t EXCEPT !.root = y]
    BY <1>1 DEF Hang
  <2>2. \A z \in M, s \in Sides : t.kid[s][z] # x
    BY <1>0, <1>1, KidIs
  <2>. QED BY <1>1, <2>1, <2>2 DEF TreeType
<1>2. CASE x # t.root
  <2>1. p \in M /\ \E s \in Sides : t.kid[s][p] = x
    BY <1>2 DEF Shape, ParentFits
  <2>2. a \in Sides /\ t.kid[a][p] = x
    BY <2>1, SideFacts DEF SideOf
  <2>3. u = [t EXCEPT !.kid[a][p] = y]
    BY <1>2 DEF Hang
  <2>4. \A z \in M, s \in Sides : t.kid[s][z] = x => z = p /\ s = a
    <3>1. ASSUME NEW z \in M, NEW s \in Sides, t.kid[s][z] = x PROVE z = p /\ s = a
      BY <1>0, <3>1, KidIs
    <3>. QED BY <3>1
  <2> HIDE DEF a, p, u
  <2>5. /\ u.root = t.root /\ u.parent = t.parent /\ u.red = t.red /\ u.key = t.key
        /\ u.str = t.str /\ u.insert = t.insert
        /\ u.kid = [t.kid EXCEPT ![a][p] = y]
        /\ u \in TreeType
    BY <1>0, <2>1, <2>2, <2>3 DEF TreeType
  <2>6. \A s \in Sides, z \in Nodes \cup {Nil} :
          u.kid[s][z] = IF s = a /\ z = p THEN y ELSE t.kid[s][z]
    BY <1>0, <2>1, <2>2, <2>5 DEF TreeType
  <2>. QED BY <1>0, <1>2, <2>1, <2>2, <2>4, <2>5, <2>6 DEF u
<1>. QED BY <1>1, <1>2

\* What a rotation does to every link.
Rotated(t, u, M, x, y, s) ==
  LET c == t.kid[s][y]
  IN  /\ u \in TreeType
      /\ u.root = IF x = t.root THEN y ELSE t.root
      /\ \A z \in M, a \in Sides :
           u.kid[a][z] = IF z = x /\ a = Other(s) THEN c
                         ELSE IF z = y /\ a = s THEN x
                         ELSE IF t.kid[a][z] = x THEN y ELSE t.kid[a][z]
      /\ \A z \in (Nodes \cup {Nil}) \ M, a \in Sides : u.kid[a][z] = t.kid[a][z]
      /\ \A z \in Nodes \cup {Nil} :
           u.parent[z] = IF z = y THEN t.parent[x] ELSE IF z = x THEN y
                         ELSE IF z = c /\ c # Nil THEN x ELSE t.parent[z]
      /\ u.red = t.red /\ u.key = t.key /\ u.str = t.str /\ u.insert = t.insert

Turned(t, u, x, y, c, s) ==
  /\ u \in TreeType
  /\ \A z \in Nodes \cup {Nil}, a \in Sides :
       u.kid[a][z] = IF a = Other(s) /\ z = x THEN c
                     ELSE IF a = s /\ z = y THEN x ELSE t.kid[a][z]
  /\ \A z \in Nodes \cup {Nil} :
       u.parent[z] = IF z = y THEN t.parent[x] ELSE IF z = x THEN y
                     ELSE IF z = c /\ c # Nil THEN x ELSE t.parent[z]
  /\ u.root = t.root /\ u.red = t.red /\ u.key = t.key /\ u.str = t.str
  /\ u.insert = t.insert

LEMMA TurnIs ==
  ASSUME NEW t \in TreeType,
         NEW x \in Nodes, NEW y \in Nodes, NEW c \in Nodes \cup {Nil}, NEW s \in Sides,
         x # y, c # x, c # y
  PROVE  Turned(t, Turn(t, x, y, c, s), x, y, c, s)
<1> DEFINE o == Other(s)
           k == [t.kid EXCEPT ![o][x] = c, ![s][y] = x]
           f == [t.parent EXCEPT ![y] = t.parent[x], ![x] = y,
                                 ![c] = IF c = Nil THEN t.parent[c] ELSE x]
           u == [t EXCEPT !.kid = k, !.parent = f]
<1>0. x # Nil /\ y # Nil /\ o \in Sides /\ o # s
  BY NilIsNone, SideFacts
<1>1. Turn(t, x, y, c, s) = u
  BY DEF Turn, TreeType
<1>2. /\ k \in [Sides -> [Nodes \cup {Nil} -> Nodes \cup {Nil, Null}]]
      /\ \A z \in Nodes \cup {Nil}, a \in Sides :
           k[a][z] = IF a = o /\ z = x THEN c ELSE IF a = s /\ z = y THEN x ELSE t.kid[a][z]
  <2>1. t.kid \in [Sides -> [Nodes \cup {Nil} -> Nodes \cup {Nil, Null}]]
    BY DEF TreeType
  <2> HIDE DEF o
  <2>2. k[o] = [t.kid[o] EXCEPT ![x] = c] /\ k[s] = [t.kid[s] EXCEPT ![y] = x]
    BY <1>0, <2>1
  <2>3. DOMAIN k = Sides
    BY <2>1
  <2>4. k = [a \in Sides |-> k[a]]
    BY <2>1
  <2> HIDE DEF k
  <2>5. ASSUME NEW a \in Sides
        PROVE  /\ k[a] \in [Nodes \cup {Nil} -> Nodes \cup {Nil, Null}]
               /\ \A z \in Nodes \cup {Nil} :
                    k[a][z] = IF a = o /\ z = x THEN c
                              ELSE IF a = s /\ z = y THEN x ELSE t.kid[a][z]
    <3>1. t.kid[a] \in [Nodes \cup {Nil} -> Nodes \cup {Nil, Null}]
      BY <2>1
    <3>2. a = o \/ a = s
      BY SideFacts DEF o
    <3>3. CASE a = o
      BY <1>0, <2>2, <3>1, <3>3
    <3>4. CASE a = s
      BY <1>0, <2>2, <3>1, <3>4
    <3>. QED BY <3>2, <3>3, <3>4
  <2>. QED BY <2>4, <2>5
<1>3. /\ f \in [Nodes \cup {Nil} -> Nodes \cup {Nil, Null}]
      /\ \A z \in Nodes \cup {Nil} :
           f[z] = IF z = y THEN t.parent[x] ELSE IF z = x THEN y
                  ELSE IF z = c /\ c # Nil THEN x ELSE t.parent[z]
  <2>1. t.parent \in [Nodes \cup {Nil} -> Nodes \cup {Nil, Null}]
    BY DEF TreeType
  <2>2. CASE c = Nil
    BY <1>0, <2>1, <2>2
  <2>3. CASE c # Nil
    BY <1>0, <2>1, <2>3
  <2>. QED BY <2>2, <2>3
<1> HIDE DEF k, f
<1>4. /\ u.root = t.root /\ u.kid = k /\ u.parent = f /\ u.red = t.red /\ u.key = t.key
      /\ u.str = t.str /\ u.insert = t.insert /\ u \in TreeType
  BY <1>2, <1>3 DEF TreeType
<1> HIDE DEF u
<1>. QED BY <1>1, <1>2, <1>3, <1>4 DEF Turned

LEMMA RotateIs ==
  ASSUME NEW t \in TreeType, NEW M, NEW N, NEW ord, NEW end, Shape(t, M, N, ord, end),
         NEW x \in M, NEW s \in Sides, t.kid[Other(s)][x] # Nil
  PROVE  Rotated(t, Rotate(t, x, s), M, x, t.kid[Other(s)][x], s)
<1> DEFINE o == Other(s)
           y == t.kid[o][x]
           c == t.kid[s][y]
           h == Hang(t, x, y)
           u == Turn(h, x, y, c, s)
<1>1. o \in Sides /\ o # s /\ Other(o) = s /\ M \subseteq Nodes /\ x # Nil
  BY SideFacts, NilIsNone DEF Shape, Ranked
<1>2. y \in M /\ y # x /\ y \in Nodes
  BY <1>1, KidIs
<1>3. c = Nil \/ (c \in M /\ c # y /\ t.parent[c] = y)
  BY <1>2, KidIs
<1>4. c # x
  <2>1. ASSUME c = x PROVE FALSE
    <3>1. end[s][x] = end[s][y] /\ end[o][x] = ord[y] + Step(s) /\ end[s][y] = ord[x] + Step(o)
      BY <1>1, <1>2, <2>1, NilIsNone, KidIs
    <3>2. /\ end["left"][x] \in Int /\ end["right"][x] \in Int /\ ord[x] \in Int
          /\ end["left"][x] <= ord[x] /\ ord[x] <= end["right"][x]
      BY <1>1, SideFacts DEF Shape, Spans, Ranked
    <3>. QED BY <1>1, <3>1, <3>2, SideFacts
  <2>. QED BY <2>1
<1>6. /\ h \in TreeType
      /\ h.root = IF x = t.root THEN y ELSE t.root
      /\ \A z \in M, a \in Sides : h.kid[a][z] = IF t.kid[a][z] = x THEN y ELSE t.kid[a][z]
      /\ \A z \in (Nodes \cup {Nil}) \ M, a \in Sides : h.kid[a][z] = t.kid[a][z]
      /\ h.parent = t.parent /\ h.red = t.red /\ h.key = t.key /\ h.str = t.str
      /\ h.insert = t.insert
  BY <1>2, HangIs
<1>7. Rotate(t, x, s) = u
  BY DEF Rotate
<1> HIDE DEF h, c, y, o
<1>8. x \in Nodes /\ y \in Nodes /\ c \in Nodes \cup {Nil} /\ x # y /\ c # x /\ c # y
  BY <1>1, <1>2, <1>3, <1>4, NilIsNone
<1>10. /\ u \in TreeType
       /\ \A z \in Nodes \cup {Nil}, a \in Sides :
            u.kid[a][z] = IF a = o /\ z = x THEN c
                          ELSE IF a = s /\ z = y THEN x ELSE h.kid[a][z]
       /\ \A z \in Nodes \cup {Nil} :
            u.parent[z] = IF z = y THEN t.parent[x] ELSE IF z = x THEN y
                          ELSE IF z = c /\ c # Nil THEN x ELSE t.parent[z]
       /\ u.root = h.root /\ u.red = h.red /\ u.key = h.key /\ u.str = h.str
       /\ u.insert = h.insert
  <2>1. Turned(h, u, x, y, c, s)
    BY <1>6, <1>8, TurnIs
  <2>. QED BY <1>6, <2>1 DEF Turned, o
<1> HIDE DEF u
<1>11. \A z \in M, a \in Sides :
          u.kid[a][z] = IF z = x /\ a = o THEN c
                        ELSE IF z = y /\ a = s THEN x
                        ELSE IF t.kid[a][z] = x THEN y ELSE t.kid[a][z]
  BY <1>1, <1>6, <1>10
<1>12. \A z \in (Nodes \cup {Nil}) \ M, a \in Sides : u.kid[a][z] = t.kid[a][z]
  <2>1. \A z \in (Nodes \cup {Nil}) \ M : z # x /\ z # y
    BY <1>2
  <2>. QED BY <1>6, <1>10, <2>1
<1>13. Rotated(t, u, M, x, y, s)
  BY <1>6, <1>10, <1>11, <1>12 DEF Rotated, o, c
<1>. QED BY <1>7, <1>13 DEF y, o

(* A set of naturals has a least element: what the proofs use to argue by   *)
(* induction, on the least of the counterexamples.                          *)
LEMMA LeastNat ==
  ASSUME NEW T \in SUBSET Nat, T # {}
  PROVE  \E x \in T : \A y \in T : x <= y
<1> DEFINE R == OpToRel(<, Nat)
<1>1. R = {ss \in Nat \X Nat : ss[1] < ss[2]}
  BY DEF OpToRel
<1>2. IsWellFoundedOn(R, Nat)
  BY NatLessThanWellFounded
<1> HIDE DEF R
<1>3. PICK x \in T : \A y \in T : <<y, x>> \notin R
  BY <1>2, WFMin
<1>4. ASSUME NEW y \in T
      PROVE  ~(y < x)
  <2>1. <<y, x>> \in Nat \X Nat /\ <<y, x>>[1] = y /\ <<y, x>>[2] = x
    OBVIOUS
  <2>2. <<y, x>> \notin {ss \in Nat \X Nat : ss[1] < ss[2]}
    BY <1>1, <1>3
  <2> QED  BY <2>1, <2>2
<1>5. \A y \in T : x <= y
  BY <1>4
<1> QED  BY <1>5

-----------------------------------------------------------------------------
(* The loops that go down or up the tree.                                   *)

IsWalk(f, F, x, n) == f = [i \in 0..n |-> IF i = 0 THEN x ELSE F[f[i - 1]]]

LEMMA WalkExists ==
  ASSUME NEW F, NEW x, NEW D \in Nat
  PROVE  \E f : IsWalk(f, F, x, D)
<1> DEFINE T == {n \in Nat : ~\E f : IsWalk(f, F, x, n)}
<1>1. ASSUME NEW n \in Nat, n \in T, \A y \in T : n <= y PROVE FALSE
  <2>1. n # 0
    <3> DEFINE g == [i \in 0..0 |-> x]
    <3>1. g = [i \in 0..0 |-> IF i = 0 THEN x ELSE F[g[i - 1]]]
      OBVIOUS
    <3> HIDE DEF g
    <3>2. IsWalk(g, F, x, 0)
      BY <3>1 DEF IsWalk
    <3>. QED BY <1>1, <3>2
  <2>2. n - 1 \in Nat /\ \E f : IsWalk(f, F, x, n - 1)
    BY <1>1, <2>1
  <2>3. PICK f : IsWalk(f, F, x, n - 1)
    BY <2>2
  <2>4. \A i \in 0..n - 1 : f[i] = IF i = 0 THEN x ELSE F[f[i - 1]]
    BY <2>3 DEF IsWalk
  <2> DEFINE g == [i \in 0..n |-> IF i = n THEN F[f[n - 1]] ELSE f[i]]
  <2>5. \A i \in 0..n : g[i] = IF i = 0 THEN x ELSE F[g[i - 1]]
    <3>1. ASSUME NEW i \in 0..n PROVE g[i] = IF i = 0 THEN x ELSE F[g[i - 1]]
      <4>1. CASE i = 0
        BY <2>1, <2>2, <2>4, <4>1
      <4>2. CASE i # 0
        <5>1. g[i - 1] = f[i - 1]
          BY <2>1, <4>2
        <5>2. CASE i = n
          BY <4>2, <5>1, <5>2
        <5>3. CASE i # n
          BY <2>4, <4>2, <5>1, <5>3
        <5>. QED BY <5>2, <5>3
      <4>. QED BY <4>1, <4>2
    <3>. QED BY <3>1
  <2>6. g = [i \in 0..n |-> g[i]]
    OBVIOUS
  <2> HIDE DEF g
  <2>7. IsWalk(g, F, x, n)
    BY <2>5, <2>6 DEF IsWalk
  <2>. QED BY <1>1, <2>7
<1>2. T = {}
  <2>1. T \subseteq Nat
    OBVIOUS
  <2>. QED BY <1>1, <2>1, LeastNat
<1>. QED BY <1>2

\* A loop that stays in S, where F makes something smaller until it stands
\* still, stands still in the end.
LEMMA WalkSettles ==
  ASSUME NEW S, NEW F, \A y \in S : F[y] \in S, NEW size \in [S -> Nat], NEW x \in S,
         Depth \in Nat, size[x] <= Depth,
         \A y \in S : F[y] = y \/ size[F[y]] < size[y]
  PROVE  Walk(F, x) \in S /\ F[Walk(F, x)] = Walk(F, x)
<1> DEFINE f == CHOOSE g : IsWalk(g, F, x, Depth)
<1>1. Walk(F, x) = f[Depth]
  BY DEF Walk, IsWalk
<1>2. IsWalk(f, F, x, Depth)
  BY WalkExists
<1> HIDE DEF f
<1>3. f[0] = x /\ \A i \in 1..Depth : f[i] = F[f[i - 1]]
  BY <1>2 DEF IsWalk
<1> DEFINE Good(i) == f[i] \in S /\ (F[f[i]] = f[i] \/ size[f[i]] + i <= size[x])
           T == {i \in 0..Depth : ~Good(i)}
<1>4. ASSUME NEW n \in 0..Depth, n \in T, \A y \in T : n <= y PROVE FALSE
  <2>1. n # 0
    BY <1>3, <1>4
  <2>2. n - 1 \in 0..Depth /\ n \in 1..Depth /\ n - 1 \notin T
    BY <1>4, <2>1
  <2>3. Good(n - 1)
    BY <2>2
  <2>4. f[n] = F[f[n - 1]] /\ f[n] \in S
    BY <1>3, <2>2, <2>3
  <2>5. CASE F[f[n - 1]] = f[n - 1]
    BY <1>4, <2>4, <2>5
  <2>6. CASE F[f[n - 1]] # f[n - 1]
    <3>1. size[f[n]] < size[f[n - 1]] /\ size[f[n - 1]] + (n - 1) <= size[x]
      BY <2>3, <2>4, <2>6
    <3>2. size[f[n]] \in Nat /\ size[f[n - 1]] \in Nat /\ size[x] \in Nat
      BY <2>3, <2>4
    <3>3. size[f[n]] + n <= size[x]
      BY <3>1, <3>2
    <3>. QED BY <1>4, <2>4, <3>3
  <2>. QED BY <2>5, <2>6
<1>5. T = {}
  <2>1. T \subseteq Nat
    OBVIOUS
  <2>. QED BY <1>4, <2>1, LeastNat
<1>6. Good(Depth)
  BY <1>5
<1>7. CASE F[f[Depth]] # f[Depth]
  <2>1. size[f[Depth]] + Depth <= size[x] /\ size[F[f[Depth]]] < size[f[Depth]]
    BY <1>6, <1>7
  <2>2. size[f[Depth]] \in Nat /\ size[x] \in Nat /\ size[F[f[Depth]]] \in Nat
    BY <1>6
  <2>. QED BY <2>1, <2>2
<1>. QED BY <1>1, <1>6, <1>7

LEMMA DepthIsEnough ==
  /\ Depth \in Nat
  /\ \A M, N, ord : Ranked(M, N, ord) => N <= Depth /\ N = Cardinality(M) /\ IsFiniteSet(M)
<1>1. Depth \in Nat
  BY RBTreeAssumption, FS_CardinalityType DEF Depth
<1>2. ASSUME NEW M, NEW N, NEW ord, Ranked(M, N, ord)
      PROVE  N <= Depth /\ N = Cardinality(M) /\ IsFiniteSet(M)
  <2> DEFINE f == [x \in M |-> ord[x]]
  <2>1. M \subseteq Nodes /\ IsFiniteSet(Nodes) /\ N \in Nat
    BY <1>2, RBTreeAssumption DEF Ranked
  <2>2. IsFiniteSet(M) /\ Cardinality(M) <= Depth
    BY <2>1, FS_Subset DEF Depth
  <2>3. f \in Bijection(M, 1..N)
    BY <1>2 DEF Ranked, Bijection, Injection, Surjection, IsInjective
  <2>4. Cardinality(1..N) = Cardinality(M)
    BY <2>2, <2>3, FS_Bijection DEF ExistsBijection
  <2>5. Cardinality(1..N) = N
    BY <2>1, FS_Interval
  <2>. QED BY <2>2, <2>4, <2>5
<1>. QED BY <1>1, <1>2

\* The numbers of a shape.
LEMMA ShapeFacts ==
  ASSUME NEW t, NEW M, NEW N, NEW ord, NEW end, Shape(t, M, N, ord, end)
  PROVE  /\ N \in Nat /\ M \subseteq Nodes /\ Depth \in Nat /\ N <= Depth
         /\ Nil \notin M /\ Null \notin M
         /\ \A y \in M : /\ ord[y] \in 1..N /\ end["left"][y] \in Int /\ end["right"][y] \in Int
                         /\ 1 <= end["left"][y] /\ end["left"][y] <= ord[y]
                         /\ ord[y] <= end["right"][y] /\ end["right"][y] <= N
<1>1. Ranked(M, N, ord) /\ Spans(M, N, ord, end)
  BY DEF Shape
<1>2. Depth \in Nat /\ N <= Depth
  BY <1>1, DepthIsEnough
<1>3. N \in Nat /\ M \subseteq Nodes /\ \A y \in M : ord[y] \in 1..N
  BY <1>1 DEF Ranked
<1>4. \A y \in M : /\ end["left"][y] \in Int /\ end["right"][y] \in Int
                   /\ 1 <= end["left"][y] /\ end["left"][y] <= ord[y]
                   /\ ord[y] <= end["right"][y] /\ end["right"][y] <= N
  BY <1>1, <1>3, SideFacts DEF Spans
<1>. QED BY <1>2, <1>3, <1>4, NilIsNone

\* What a node is by its links.
LEMMA DownTo ==
  ASSUME NEW t, NEW M, NEW N, NEW ord, NEW end, Shape(t, M, N, ord, end),
         NEW x \in M, NEW s \in Sides
  PROVE  IF t.kid[s][x] = Nil THEN end[s][x] = ord[x]
         ELSE /\ t.kid[s][x] \in M /\ t.kid[s][x] # x /\ t.parent[t.kid[s][x]] = x
              /\ end[s][t.kid[s][x]] = end[s][x]
              /\ end[Other(s)][t.kid[s][x]] = ord[x] + Step(s)
              /\ end["right"][t.kid[s][x]] - end["left"][t.kid[s][x]]
                   < end["right"][x] - end["left"][x]
<1> DEFINE k == t.kid[s][x]
<1>1. CASE k = Nil
  <2>1. KidFits(t, M, ord, end, s, x) /\ Nil \notin M
    BY ShapeFacts DEF Shape
  <2>. QED BY <1>1, <2>1 DEF KidFits
<1>2. CASE k # Nil
  <2>1. /\ k \in M /\ k # x /\ t.parent[k] = x /\ end[s][k] = end[s][x]
        /\ end[Other(s)][k] = ord[x] + Step(s)
    BY <1>2, KidIs
  <2> HIDE DEF k
  <2>2. end["right"][k] - end["left"][k] < end["right"][x] - end["left"][x]
    BY <2>1, ShapeFacts, SideFacts
  <2>. QED BY <1>2, <2>1, <2>2 DEF k
<1>. QED BY <1>1, <1>2

\* The same of a child by name.
KidFound(t, M, ord, end, s, x, k) ==
  IF k = Nil THEN end[s][x] = ord[x]
  ELSE /\ k \in M /\ k # x /\ t.parent[k] = x
       /\ end[s][k] = end[s][x]
       /\ end[Other(s)][k] = ord[x] + Step(s)
       /\ end["right"][k] - end["left"][k] < end["right"][x] - end["left"][x]

LEMMA KidIsFound ==
  ASSUME NEW t, NEW M, NEW N, NEW ord, NEW end, Shape(t, M, N, ord, end),
         NEW x \in M, NEW s \in Sides, NEW k, t.kid[s][x] = k
  PROVE  KidFound(t, M, ord, end, s, x, k)
BY DownTo DEF KidFound

\* art_rbtree_min and art_rbtree_max: the node at the end of x's places.
LEMMA OutermostIs ==
  ASSUME NEW t, NEW M, NEW N, NEW ord, NEW end, Shape(t, M, N, ord, end),
         NEW x \in M, NEW s \in Sides
  PROVE  LET m == Outermost(t, x, s)
         IN  m \in M /\ t.kid[s][m] = Nil /\ end[s][m] = end[s][x] /\ ord[m] = end[s][x]
<1> DEFINE S == {y \in M : end[s][y] = end[s][x]}
           F == [y \in Nodes |-> IF t.kid[s][y] = Nil THEN y ELSE t.kid[s][y]]
           size == [y \in S |-> end["right"][y] - end["left"][y]]
           m == Outermost(t, x, s)
<1>1. m = Walk(F, x)
  BY DEF Outermost
<1>2. \A y \in S : F[y] = IF t.kid[s][y] = Nil THEN y ELSE t.kid[s][y]
  BY ShapeFacts
<1>3. size \in [S -> Nat] /\ size[x] <= Depth /\ x \in S /\ Depth \in Nat
  BY ShapeFacts
<1>4. \A y \in S : F[y] \in S
  BY <1>2, DownTo
<1> HIDE DEF F
<1>5. \A y \in S : F[y] = y \/ size[F[y]] < size[y]
  <2>1. ASSUME NEW y \in S, F[y] # y PROVE size[F[y]] < size[y]
    <3>1. F[y] = t.kid[s][y] /\ t.kid[s][y] # Nil
      BY <1>2, <2>1
    <3>2. end["right"][F[y]] - end["left"][F[y]] < end["right"][y] - end["left"][y]
      BY <3>1, DownTo
    <3>. QED BY <1>4, <3>2
  <2>. QED BY <2>1
<1> HIDE DEF S, size, m
<1>6. m \in S /\ F[m] = m
  BY <1>1, <1>3, <1>4, <1>5, WalkSettles
<1>7. m \in M /\ end[s][m] = end[s][x]
  BY <1>6 DEF S
<1>8. t.kid[s][m] = Nil
  BY <1>2, <1>6, <1>7, DownTo
<1>9. ord[m] = end[s][m]
  BY <1>7, <1>8, DownTo
<1>. QED BY <1>7, <1>8, <1>9 DEF m

LEMMA UpTo ==
  ASSUME NEW t, NEW M, NEW N, NEW ord, NEW end, Shape(t, M, N, ord, end),
         NEW x \in M, x # t.root
  PROVE  LET p == t.parent[x]
             a == SideOf(t, x)
         IN  /\ p \in M /\ p # x /\ a \in Sides /\ t.kid[a][p] = x
             /\ t.kid[Other(a)][p] # x
             /\ end[a][x] = end[a][p] /\ end[Other(a)][x] = ord[p] + Step(a)
             /\ end["right"][x] - end["left"][x] < end["right"][p] - end["left"][p]
<1> DEFINE p == t.parent[x]
<1>1. ParentFits(t, M, x) /\ x # Nil
  BY ShapeFacts DEF Shape
<1>2. PICK a \in Sides : p \in M /\ t.kid[a][p] = x
  BY <1>1 DEF ParentFits
<1>3. SideOf(t, x) = a /\ t.kid[Other(a)][p] # x
  BY <1>1, <1>2, KidIs
<1> HIDE DEF p
<1>4. /\ x # p /\ end[a][x] = end[a][p] /\ end[Other(a)][x] = ord[p] + Step(a)
      /\ end["right"][x] - end["left"][x] < end["right"][p] - end["left"][p]
  BY <1>1, <1>2, DownTo
<1>. QED BY <1>2, <1>3, <1>4 DEF p

\* The last node on the way up from x along side s: it has x's end on that side.
LEMMA ClimbIs ==
  ASSUME NEW t, NEW M, NEW N, NEW ord, NEW end, Shape(t, M, N, ord, end),
         NEW x \in M, NEW s \in Sides
  PROVE  LET c == Climb(t, x, s)
         IN  /\ c \in M /\ end[s][c] = end[s][x]
             /\ c # t.root => /\ t.parent[c] \in M
                              /\ end[s][c] = ord[t.parent[c]] + Step(Other(s))
<1> DEFINE S == {y \in M : end[s][y] = end[s][x]}
           F == [y \in Nodes |-> IF y = t.root \/ y # t.kid[s][t.parent[y]]
                                 THEN y ELSE t.parent[y]]
           size == [y \in S |-> N - 1 - (end["right"][y] - end["left"][y])]
           c == Climb(t, x, s)
<1>1. c = Walk(F, x)
  BY DEF Climb
<1>2. \A y \in S : F[y] = IF y = t.root \/ y # t.kid[s][t.parent[y]] THEN y ELSE t.parent[y]
  BY ShapeFacts
<1>3. size \in [S -> Nat] /\ size[x] <= Depth /\ x \in S /\ Depth \in Nat
  BY ShapeFacts
<1> HIDE DEF F
<1>4. ASSUME NEW y \in S, F[y] # y
      PROVE  F[y] \in S /\ size[F[y]] < size[y]
  <2>1. y \in M /\ y # t.root /\ y = t.kid[s][t.parent[y]] /\ F[y] = t.parent[y]
    BY <1>2, <1>4
  <2>2. SideOf(t, y) = s
    BY <2>1, UpTo, SideFacts
  <2>3. /\ F[y] \in M /\ end[s][F[y]] = end[s][y]
        /\ end["right"][y] - end["left"][y] < end["right"][F[y]] - end["left"][F[y]]
    BY <2>1, <2>2, UpTo
  <2>4. F[y] \in S
    BY <2>3
  <2>. QED BY <2>1, <2>3, <2>4, ShapeFacts
<1>5. \A y \in S : F[y] \in S
  BY <1>4
<1> HIDE DEF S, size, c
<1>6. c \in S /\ F[c] = c
  BY <1>1, <1>3, <1>4, <1>5, WalkSettles
<1>7. c \in M /\ end[s][c] = end[s][x]
  BY <1>6 DEF S
<1>8. ASSUME c # t.root
      PROVE  t.parent[c] \in M /\ end[s][c] = ord[t.parent[c]] + Step(Other(s))
  <2>1. /\ t.parent[c] \in M /\ t.parent[c] # c
        /\ SideOf(t, c) \in Sides /\ t.kid[SideOf(t, c)][t.parent[c]] = c
        /\ end[Other(SideOf(t, c))][c] = ord[t.parent[c]] + Step(SideOf(t, c))
    BY <1>7, <1>8, UpTo
  <2>2. c # t.kid[s][t.parent[c]]
    BY <1>2, <1>6, <1>8, <2>1
  <2>3. SideOf(t, c) = Other(s) /\ Other(SideOf(t, c)) = s
    BY <2>1, <2>2, SideFacts
  <2>. QED BY <2>1, <2>3
<1>. QED BY <1>7, <1>8 DEF c

\* art_rbtree_suc: the node at the next place.
LEMMA SucIs ==
  ASSUME NEW t, NEW M, NEW N, NEW ord, NEW end, Shape(t, M, N, ord, end), NEW x \in M
  PROVE  IF ord[x] = N THEN Suc(t, x) = Null
         ELSE Suc(t, x) \in M /\ ord[Suc(t, x)] = ord[x] + 1
<1> DEFINE k == t.kid["right"][x]
           c == Climb(t, x, "right")
<1>1. CASE k # Nil
  <2>1. Suc(t, x) = Outermost(t, k, "left")
    BY <1>1 DEF Suc
  <2>2. k \in M /\ end["left"][k] = ord[x] + 1 /\ end["right"][k] = end["right"][x]
    BY <1>1, DownTo, SideFacts
  <2> HIDE DEF k
  <2>3. Suc(t, x) \in M /\ ord[Suc(t, x)] = ord[x] + 1
    BY <2>1, <2>2, OutermostIs, SideFacts
  <2>4. ord[x] # N
    BY <2>2, ShapeFacts
  <2>. QED BY <2>3, <2>4
<1>2. CASE k = Nil
  <2>1. Suc(t, x) = IF c = t.root THEN Null ELSE t.parent[c]
    BY <1>2 DEF Suc
  <2>2. end["right"][x] = ord[x]
    BY <1>2, DownTo, SideFacts
  <2>3. /\ c \in M /\ end["right"][c] = ord[x]
        /\ c # t.root => t.parent[c] \in M /\ ord[x] = ord[t.parent[c]] - 1
    <3>1. "right" \in Sides
      BY SideFacts
    <3>2. /\ c \in M /\ end["right"][c] = end["right"][x]
          /\ c # t.root => /\ t.parent[c] \in M
                           /\ end["right"][c] = ord[t.parent[c]] + Step(Other("right"))
      BY <3>1, ClimbIs
    <3> HIDE DEF c
    <3>. QED BY <2>2, <3>2, SideFacts, ShapeFacts
  <2> HIDE DEF c
  <2>4. CASE c = t.root
    <3>1. ord[x] = N
      BY <2>3, <2>4, ShapeFacts DEF Shape, RootFits
    <3>. QED BY <2>1, <2>4, <3>1
  <2>5. CASE c # t.root
    <3>1. Suc(t, x) \in M /\ ord[x] = ord[Suc(t, x)] - 1
      BY <2>1, <2>3, <2>5
    <3>2. ord[Suc(t, x)] = ord[x] + 1 /\ ord[x] # N
      BY <3>1, ShapeFacts
    <3>. QED BY <3>1, <3>2
  <2>. QED BY <2>4, <2>5
<1>. QED BY <1>1, <1>2

\* art_rbtree_pre: the node at the place before, or the first node of a left
\* subtree.
LEMMA PreIs ==
  ASSUME NEW t, NEW M, NEW N, NEW ord, NEW end, Shape(t, M, N, ord, end), NEW x \in M
  PROVE  IF ord[x] = 1 THEN Pre(t, x) = Null
         ELSE /\ Pre(t, x) \in M
              /\ ord[Pre(t, x)] = IF end["left"][x] = ord[x] THEN ord[x] - 1
                                  ELSE end["left"][x]
<1> DEFINE k == t.kid["left"][x]
           c == Climb(t, x, "left")
<1>1. CASE k # Nil
  <2>1. Pre(t, x) = Outermost(t, k, "left")
    BY <1>1 DEF Pre
  <2>2. k \in M /\ end["left"][k] = end["left"][x] /\ end["right"][k] = ord[x] - 1
    BY <1>1, DownTo, SideFacts, ShapeFacts
  <2> HIDE DEF k
  <2>3. Pre(t, x) \in M /\ ord[Pre(t, x)] = end["left"][x]
    BY <2>1, <2>2, OutermostIs, SideFacts
  <2>4. ord[x] # 1 /\ end["left"][x] # ord[x]
    BY <2>2, ShapeFacts
  <2>. QED BY <2>3, <2>4
<1>2. CASE k = Nil
  <2>1. Pre(t, x) = IF c = t.root THEN Null ELSE t.parent[c]
    BY <1>2 DEF Pre
  <2>2. end["left"][x] = ord[x]
    BY <1>2, DownTo, SideFacts
  <2>3. /\ c \in M /\ end["left"][c] = ord[x]
        /\ c # t.root => t.parent[c] \in M /\ ord[x] = ord[t.parent[c]] + 1
    <3>1. "left" \in Sides
      BY SideFacts
    <3>2. /\ c \in M /\ end["left"][c] = end["left"][x]
          /\ c # t.root => /\ t.parent[c] \in M
                           /\ end["left"][c] = ord[t.parent[c]] + Step(Other("left"))
      BY <3>1, ClimbIs
    <3> HIDE DEF c
    <3>. QED BY <2>2, <3>2, SideFacts, ShapeFacts
  <2> HIDE DEF c
  <2>4. CASE c = t.root
    <3>1. ord[x] = 1
      BY <2>3, <2>4, ShapeFacts DEF Shape, RootFits
    <3>. QED BY <2>1, <2>4, <3>1
  <2>5. CASE c # t.root
    <3>1. Pre(t, x) \in M /\ ord[x] = ord[Pre(t, x)] + 1
      BY <2>1, <2>3, <2>5
    <3>2. ord[Pre(t, x)] = ord[x] - 1 /\ ord[x] # 1
      BY <3>1, ShapeFacts
    <3>. QED BY <2>2, <3>1, <3>2
  <2>. QED BY <2>4, <2>5
<1>. QED BY <1>1, <1>2

-----------------------------------------------------------------------------
(* The tree in order.                                                       *)

\* The node at place i, and those at the places a to b.
NodeAt(M, ord, i) == CHOOSE x \in M : ord[x] = i
Part(M, ord, a, b) == [i \in 1 .. b - a + 1 |-> NodeAt(M, ord, a + i - 1)]

LEMMA NodeAtIs ==
  ASSUME NEW M, NEW N, NEW ord, Ranked(M, N, ord)
  PROVE  /\ \A i \in 1..N : NodeAt(M, ord, i) \in M /\ ord[NodeAt(M, ord, i)] = i
         /\ \A x \in M : NodeAt(M, ord, ord[x]) = x
<1>1. ASSUME NEW i \in 1..N PROVE NodeAt(M, ord, i) \in M /\ ord[NodeAt(M, ord, i)] = i
  <2>1. \E x \in M : ord[x] = i
    BY DEF Ranked
  <2>. QED BY <2>1 DEF NodeAt
<1>2. ASSUME NEW x \in M PROVE NodeAt(M, ord, ord[x]) = x
  <2>1. ord[x] \in 1..N
    BY DEF Ranked
  <2>2. NodeAt(M, ord, ord[x]) \in M /\ ord[NodeAt(M, ord, ord[x])] = ord[x]
    BY <1>1, <2>1
  <2>. QED BY <2>2 DEF Ranked
<1>. QED BY <1>1, <1>2

LEMMA PartType ==
  ASSUME NEW M, NEW N, NEW ord, Ranked(M, N, ord), NEW a \in Int, NEW b \in Int,
         1 <= a, a <= b + 1, b <= N
  PROVE  Part(M, ord, a, b) \in Seq(M) /\ Len(Part(M, ord, a, b)) = b - a + 1
<1>1. N \in Nat
  BY DEF Ranked
<1>2. \A i \in 1 .. b - a + 1 : NodeAt(M, ord, a + i - 1) \in M
  BY <1>1, NodeAtIs
<1>. QED BY <1>1, <1>2 DEF Part

Joins(M, ord, a, k, b) ==
  Part(M, ord, a, k - 1) \o <<NodeAt(M, ord, k)>> \o Part(M, ord, k + 1, b)
    = Part(M, ord, a, b)

LEMMA PartJoins ==
  ASSUME NEW M, NEW N, NEW ord, Ranked(M, N, ord), NEW a \in Int, NEW b \in Int,
         NEW k \in Int, 1 <= a, a <= k, k <= b, b <= N
  PROVE  Joins(M, ord, a, k, b)
<1> DEFINE p == Part(M, ord, a, k - 1)
           q == <<NodeAt(M, ord, k)>>
           r == Part(M, ord, k + 1, b)
           w == Part(M, ord, a, b)
           pq == p \o q
           pqr == pq \o r
<1>0. N \in Nat /\ k \in 1..N /\ k - 1 \in Int /\ k + 1 \in Int
  BY DEF Ranked
<1>1. /\ p \in Seq(M) /\ Len(p) = k - a
      /\ r \in Seq(M) /\ Len(r) = b - k
  BY <1>0, PartType
<1>2. w \in Seq(M) /\ Len(w) = b - a + 1
  BY <1>0, PartType
<1>3. q \in Seq(M) /\ Len(q) = 1 /\ q[1] = NodeAt(M, ord, k)
  BY <1>0, NodeAtIs
<1>4. /\ \A i \in 1 .. k - a : p[i] = NodeAt(M, ord, a + i - 1)
      /\ \A i \in 1 .. b - k : r[i] = NodeAt(M, ord, k + i)
      /\ \A i \in 1 .. b - a + 1 : w[i] = NodeAt(M, ord, a + i - 1)
  BY DEF Part
<1> HIDE DEF p, q, r, w
<1>5. /\ pq \in Seq(M) /\ Len(pq) = k - a + 1
      /\ \A i \in 1 .. k - a + 1 : pq[i] = IF i <= k - a THEN p[i] ELSE q[i - (k - a)]
  <2>1. /\ pq \in Seq(M) /\ Len(pq) = Len(p) + Len(q)
        /\ \A i \in 1 .. Len(p) + Len(q) : pq[i] = IF i <= Len(p) THEN p[i] ELSE q[i - Len(p)]
    BY <1>1, <1>3, ConcatProperties
  <2> HIDE DEF pq
  <2>. QED BY <1>1, <1>3, <2>1
<1> HIDE DEF pq
<1>6. /\ pqr \in Seq(M) /\ Len(pqr) = b - a + 1
      /\ \A i \in 1 .. b - a + 1 : pqr[i] = IF i <= k - a + 1 THEN pq[i] ELSE r[i - (k - a + 1)]
  <2>1. /\ pqr \in Seq(M) /\ Len(pqr) = Len(pq) + Len(r)
        /\ \A i \in 1 .. Len(pq) + Len(r) :
             pqr[i] = IF i <= Len(pq) THEN pq[i] ELSE r[i - Len(pq)]
    BY <1>1, <1>5, ConcatProperties
  <2> HIDE DEF pqr
  <2>2. Len(pq) + Len(r) = b - a + 1
    BY <1>1, <1>5
  <2>. QED BY <1>5, <2>1, <2>2
<1> HIDE DEF pqr
<1>7. ASSUME NEW i \in 1 .. b - a + 1 PROVE pqr[i] = w[i]
  <2>0. w[i] = NodeAt(M, ord, a + i - 1)
    BY <1>4
  <2>1. CASE i <= k - a
    <3>1. pqr[i] = p[i] /\ i \in 1 .. k - a
      BY <1>5, <1>6, <2>1
    <3>. QED BY <1>4, <2>0, <3>1
  <2>2. CASE i = k - a + 1
    <3>1. pqr[i] = q[1]
      BY <1>5, <1>6, <2>2
    <3>2. a + i - 1 = k
      BY <2>2
    <3>. QED BY <1>3, <2>0, <3>1, <3>2
  <2>3. CASE i > k - a + 1
    <3> DEFINE j == i - (k - a + 1)
    <3>1. pqr[i] = r[j] /\ j \in 1 .. b - k /\ k + j = a + i - 1
      BY <1>6, <2>3
    <3> HIDE DEF j
    <3>2. r[j] = NodeAt(M, ord, k + j)
      BY <1>4, <3>1
    <3>. QED BY <2>0, <3>1, <3>2
  <2>. QED BY <2>1, <2>2, <2>3
<1>8. pqr = w
  BY <1>2, <1>6, <1>7
<1>. QED BY <1>8 DEF p, q, r, w, pq, pqr, Joins

\* The nodes of InOrder's walk, and a walk.
Ends == Nodes \cup {Nil, Null}
Below(t, v, y) == v[t.kid["left"][y]] \o <<y>> \o v[t.kid["right"][y]]
WalksDown(t, w) ==
  w = [d \in 0..Depth |-> [y \in Ends |-> IF d = 0 \/ y \in {Nil, Null} THEN <<>>
                                          ELSE Below(t, w[d - 1], y)]]

LEMMA InOrderWalks ==
  ASSUME NEW t \in TreeType
  PROVE  \E w : WalksDown(t, w) /\ \A x : InOrder(t, x) = w[Depth][x]
<1> DEFINE S == [Ends -> Seq(Nodes)]
           G(v) == [y \in Ends |-> IF y \in {Nil, Null} THEN <<>> ELSE Below(t, v, y)]
           F == [v \in S |-> G(v)]
           none == [y \in Ends |-> <<>>]
           wo == CHOOSE w : WalksDown(t, w)
<1>1. Depth \in Nat
  BY DepthIsEnough
<1>2. PICK f : IsWalk(f, F, none, Depth)
  <2> HIDE DEF F, none
  <2>. QED BY <1>1, WalkExists
<1>3. none \in S
  OBVIOUS
<1>4. ASSUME NEW v \in S PROVE G(v) \in S
  <2>1. ASSUME NEW y \in Ends, y \notin {Nil, Null} PROVE Below(t, v, y) \in Seq(Nodes)
    <3>1. y \in Nodes /\ t.kid["left"][y] \in Ends /\ t.kid["right"][y] \in Ends
      BY <2>1, SideFacts DEF Ends, TreeType
    <3>2. v[t.kid["left"][y]] \in Seq(Nodes) /\ v[t.kid["right"][y]] \in Seq(Nodes)
      BY <3>1
    <3>. QED BY <3>1, <3>2 DEF Below
  <2>2. \A y \in Ends : (IF y \in {Nil, Null} THEN <<>> ELSE Below(t, v, y)) \in Seq(Nodes)
    BY <2>1
  <2>. QED BY <2>2
<1>5. f[0] = none /\ \A i \in 1..Depth : f[i] = F[f[i - 1]]
  <2> HIDE DEF F, none
  <2>. QED BY <1>1, <1>2 DEF IsWalk
<1>6. \A v \in S : F[v] \in S /\ F[v] = G(v)
  BY <1>4
<1> HIDE DEF F, S, G
<1>7. \A i \in 0..Depth : f[i] \in S
  <2> DEFINE T == {i \in 0..Depth : f[i] \notin S}
  <2>1. ASSUME NEW n \in 0..Depth, n \in T, \A y \in T : n <= y PROVE FALSE
    <3>1. n # 0
      BY <1>3, <1>5, <2>1
    <3>2. n \in 1..Depth /\ n - 1 \in 0..Depth /\ f[n - 1] \in S
      BY <1>1, <2>1, <3>1
    <3>. QED BY <1>5, <1>6, <2>1, <3>2
  <2>2. T \subseteq Nat
    OBVIOUS
  <2>. QED BY <2>1, <2>2, LeastNat
<1>8. ASSUME NEW d \in 0..Depth
      PROVE  f[d] = [y \in Ends |-> IF d = 0 \/ y \in {Nil, Null} THEN <<>>
                                    ELSE Below(t, f[d - 1], y)]
  <2>1. CASE d = 0
    BY <1>5, <2>1
  <2>2. CASE d # 0
    <3>1. d \in 1..Depth /\ d - 1 \in 0..Depth
      BY <1>1, <2>2
    <3>2. f[d] = G(f[d - 1])
      BY <1>5, <1>6, <1>7, <3>1
    <3>. QED BY <2>2, <3>2 DEF G
  <2>. QED BY <2>1, <2>2
<1>9. f = [d \in 0..Depth |-> f[d]]
  BY <1>2 DEF IsWalk
<1>10. WalksDown(t, f)
  BY <1>8, <1>9 DEF WalksDown
<1>11. WalksDown(t, wo)
  BY <1>10
<1>12. \A x : InOrder(t, x) = wo[Depth][x]
  BY DEF InOrder, WalksDown, Below, Ends
<1>. QED BY <1>11, <1>12

LEMMA InOrderIs ==
  ASSUME NEW t \in TreeType, NEW M, NEW N, NEW ord, NEW end, Shape(t, M, N, ord, end)
  PROVE  /\ InOrder(t, Nil) = <<>>
         /\ \A x \in M : InOrder(t, x) = Part(M, ord, end["left"][x], end["right"][x])
<1>1. PICK w : WalksDown(t, w) /\ \A x : InOrder(t, x) = w[Depth][x]
  BY InOrderWalks
<1>2. \A d \in 0..Depth, y \in Ends :
        w[d][y] = IF d = 0 \/ y \in {Nil, Null} THEN <<>> ELSE Below(t, w[d - 1], y)
  BY <1>1 DEF WalksDown
<1>3. Ranked(M, N, ord) /\ M \subseteq Ends /\ Nil \in Ends
  BY ShapeFacts DEF Shape, Ends
<1> DEFINE lo == end["left"]
           hi == end["right"]
           Short(d) == \E y \in M : hi[y] - lo[y] < d /\ w[d][y] # Part(M, ord, lo[y], hi[y])
           T == {d \in 0..Depth : Short(d)}
<1>4. ASSUME NEW d \in 0..Depth, d \in T, \A e \in T : d <= e PROVE FALSE
  <2>1. PICK y \in M : hi[y] - lo[y] < d /\ w[d][y] # Part(M, ord, lo[y], hi[y])
    BY <1>4
  <2>2. /\ lo[y] \in Int /\ hi[y] \in Int /\ ord[y] \in Int /\ N \in Nat /\ Depth \in Nat
        /\ 1 <= lo[y] /\ lo[y] <= ord[y] /\ ord[y] <= hi[y] /\ hi[y] <= N /\ Nil # y /\ Null # y
    BY ShapeFacts
  <2>3. d # 0 /\ d - 1 \in 0..Depth /\ d - 1 \notin T
    BY <1>4, <2>1, <2>2
  <2>smaller. ASSUME NEW z \in M, hi[z] - lo[z] < d - 1
              PROVE  w[d - 1][z] = Part(M, ord, lo[z], hi[z])
    BY <2>3, <2>smaller
  <2> DEFINE l == t.kid["left"][y]
             r == t.kid["right"][y]
             v == w[d - 1]
  <2>4. v[l] = Part(M, ord, lo[y], ord[y] - 1)
    <3>1. CASE l = Nil
      <4>1. v[l] = <<>>
        BY <1>2, <1>3, <2>3, <3>1
      <4>2. lo[y] = ord[y]
        BY <3>1, DownTo, SideFacts
      <4>3. Part(M, ord, lo[y], ord[y] - 1) = <<>>
        <5>1. /\ Part(M, ord, lo[y], ord[y] - 1) \in Seq(M)
              /\ Len(Part(M, ord, lo[y], ord[y] - 1)) = 0
          BY <1>3, <2>2, <4>2, PartType
        <5>. QED BY <5>1
      <4>. QED BY <4>1, <4>3
    <3>2. CASE l # Nil
      <4>1. l \in M /\ lo[l] = lo[y] /\ hi[l] = ord[y] + Step("left")
        BY <3>2, DownTo, SideFacts
      <4>2. hi[l] = ord[y] - 1 /\ hi[l] - lo[l] < d - 1
        BY <2>1, <2>2, <4>1, SideFacts
      <4> HIDE DEF lo, hi, l
      <4>3. w[d - 1][l] = Part(M, ord, lo[l], hi[l])
        BY <2>smaller, <4>1, <4>2, Zenon
      <4> HIDE DEF v
      <4>4. v[l] = Part(M, ord, lo[l], hi[l])
        BY <4>3 DEF v
      <4>. QED BY <4>1, <4>2, <4>4
    <3>. QED BY <3>1, <3>2
  <2>5. v[r] = Part(M, ord, ord[y] + 1, hi[y])
    <3>1. CASE r = Nil
      <4>1. v[r] = <<>>
        BY <1>2, <1>3, <2>3, <3>1
      <4>2. hi[y] = ord[y]
        BY <3>1, DownTo, SideFacts
      <4>3. Part(M, ord, ord[y] + 1, hi[y]) = <<>>
        <5>1. /\ Part(M, ord, ord[y] + 1, hi[y]) \in Seq(M)
              /\ Len(Part(M, ord, ord[y] + 1, hi[y])) = 0
          BY <1>3, <2>2, <4>2, PartType
        <5>. QED BY <5>1
      <4>. QED BY <4>1, <4>3
    <3>2. CASE r # Nil
      <4>1. r \in M /\ hi[r] = hi[y] /\ lo[r] = ord[y] + Step("right")
        BY <3>2, DownTo, SideFacts
      <4>2. lo[r] = ord[y] + 1 /\ hi[r] - lo[r] < d - 1
        BY <2>1, <2>2, <4>1, SideFacts
      <4> HIDE DEF lo, hi, r
      <4>3. w[d - 1][r] = Part(M, ord, lo[r], hi[r])
        BY <2>smaller, <4>1, <4>2, Zenon
      <4> HIDE DEF v
      <4>4. v[r] = Part(M, ord, lo[r], hi[r])
        BY <4>3 DEF v
      <4>. QED BY <4>1, <4>2, <4>4
    <3>. QED BY <3>1, <3>2
  <2> HIDE DEF lo, hi
  <2>6. w[d][y] = v[l] \o <<y>> \o v[r]
    <3>1. w[d][y] = Below(t, w[d - 1], y)
      BY <1>2, <1>3, <2>2, <2>3
    <3>. QED BY <3>1, Zenon DEF Below
  <2> HIDE DEF l, r, v
  <2>7. NodeAt(M, ord, ord[y]) = y
    BY <1>3, NodeAtIs
  <2>8. Joins(M, ord, lo[y], ord[y], hi[y])
    BY <1>3, <2>2, PartJoins
  <2>. QED BY <2>1, <2>4, <2>5, <2>6, <2>7, <2>8 DEF Joins
<1> HIDE DEF Short
<1>5. T = {}
  <2>1. T \subseteq Nat
    OBVIOUS
  <2>. QED BY <1>4, <2>1, LeastNat
<1>6. InOrder(t, Nil) = <<>>
  BY <1>1, <1>2, <1>3, DepthIsEnough
<1>7. ASSUME NEW x \in M PROVE InOrder(t, x) = Part(M, ord, lo[x], hi[x])
  <2>1. ~Short(Depth) /\ Depth \in Nat
    BY <1>5, DepthIsEnough
  <2>2. hi[x] - lo[x] < Depth
    BY ShapeFacts
  <2>. QED BY <1>1, <2>1, <2>2 DEF Short
<1>. QED BY <1>6, <1>7

-----------------------------------------------------------------------------
(* The order of the keys.                                                   *)

LEMMA TimesPositive ==
  ASSUME NEW m \in Nat \ {0}, NEW z \in Int
  PROVE  /\ z >= 1 => m * z >= m
         /\ z <= -1 => m * z <= -m
OBVIOUS

LEMMA ModIs ==
  ASSUME NEW m \in Nat \ {0}, NEW a \in Int, NEW q \in Int, NEW r \in 0 .. m - 1,
         a = m * q + r
  PROVE  a % m = r
<1>1. /\ a \div m \in Int /\ a % m \in 0 .. m - 1
      /\ a = m * (a \div m) + (a % m)
  OBVIOUS
<1> DEFINE z == q - (a \div m)
<1>2. z \in Int /\ m * z = (a % m) - r
  BY <1>1
<1> HIDE DEF z
<1>3. m * z < m /\ m * z > -m
  BY <1>1, <1>2
<1>4. z = 0
  BY <1>2, <1>3, TimesPositive
<1>. QED BY <1>1, <1>2, <1>4

\* The sign of the difference of two residues is that of the two numbers, if
\* these are less than half the ring apart.
LEMMA RingOrder ==
  ASSUME NEW h \in Nat \ {0}, NEW a \in Nat, NEW b \in Nat, a - b < h, b - a < h
  PROVE  ((a % (2 * h)) - (b % (2 * h))) % (2 * h) >= h <=> a < b
<1> DEFINE m == 2 * h
           p == a \div m
           q == b \div m
           x == a % m
           y == b % m
<1>0. m \in Nat \ {0}
  OBVIOUS
<1> HIDE DEF m
<1>1. /\ p \in Int /\ q \in Int /\ x \in 0 .. m - 1 /\ y \in 0 .. m - 1
      /\ a = m * p + x /\ b = m * q + y
  BY <1>0
<1> HIDE DEF p, q, x, y
<1>2. CASE a >= b
  <2> DEFINE z == q - p
  <2>1. z \in Int /\ x - y \in Int /\ x - y = m * z + (a - b) /\ a - b \in 0 .. m - 1
    BY <1>0, <1>1, <1>2 DEF m
  <2> HIDE DEF z
  <2>2. (x - y) % m = a - b
    BY <1>0, <1>1, <2>1, ModIs
  <2>. QED BY <1>2, <2>2 DEF x, y, m
<1>3. CASE a < b
  <2> DEFINE z == q - p - 1
  <2>1. z \in Int /\ x - y \in Int /\ x - y = m * z + (a - b + m) /\ a - b + m \in 0 .. m - 1
    BY <1>0, <1>1, <1>3 DEF m
  <2> HIDE DEF z
  <2>2. (x - y) % m = a - b + m
    BY <1>0, <2>1, ModIs
  <2>3. a - b + m >= h
    BY <1>3 DEF m
  <2>. QED BY <1>3, <2>2, <2>3 DEF x, y, m
<1>. QED BY <1>2, <1>3

\* Hash, length and bytes compared one after the other compare the whole.
StrOf(d) == <<(d \div 2) % 2, d % 2>>

DigitsBefore(d, h, s) == d \div 4 < h \/ (d \div 4 = h /\ StrBefore(StrOf(d), s))

LEMMA DigitOrder ==
  ASSUME NEW a \in Nat, NEW b \in Nat
  PROVE  /\ DigitsBefore(a, b \div 4, StrOf(b)) <=> a < b
         /\ (a \div 4 = b \div 4 /\ StrOf(a) = StrOf(b)) <=> a = b
<1> DEFINE a1 == (a \div 2) % 2
           a2 == a % 2
           b1 == (b \div 2) % 2
           b2 == b % 2
<1>1. /\ a = 4 * (a \div 4) + 2 * a1 + a2 /\ a1 \in {0, 1} /\ a2 \in {0, 1} /\ a \div 4 \in Nat
      /\ b = 4 * (b \div 4) + 2 * b1 + b2 /\ b1 \in {0, 1} /\ b2 \in {0, 1} /\ b \div 4 \in Nat
  OBVIOUS
<1> HIDE DEF a1, a2, b1, b2
<1>2. StrBefore(<<a1, a2>>, <<b1, b2>>) <=> a1 < b1 \/ (a1 = b1 /\ a2 < b2)
  BY DEF StrBefore
<1>3. <<a1, a2>> = <<b1, b2>> <=> a1 = b1 /\ a2 = b2
  OBVIOUS
<1>4. (a \div 4 < b \div 4 \/ (a \div 4 = b \div 4 /\ StrBefore(<<a1, a2>>, <<b1, b2>>))) <=> a < b
  BY <1>1, <1>2
<1>5. (a \div 4 = b \div 4 /\ <<a1, a2>> = <<b1, b2>>) <=> a = b
  BY <1>1, <1>3
<1>. QED BY <1>4, <1>5 DEF a1, a2, b1, b2, DigitsBefore, StrOf

\* The members' keys stand for the times D, and none of these is out of the
\* reach of d.
Keyed(t, M, D) ==
  /\ D \in [Nodes -> Nat] /\ t.insert \in Orders
  /\ \A x \in M : t.key[x] = Key(t.insert, D[x]) /\ t.str[x] = Str(t.insert, D[x])
  /\ t.insert = "value" => \A x \in M : D[x] < 2 * Half

InReach(t, M, D, d) ==
  /\ d \in Nat /\ (t.insert = "value" => d < 2 * Half)
  /\ t.insert = "timer" => \A x \in M : d - D[x] < Half /\ D[x] - d < Half

Ordered(M, ord, D) == \A x, y \in M : ord[x] < ord[y] => D[x] <= D[y]

LEMMA BeforeIs ==
  ASSUME NEW t, NEW M \in SUBSET Nodes, NEW D, Keyed(t, M, D), NEW d, InReach(t, M, D, d),
         NEW y \in M
  PROVE  Before(t, d, y) <=> d < D[y]
<1>0. Half \in Nat \ {0} /\ d \in Nat /\ D[y] \in Nat
  BY RBTreeAssumption DEF Keyed, InReach
<1>1. CASE t.insert = "value"
  <2>1. t.key[y] = D[y] % (2 * Half) /\ D[y] < 2 * Half /\ d < 2 * Half
    BY <1>1 DEF Keyed, Key, InReach
  <2>2. D[y] % (2 * Half) = D[y] /\ d % (2 * Half) = d
    <3>1. /\ 2 * Half \in Nat \ {0} /\ d \in 0 .. 2 * Half - 1 /\ D[y] \in 0 .. 2 * Half - 1
          /\ d = (2 * Half) * 0 + d /\ D[y] = (2 * Half) * 0 + D[y]
      BY <1>0, <2>1
    <3>2. d % (2 * Half) = d
      BY <3>1, ModIs
    <3>3. D[y] % (2 * Half) = D[y]
      BY <3>1, ModIs
    <3>. QED BY <3>2, <3>3
  <2>3. Before(t, d, y) <=> d % (2 * Half) < t.key[y]
    BY <1>1 DEF Before, Key
  <2>. QED BY <2>1, <2>2, <2>3
<1>2. CASE t.insert = "timer"
  <2>1. t.key[y] = D[y] % (2 * Half) /\ d - D[y] < Half /\ D[y] - d < Half
    BY <1>2 DEF Keyed, Key, InReach
  <2>2. Before(t, d, y) <=> ((d % (2 * Half)) - t.key[y]) % (2 * Half) >= Half
    BY <1>2 DEF Before, Key
  <2>3. ((d % (2 * Half)) - (D[y] % (2 * Half))) % (2 * Half) >= Half <=> d < D[y]
    BY <1>0, <2>1, RingOrder
  <2>. QED BY <2>1, <2>2, <2>3
<1>3. CASE t.insert = "string"
  <2>1. t.key[y] = D[y] \div 4 /\ t.str[y] = StrOf(D[y])
    BY <1>3 DEF Keyed, Key, Str, StrOf
  <2>2. Before(t, d, y) <=> DigitsBefore(d, t.key[y], t.str[y])
    BY <1>3 DEF Before, Key, Str, StrOf, DigitsBefore
  <2>3. DigitsBefore(d, D[y] \div 4, StrOf(D[y])) <=> d < D[y]
    BY <1>0, DigitOrder
  <2>. QED BY <2>1, <2>2, <2>3
<1>. QED BY <1>1, <1>2, <1>3 DEF Keyed, Orders

LEMMA MatchIs ==
  ASSUME NEW t, NEW M \in SUBSET Nodes, NEW D, Keyed(t, M, D), NEW d \in Nat,
         NEW y \in M, t.insert = "string"
  PROVE  Key(t.insert, d) = t.key[y] /\ Str(t.insert, d) = t.str[y] <=> d = D[y]
<1>1. D[y] \in Nat
  BY DEF Keyed
<1>2. t.key[y] = D[y] \div 4 /\ t.str[y] = StrOf(D[y])
  BY DEF Keyed, Key, Str, StrOf
<1>3. Key(t.insert, d) = d \div 4 /\ Str(t.insert, d) = StrOf(d)
  BY DEF Key, Str, StrOf
<1>4. d \div 4 = D[y] \div 4 /\ StrOf(d) = StrOf(D[y]) <=> d = D[y]
  BY <1>1, DigitOrder
<1>. QED BY <1>2, <1>3, <1>4

\* Bottom finds the place of what is due at d.
LEMMA BottomIs ==
  ASSUME NEW t, NEW M, NEW N, NEW ord, NEW end, Shape(t, M, N, ord, end),
         NEW D, Keyed(t, M, D), Ordered(M, ord, D), NEW d, InReach(t, M, D, d), t.root # Nil
  PROVE  LET b == Bottom(t, d)
             s == Toward(t, d, b)
             k == IF s = "left" THEN ord[b] ELSE ord[b] + 1
         IN  /\ b \in M /\ s \in Sides /\ t.kid[s][b] = Nil
             /\ \A z \in M : IF ord[z] < k THEN D[z] <= d ELSE d < D[z]
<1> DEFINE Fit(y) == \A z \in M : /\ ord[z] < end["left"][y] => D[z] <= d
                                  /\ ord[z] > end["right"][y] => d < D[z]
           S == {y \in M : Fit(y)}
           F == [y \in Nodes |-> LET c == t.kid[Toward(t, d, y)][y]
                                 IN  IF c = Nil THEN y ELSE c]
           size == [y \in S |-> end["right"][y] - end["left"][y]]
           b == Bottom(t, d)
<1>1. b = Walk(F, t.root)
  BY DEF Bottom
<1>2. \A y \in S : F[y] = IF t.kid[Toward(t, d, y)][y] = Nil THEN y ELSE t.kid[Toward(t, d, y)][y]
  BY ShapeFacts
<1>3. t.root \in M /\ end["left"][t.root] = 1 /\ end["right"][t.root] = N
  BY DEF Shape, RootFits
<1>4. t.root \in S
  BY <1>3, ShapeFacts
<1>5. size \in [S -> Nat] /\ size[t.root] <= Depth /\ Depth \in Nat
  BY <1>4, ShapeFacts
<1>6. \A y \in M : D[y] \in Nat /\ d \in Nat
  BY ShapeFacts DEF Keyed, InReach
<1>7. \A y \in M : /\ Toward(t, d, y) \in Sides
                   /\ Toward(t, d, y) = "left" => d < D[y]
                   /\ Toward(t, d, y) = "right" => D[y] <= d
  <2>1. ASSUME NEW y \in M PROVE Before(t, d, y) <=> d < D[y]
    BY BeforeIs, ShapeFacts
  <2>. QED BY <1>6, <2>1, SideFacts DEF Toward
<1> HIDE DEF F
<1>8. ASSUME NEW y \in S, F[y] # y
      PROVE  F[y] \in S /\ size[F[y]] < size[y]
  <2> DEFINE s == Toward(t, d, y)
             c == t.kid[s][y]
  <2>1. y \in M /\ s \in Sides /\ c # Nil /\ F[y] = c
    BY <1>2, <1>7, <1>8
  <2>2. /\ c \in M /\ end[s][c] = end[s][y] /\ end[Other(s)][c] = ord[y] + Step(s)
        /\ end["right"][c] - end["left"][c] < end["right"][y] - end["left"][y]
    BY <2>1, DownTo
  <2>3. s = "left" \/ s = "right"
    BY <2>1, SideFacts
  <2> HIDE DEF c
  <2>4. CASE s = "left"
    <3>1. end["left"][c] = end["left"][y] /\ end["right"][c] = ord[y] - 1 /\ d < D[y]
      BY <1>7, <2>1, <2>2, <2>4, SideFacts, ShapeFacts
    <3>2. ASSUME NEW z \in M, ord[z] > ord[y] - 1 PROVE d < D[z]
      <4>1. CASE ord[z] > ord[y]
        BY <1>6, <3>1, <4>1, <2>1 DEF Ordered
      <4>2. CASE ord[z] = ord[y]
        <5>1. z = y
          BY <2>1, <4>2 DEF Shape, Ranked
        <5>. QED BY <3>1, <5>1
      <4>. QED BY <2>1, <3>2, <4>1, <4>2, ShapeFacts
    <3>3. Fit(c)
      BY <3>1, <3>2
    <3>. QED BY <2>1, <2>2, <3>3
  <2>5. CASE s = "right"
    <3>1. end["right"][c] = end["right"][y] /\ end["left"][c] = ord[y] + 1 /\ D[y] <= d
      BY <1>7, <2>1, <2>2, <2>5, SideFacts, ShapeFacts
    <3>2. ASSUME NEW z \in M, ord[z] < ord[y] + 1 PROVE D[z] <= d
      <4>1. CASE ord[z] < ord[y]
        BY <1>6, <3>1, <4>1, <2>1 DEF Ordered
      <4>2. CASE ord[z] = ord[y]
        <5>1. z = y
          BY <2>1, <4>2 DEF Shape, Ranked
        <5>. QED BY <3>1, <5>1
      <4>. QED BY <2>1, <3>2, <4>1, <4>2, ShapeFacts
    <3>3. Fit(c)
      BY <3>1, <3>2
    <3>. QED BY <2>1, <2>2, <3>3
  <2>. QED BY <2>3, <2>4, <2>5
<1>9. \A y \in S : F[y] \in S
  BY <1>8
<1>10. b \in S /\ F[b] = b
  <2> HIDE DEF S, size
  <2>. QED BY <1>1, <1>4, <1>5, <1>8, <1>9, WalkSettles
<1> HIDE DEF b
<1> DEFINE e == Toward(t, d, b)
<1>11. b \in M /\ Fit(b) /\ e \in Sides
  BY <1>7, <1>10
<1>12. t.kid[e][b] = Nil
  BY <1>2, <1>10, <1>11, DownTo
<1>13. end[e][b] = ord[b]
  BY <1>11, <1>12, DownTo
<1>14. ASSUME NEW z \in M
       PROVE  IF ord[z] < (IF e = "left" THEN ord[b] ELSE ord[b] + 1) THEN D[z] <= d ELSE d < D[z]
  <2>1. ord[z] \in Int /\ ord[b] \in Int /\ D[z] \in Nat /\ D[b] \in Nat /\ d \in Nat
    BY <1>6, <1>11, ShapeFacts
  <2>2. ord[z] = ord[b] => z = b
    BY <1>11 DEF Shape, Ranked
  <2>3. /\ ord[z] < ord[b] => D[z] <= D[b]
        /\ ord[b] < ord[z] => D[b] <= D[z]
    BY <1>11 DEF Ordered
  <2>4. CASE e = "left"
    <3>1. end["left"][b] = ord[b] /\ d < D[b]
      BY <1>7, <1>11, <1>13, <2>4
    <3>2. ord[z] < ord[b] => D[z] <= d
      BY <1>11, <3>1
    <3>. QED BY <2>1, <2>2, <2>3, <2>4, <3>1, <3>2
  <2>5. CASE e = "right"
    <3>1. end["right"][b] = ord[b] /\ D[b] <= d
      BY <1>7, <1>11, <1>13, <2>5
    <3>2. ord[z] > ord[b] => d < D[z]
      BY <1>11, <3>1
    <3>. QED BY <2>1, <2>2, <2>3, <2>5, <3>1, <3>2
  <2>. QED BY <1>11, <2>4, <2>5, SideFacts
<1>. QED BY <1>11, <1>12, <1>14 DEF b

\* art_str_rbtree_lookup finds what is due at d.
LEMMA LookupIs ==
  ASSUME NEW t, NEW M, NEW N, NEW ord, NEW end, Shape(t, M, N, ord, end),
         NEW D, Keyed(t, M, D), Ordered(M, ord, D), NEW d \in Nat, t.insert = "string"
  PROVE  IF \E z \in M : D[z] = d THEN Lookup(t, d) \in M /\ D[Lookup(t, d)] = d
         ELSE Lookup(t, d) = Nil
<1> DEFINE Fit(y) == \A z \in M : D[z] = d => end["left"][y] <= ord[z] /\ ord[z] <= end["right"][y]
           S == {y \in M : Fit(y)} \cup {y \in {Nil} : \A z \in M : D[z] # d}
           F == [y \in Nodes \cup {Nil} |->
                   IF y = Nil \/ (Key(t.insert, d) = t.key[y] /\ Str(t.insert, d) = t.str[y]) THEN y
                   ELSE t.kid[Toward(t, d, y)][y]]
           size == [y \in S |-> IF y = Nil THEN 0 ELSE end["right"][y] - end["left"][y] + 1]
           r == Lookup(t, d)
<1>1. r = Walk(F, t.root)
  BY DEF Lookup
<1>2. F[Nil] = Nil /\ \A y \in M : F[y] = IF D[y] = d THEN y ELSE t.kid[Toward(t, d, y)][y]
  <2>1. ASSUME NEW y \in M
        PROVE  F[y] = IF D[y] = d THEN y ELSE t.kid[Toward(t, d, y)][y]
    <3>1. Key(t.insert, d) = t.key[y] /\ Str(t.insert, d) = t.str[y] <=> d = D[y]
      BY MatchIs, ShapeFacts
    <3>2. y # Nil /\ y \in Nodes
      BY ShapeFacts
    <3>. QED BY <3>1, <3>2
  <2>. QED BY <2>1
<1> HIDE DEF F
<1>3. t.root \in S
  <2>1. CASE N = 0
    <3>1. M = {} /\ t.root = Nil
      BY <2>1 DEF Shape, Ranked, RootFits
    <3>. QED BY <3>1
  <2>2. CASE N # 0
    <3>1. t.root \in M /\ end["left"][t.root] = 1 /\ end["right"][t.root] = N
      BY <2>2 DEF Shape, RootFits
    <3>. QED BY <3>1, ShapeFacts
  <2>. QED BY <2>1, <2>2
<1>4. size \in [S -> Nat] /\ size[t.root] <= Depth /\ Depth \in Nat
  <2>1. \A y \in S : y = Nil \/ y \in M
    OBVIOUS
  <2>. QED BY <1>3, <2>1, ShapeFacts
<1>5. \A y \in M : D[y] \in Nat
  BY ShapeFacts DEF Keyed
<1>6. \A y \in M : /\ Toward(t, d, y) \in Sides
                   /\ Toward(t, d, y) = "left" => d < D[y]
                   /\ Toward(t, d, y) = "right" => D[y] <= d
  <2>1. ASSUME NEW y \in M PROVE Before(t, d, y) <=> d < D[y]
    <3>1. InReach(t, M, D, d) /\ M \subseteq Nodes
      BY ShapeFacts DEF InReach
    <3>. QED BY <3>1, BeforeIs
  <2>. QED BY <1>5, <2>1, SideFacts DEF Toward
<1>7. ASSUME NEW y \in S, F[y] # y
      PROVE  F[y] \in S /\ size[F[y]] < size[y]
  <2> DEFINE s == Toward(t, d, y)
             c == t.kid[s][y]
  <2>1. y # Nil
    BY <1>2, <1>7
  <2>2. y \in M /\ Fit(y) /\ s \in Sides /\ F[y] = c /\ D[y] # d
    BY <1>2, <1>6, <1>7, <2>1
  <2>3. s = "left" \/ s = "right"
    BY <2>2, SideFacts
  <2>4. \A z \in M : D[z] = d => /\ s = "left" => ord[z] < ord[y]
                                 /\ s = "right" => ord[z] > ord[y]
    <3>1. ASSUME NEW z \in M, D[z] = d
          PROVE  (s = "left" => ord[z] < ord[y]) /\ (s = "right" => ord[z] > ord[y])
      <4>1. ord[z] # ord[y]
        BY <2>2, <3>1 DEF Shape, Ranked
      <4>2. (ord[z] < ord[y] => D[z] <= D[y]) /\ (ord[y] < ord[z] => D[y] <= D[z])
        BY <2>2 DEF Ordered
      <4>3. ord[z] \in Int /\ ord[y] \in Int
        BY <2>2, ShapeFacts
      <4>4. (s = "left" => d < D[y]) /\ (s = "right" => D[y] <= d)
        BY <1>6, <2>2
      <4> HIDE DEF s
      <4>. QED BY <1>5, <2>2, <3>1, <4>1, <4>2, <4>3, <4>4
    <3>. QED BY <3>1
  <2>5. CASE c = Nil
    <3>1. end[s][y] = ord[y]
      BY <2>2, <2>5, DownTo
    <3>2. \A z \in M : D[z] # d
      <4>1. \A z \in M : ord[z] \in Int /\ ord[y] \in Int
        BY <2>2, ShapeFacts
      <4> HIDE DEF s
      <4>. QED BY <2>2, <2>3, <2>4, <3>1, <4>1
    <3>3. c \in S
      BY <2>5, <3>2
    <3>4. size[c] = 0 /\ size[y] = end["right"][y] - end["left"][y] + 1
      BY <1>7, <2>1, <2>5, <3>3
    <3>. QED BY <2>2, <3>3, <3>4, ShapeFacts
  <2>6. CASE c # Nil
    <3>1. /\ c \in M /\ end[s][c] = end[s][y] /\ end[Other(s)][c] = ord[y] + Step(s)
          /\ end["right"][c] - end["left"][c] < end["right"][y] - end["left"][y]
      BY <2>2, <2>6, DownTo
    <3> HIDE DEF c
    <3>2. Fit(c)
      <4>1. ASSUME NEW z \in M, D[z] = d
            PROVE  end["left"][c] <= ord[z] /\ ord[z] <= end["right"][c]
        <5>1. ord[z] \in Int /\ ord[y] \in Int /\ end["left"][y] <= ord[z] /\ ord[z] <= end["right"][y]
          BY <2>2, <4>1, ShapeFacts
        <5>2. (s = "left" => ord[z] < ord[y]) /\ (s = "right" => ord[z] > ord[y])
          BY <2>4, <4>1
        <5> HIDE DEF s
        <5>. QED BY <2>3, <3>1, <5>1, <5>2, SideFacts
      <4>. QED BY <4>1
    <3>3. c \in S /\ c # Nil
      BY <3>1, <3>2, ShapeFacts
    <3>4. /\ size[c] = end["right"][c] - end["left"][c] + 1
          /\ size[y] = end["right"][y] - end["left"][y] + 1
      BY <1>7, <2>1, <3>3
    <3>. QED BY <2>2, <3>1, <3>3, <3>4, ShapeFacts
  <2>. QED BY <2>5, <2>6
<1>8. \A y \in S : F[y] \in S
  BY <1>7
<1>9. r \in S /\ F[r] = r
  <2> HIDE DEF S, size
  <2>. QED BY <1>1, <1>3, <1>4, <1>7, <1>8, WalkSettles
<1> HIDE DEF r
<1>10. CASE r = Nil
  <2>1. \A z \in M : D[z] # d
    BY <1>9, <1>10, ShapeFacts
  <2>. QED BY <1>10, <2>1 DEF r
<1>11. CASE r # Nil
  <2>1. r \in M /\ F[r] = r
    BY <1>9, <1>11
  <2>2. ASSUME D[r] # d PROVE FALSE
    <3>1. t.kid[Toward(t, d, r)][r] = r
      BY <1>2, <2>1, <2>2
    <3>. QED BY <1>6, <1>11, <2>1, <3>1, DownTo
  <2>. QED BY <2>1, <2>2 DEF r
<1>. QED BY <1>10, <1>11

-----------------------------------------------------------------------------
(* A rotation keeps every node in its place.                                *)

LEMMA RotateKeepsShape ==
  ASSUME NEW t \in TreeType, NEW M, NEW N, NEW ord, NEW end, Shape(t, M, N, ord, end),
         NEW x \in M, NEW s \in Sides, NEW y, t.kid[Other(s)][x] = y, y # Nil,
         NEW u, Rotated(t, u, M, x, y, s)
  PROVE  \E e : Shape(u, M, N, ord, e)
<1> DEFINE o == Other(s)
           c == t.kid[s][y]
           e == [a \in Sides |-> [z \in Nodes |->
                   IF a = s /\ z = y THEN end[s][x]
                   ELSE IF a = o /\ z = x THEN ord[y] + Step(s) ELSE end[a][z]]]
<1>1. /\ o \in Sides /\ o # s /\ Other(o) = s /\ Step(o) + Step(s) = 0
      /\ \A a \in Sides : a = s \/ a = o
      /\ \A a \in Sides : Other(a) \in Sides /\ Other(a) # a /\ Step(a) \in Int
      /\ \A a \in Sides : Step(a) = IF a = "left" THEN -1 ELSE 1
  BY SideFacts
<1>2. /\ N \in Nat /\ M \subseteq Nodes /\ Nil \notin M
      /\ ord \in [Nodes -> Int] /\ end \in [Sides -> [Nodes -> Int]]
  BY ShapeFacts DEF Shape, Ranked, Spans
<1>3. /\ y \in M /\ y # x /\ t.parent[y] = x /\ end[o][y] = end[o][x]
      /\ end[s][y] = ord[x] + Step(o)
      /\ end["right"][y] - end["left"][y] < end["right"][x] - end["left"][x]
  <2>1. KidFound(t, M, ord, end, o, x, y)
    BY <1>1, KidIsFound
  <2>. QED BY <1>1, <2>1 DEF KidFound
<1>4. IF c = Nil THEN end[s][y] = ord[y]
      ELSE /\ c \in M /\ c # y /\ t.parent[c] = y /\ end[s][c] = end[s][y]
           /\ end[o][c] = ord[y] + Step(s)
           /\ end["right"][c] - end["left"][c] < end["right"][y] - end["left"][y]
  <2>1. KidFound(t, M, ord, end, s, y, c)
    BY <1>3, KidIsFound
  <2>2. Other(s) = o
    OBVIOUS
  <2> HIDE DEF c, o
  <2>. QED BY <1>3, <2>1, <2>2 DEF KidFound
<1> HIDE DEF c, o
<1>5. c # x /\ \A a \in Sides : t.kid[a][y] # x
  <2>1. ASSUME NEW a \in Sides, t.kid[a][y] = x PROVE FALSE
    <3>1. end["right"][x] - end["left"][x] < end["right"][y] - end["left"][y]
      BY <1>2, <1>3, <2>1, DownTo
    <3>. QED BY <1>2, <1>3, <3>1, SideFacts
  <2>. QED BY <2>1 DEF c
<1>6. e \in [Sides -> [Nodes -> Int]]
  BY <1>1, <1>2, <1>3
<1>7. \A a \in Sides, z \in Nodes :
        e[a][z] = IF a = s /\ z = y THEN end[s][x]
                  ELSE IF a = o /\ z = x THEN ord[y] + Step(s) ELSE end[a][z]
  OBVIOUS
<1> HIDE DEF e
<1>8. /\ u.root = IF x = t.root THEN y ELSE t.root
      /\ \A z \in M, a \in Sides :
           u.kid[a][z] = IF z = x /\ a = o THEN c
                         ELSE IF z = y /\ a = s THEN x
                         ELSE IF t.kid[a][z] = x THEN y ELSE t.kid[a][z]
      /\ \A z \in M :
           u.parent[z] = IF z = y THEN t.parent[x] ELSE IF z = x THEN y
                         ELSE IF z = c /\ c # Nil THEN x ELSE t.parent[z]
  BY <1>2 DEF Rotated, c, o
<1>9. ord[x] # ord[y] /\ ord[x] \in Int /\ ord[y] \in Int
  BY <1>2, <1>3 DEF Shape, Ranked
<1>10. Spans(M, N, ord, e)
  <2>1. ASSUME NEW z \in M
        PROVE  /\ 1 <= e["left"][z] /\ e["left"][z] <= ord[z]
               /\ ord[z] <= e["right"][z] /\ e["right"][z] <= N
    <3>1. /\ \A w \in M : /\ ord[w] \in 1..N /\ end["left"][w] \in Int /\ end["right"][w] \in Int
                          /\ 1 <= end["left"][w] /\ end["left"][w] <= ord[w]
                          /\ ord[w] <= end["right"][w] /\ end["right"][w] <= N
      BY ShapeFacts
    <3>2. CASE s = "left"
      <4>1. o = "right" /\ end["left"][y] = ord[x] + 1
        BY <1>3, <3>2, SideFacts DEF o
      <4>2. /\ e["left"][z] = IF z = y THEN end["left"][x] ELSE end["left"][z]
            /\ e["right"][z] = IF z = x THEN ord[y] - 1 ELSE end["right"][z]
        <5>1. z \in Nodes /\ "left" \in Sides /\ "right" \in Sides /\ Step("left") = -1
          BY <1>2, SideFacts
        <5>2. ord[y] + Step("left") = ord[y] - 1
          BY <1>9, <5>1
        <5>3. e["left"][z] = IF z = y THEN end["left"][x] ELSE end["left"][z]
          BY <1>7, <3>2, <4>1, <5>1
        <5>4. e["right"][z] = IF z = x THEN ord[y] + Step("left") ELSE end["right"][z]
          BY <1>7, <3>2, <4>1, <5>1
        <5>. QED BY <5>2, <5>3, <5>4
      <4>. QED BY <1>2, <1>3, <3>1, <4>1, <4>2
    <3>3. CASE s = "right"
      <4>1. o = "left" /\ end["right"][y] = ord[x] - 1
        BY <1>2, <1>3, <3>3, SideFacts DEF o
      <4>2. /\ e["right"][z] = IF z = y THEN end["right"][x] ELSE end["right"][z]
            /\ e["left"][z] = IF z = x THEN ord[y] + 1 ELSE end["left"][z]
        BY <1>2, <1>7, <3>3, <4>1, SideFacts
      <4>. QED BY <1>2, <1>3, <3>1, <4>1, <4>2
    <3>. QED BY <3>2, <3>3, SideFacts
  <2>. QED BY <1>6, <2>1 DEF Spans
<1>11. RootFits(u, M, N, e)
  <2>1. N # 0 /\ t.root \in M /\ end["left"][t.root] = 1 /\ end["right"][t.root] = N
    BY <1>2 DEF Shape, RootFits, Ranked
  <2>2. \A a \in Sides : e[a][u.root] = end[a][t.root]
    <3>1. CASE x = t.root
      <4>1. u.root = y /\ y \in Nodes
        BY <1>2, <1>3, <1>8, <3>1
      <4>2. e[s][y] = end[s][x] /\ e[o][y] = end[o][x]
        BY <1>1, <1>3, <1>7, <4>1
      <4>3. ASSUME NEW a \in Sides PROVE e[a][u.root] = end[a][t.root]
        <5>1. a = s \/ a = o
          BY <1>1
        <5>. QED BY <3>1, <4>1, <4>2, <5>1
      <4>. QED BY <4>3
    <3>2. CASE x # t.root
      <4>1. t.root # y
        BY <1>1, <1>2, <1>3, KidIs DEF o
      <4>2. u.root = t.root /\ t.root \in Nodes
        BY <1>2, <1>8, <2>1, <3>2
      <4>3. ASSUME NEW a \in Sides PROVE e[a][t.root] = end[a][t.root]
        BY <1>7, <3>2, <4>1, <4>2
      <4>. QED BY <4>2, <4>3
    <3>. QED BY <3>1, <3>2
  <2>3. u.root \in M
    BY <1>3, <1>8, <2>1
  <2>. QED BY <2>1, <2>2, <2>3, SideFacts DEF RootFits
<1>12. ASSUME NEW z \in M, NEW a \in Sides PROVE KidFits(u, M, ord, e, a, z)
  <2>1. CASE z = x /\ a = o
    <3>1. e[a][z] = ord[y] + Step(s) /\ u.kid[a][z] = c
      BY <1>1, <1>2, <1>7, <1>8, <2>1
    <3>2. CASE c = Nil
      <4>1. e[a][z] = ord[z]
        BY <1>1, <1>3, <1>4, <1>9, <2>1, <3>1, <3>2
      <4>. QED BY <3>1, <3>2, <4>1 DEF KidFits
    <3>3. CASE c # Nil
      <4>1. end[s][y] # ord[y]
        <5>1. KidFits(t, M, ord, end, s, y)
          BY <1>3 DEF Shape
        <5>. QED BY <3>3, <5>1 DEF KidFits, c
      <4>2. e[a][z] # ord[z]
        BY <1>1, <1>3, <1>9, <2>1, <3>1, <4>1
      <4>3. u.parent[c] = x /\ c \in M
        BY <1>4, <1>5, <1>8, <3>3
      <4>4. \A b \in Sides : e[b][c] = end[b][c]
        BY <1>2, <1>4, <1>5, <1>7, <4>3, <3>3
      <4>5. e[o][c] = ord[y] + Step(s) /\ e[s][c] = ord[x] + Step(o)
        BY <1>1, <1>3, <1>4, <3>3, <4>4
      <4>6. Other(a) = s
        BY <1>1, <2>1
      <4>. QED BY <2>1, <3>1, <4>2, <4>3, <4>5, <4>6 DEF KidFits
    <3>. QED BY <3>2, <3>3
  <2>2. CASE z = y /\ a = s
    <3>1. e[a][z] = end[s][x] /\ u.kid[a][z] = x /\ u.parent[x] = y
      BY <1>2, <1>3, <1>7, <1>8, <2>2
    <3>2. e[s][x] = end[s][x] /\ e[o][x] = ord[y] + Step(s)
      BY <1>1, <1>2, <1>3, <1>7
    <3>3. end[s][x] # ord[y]
      <4>1. CASE s = "left"
        <5>1. end["left"][x] <= ord[x] /\ end["left"][y] = ord[x] + 1 /\ end["left"][y] <= ord[y]
          BY <1>3, <4>1, ShapeFacts, SideFacts DEF o
        <5>. QED BY <1>3, <4>1, <5>1, ShapeFacts
      <4>2. CASE s = "right"
        <5>1. end["right"][x] >= ord[x] /\ end["right"][y] = ord[x] - 1 /\ end["right"][y] >= ord[y]
          BY <1>3, <4>2, ShapeFacts, SideFacts DEF o
        <5>. QED BY <1>3, <4>2, <5>1, ShapeFacts
      <4>. QED BY <4>1, <4>2, SideFacts
    <3>. QED BY <2>2, <3>1, <3>2, <3>3 DEF KidFits, o
  <2>3. CASE ~(z = x /\ a = o) /\ ~(z = y /\ a = s) /\ t.kid[a][z] = x
    <3>1. u.kid[a][z] = y
      BY <1>8, <2>3
    <3>2. /\ z # x /\ end[a][x] = end[a][z] /\ end[Other(a)][x] = ord[z] + Step(a)
          /\ t.parent[x] = z /\ end[a][z] # ord[z]
      BY <1>2, <2>3, KidIs
    <3>3. z # y
      BY <1>5, <2>3
    <3>4. \A b \in Sides : e[b][y] = end[b][x] /\ e[b][z] = end[b][z]
      BY <1>1, <1>2, <1>3, <1>7, <3>2, <3>3
    <3>5. u.parent[y] = z
      BY <1>3, <1>8, <3>2
    <3>. QED BY <1>1, <1>3, <3>1, <3>2, <3>4, <3>5 DEF KidFits
  <2>4. CASE ~(z = x /\ a = o) /\ ~(z = y /\ a = s) /\ t.kid[a][z] # x
    <3> DEFINE k == t.kid[a][z]
    <3>1. u.kid[a][z] = k /\ KidFits(t, M, ord, end, a, z) /\ e[a][z] = end[a][z]
      BY <1>2, <1>7, <1>8, <2>4 DEF Shape
    <3>2. CASE end[a][z] = ord[z]
      BY <3>1, <3>2 DEF KidFits
    <3>3. CASE end[a][z] # ord[z]
      <4>1. /\ k \in M /\ t.parent[k] = z /\ end[a][k] = end[a][z]
            /\ end[Other(a)][k] = ord[z] + Step(a)
        BY <3>1, <3>3 DEF KidFits
      <4>2. k # x /\ k # y /\ k # c
        <5>1. CASE k = y
          <6>1. z = x
            BY <1>3, <4>1, <5>1
          <6>2. a = s
            BY <1>1, <2>4, <6>1
          <6>3. t.kid[s][x] # t.kid[o][x]
            BY <1>1, <1>2, <1>3, KidIs DEF o
          <6>. QED BY <5>1, <6>1, <6>2, <6>3 DEF o
        <5>2. CASE k = c
          <6>1. z = y /\ a = o
            BY <1>1, <1>2, <1>4, <2>4, <4>1, <5>2
          <6>2. t.kid[s][y] # Nil => t.kid[o][y] # t.kid[s][y]
            BY <1>1, <1>3, KidIs DEF o
          <6>. QED BY <1>2, <4>1, <5>2, <6>1, <6>2 DEF c
        <5>. QED BY <2>4, <5>1, <5>2
      <4>3. u.parent[k] = z /\ \A b \in Sides : e[b][k] = end[b][k]
        BY <1>2, <1>7, <1>8, <4>1, <4>2
      <4>. QED BY <1>1, <3>1, <3>3, <4>1, <4>3 DEF KidFits
    <3>. QED BY <3>2, <3>3
  <2>. QED BY <2>1, <2>2, <2>3, <2>4
<1>13. ASSUME NEW z \in M PROVE ParentFits(u, M, z)
  <2>1. CASE z = x
    BY <1>3, <1>8, <2>1 DEF ParentFits
  <2>2. CASE z = y
    <3>1. CASE x = t.root
      BY <1>8, <2>2, <3>1 DEF ParentFits
    <3>2. CASE x # t.root
      <4>1. PICK a \in Sides : t.parent[x] \in M /\ t.kid[a][t.parent[x]] = x
        BY <3>2 DEF Shape, ParentFits
      <4>2. t.parent[x] # y /\ t.parent[x] # x
        BY <1>2, <1>5, <4>1, DownTo
      <4>3. u.kid[a][t.parent[x]] = y
        BY <1>8, <4>1, <4>2
      <4>4. u.parent[y] = t.parent[x]
        BY <1>3, <1>8
      <4>. QED BY <2>2, <4>1, <4>3, <4>4 DEF ParentFits
    <3>. QED BY <3>1, <3>2
  <2>3. CASE z = c /\ z # x /\ z # y
    <3>1. c # Nil
      BY <1>2, <2>3
    <3>2. u.parent[z] = x /\ u.kid[o][x] = z
      BY <1>1, <1>8, <2>3, <3>1
    <3>. QED BY <1>1, <3>2 DEF ParentFits
  <2>4. CASE z # x /\ z # y /\ z # c
    <3>1. u.parent[z] = t.parent[z]
      BY <1>8, <2>4
    <3>2. SUFFICES ASSUME z # u.root
                   PROVE  t.parent[z] \in M /\ \E a \in Sides : u.kid[a][t.parent[z]] = z
      BY <3>1 DEF ParentFits
    <3>3. z # t.root
      BY <1>8, <2>4, <3>2
    <3>4. PICK a \in Sides : t.parent[z] \in M /\ t.kid[a][t.parent[z]] = z
      BY <3>3 DEF Shape, ParentFits
    <3>5. ~(t.parent[z] = x /\ a = o) /\ ~(t.parent[z] = y /\ a = s)
      BY <2>4, <3>4 DEF c, o
    <3>6. u.kid[a][t.parent[z]] = z
      BY <1>8, <2>4, <3>4, <3>5
    <3>. QED BY <3>4, <3>6
  <2>. QED BY <2>1, <2>2, <2>3, <2>4
<1>14. Ranked(M, N, ord)
  BY DEF Shape
<1>15. Shape(u, M, N, ord, e)
  BY <1>10, <1>11, <1>12, <1>13, <1>14 DEF Shape
<1>. QED BY <1>15

-----------------------------------------------------------------------------
(* A new leaf.                                                              *)

\* The places when n enters at place k.
Opened(ord, n, k) ==
  [z \in Nodes |-> IF z = n THEN k ELSE IF ord[z] >= k THEN ord[z] + 1 ELSE ord[z]]

LEMMA OpenedIsRanked ==
  ASSUME NEW M, NEW N, NEW ord, Ranked(M, N, ord), NEW n \in Nodes \ M, NEW k \in 1 .. N + 1
  PROVE  Ranked(M \cup {n}, N + 1, Opened(ord, n, k))
<1> DEFINE f == Opened(ord, n, k)
<1>1. /\ N \in Nat /\ ord \in [Nodes -> Int] /\ M \subseteq Nodes
      /\ \A x \in M : ord[x] \in 1..N
      /\ \A x, y \in M : ord[x] = ord[y] => x = y
      /\ \A i \in 1..N : \E x \in M : ord[x] = i
  BY DEF Ranked
<1>2. \A z \in Nodes : f[z] = IF z = n THEN k ELSE IF ord[z] >= k THEN ord[z] + 1 ELSE ord[z]
  BY DEF Opened
<1>3. f \in [Nodes -> Int]
  BY <1>1 DEF Opened
<1> HIDE DEF f
<1>4. \A x \in M \cup {n} : f[x] \in 1 .. N + 1
  BY <1>1, <1>2
<1>5. ASSUME NEW x \in M \cup {n}, NEW y \in M \cup {n}, f[x] = f[y] PROVE x = y
  <2>1. CASE x = n \/ y = n
    BY <1>1, <1>2, <1>5, <2>1
  <2>2. CASE x \in M /\ y \in M
    <3>1. ord[x] = ord[y]
      BY <1>1, <1>2, <1>5, <2>2
    <3>. QED BY <1>1, <2>2, <3>1
  <2>. QED BY <2>1, <2>2
<1>6. ASSUME NEW i \in 1 .. N + 1 PROVE \E x \in M \cup {n} : f[x] = i
  <2>1. CASE i = k
    BY <1>2, <2>1
  <2>2. CASE i < k
    <3>1. PICK x \in M : ord[x] = i
      BY <1>1, <2>2
    <3>. QED BY <1>1, <1>2, <2>2, <3>1
  <2>3. CASE i > k
    <3>1. PICK x \in M : ord[x] = i - 1
      BY <1>1, <2>3
    <3>2. f[x] = i
      BY <1>1, <1>2, <2>3, <3>1
    <3>. QED BY <3>2
  <2>. QED BY <2>1, <2>2, <2>3
<1>7. N + 1 \in Nat /\ M \cup {n} \subseteq Nodes
  BY <1>1
<1>. QED BY <1>3, <1>4, <1>5, <1>6, <1>7 DEF Ranked, f

\* The first node.
LEMMA FirstIsShape ==
  ASSUME NEW t, NEW M, NEW ord, NEW end, Shape(t, M, 0, ord, end),
         NEW n \in Nodes, NEW u, u.root = n, \A s \in Sides : u.kid[s][n] = Nil
  PROVE  M = {} /\ \E e : Shape(u, {n}, 1, Opened(ord, n, 1), e)
<1>1. M = {} /\ Ranked(M, 0, ord)
  BY DEF Shape, Ranked
<1> DEFINE f == Opened(ord, n, 1)
           e == [s \in Sides |-> [z \in Nodes |-> 1]]
<1>2. Ranked({n}, 1, f)
  <2>1. Ranked(M \cup {n}, 0 + 1, f)
    BY <1>1, OpenedIsRanked
  <2>. QED BY <1>1, <2>1
<1>3. f[n] = 1
  BY DEF Opened
<1> HIDE DEF f
<1>4. e \in [Sides -> [Nodes -> Int]] /\ \A s \in Sides : e[s][n] = 1
  OBVIOUS
<1> HIDE DEF e
<1>5. Spans({n}, 1, f, e) /\ RootFits(u, {n}, 1, e)
  BY <1>3, <1>4, SideFacts DEF Spans, RootFits
<1>6. \A x \in {n}, s \in Sides : KidFits(u, {n}, f, e, s, x)
  BY <1>3, <1>4 DEF KidFits
<1>7. \A x \in {n} : ParentFits(u, {n}, x)
  BY DEF ParentFits
<1>. QED BY <1>1, <1>2, <1>5, <1>6, <1>7 DEF Shape, f

\* n hangs where p had no child on side s.
Joined(t, u, M, n, p, s) ==
  /\ u.root = t.root /\ u.parent[n] = p
  /\ \A a \in Sides : u.kid[a][n] = Nil
  /\ \A z \in M : /\ u.parent[z] = t.parent[z]
                  /\ \A a \in Sides : u.kid[a][z] = IF z = p /\ a = s THEN n ELSE t.kid[a][z]

LEMMA JoinKeepsShape ==
  ASSUME NEW t, NEW M, NEW N, NEW ord, NEW end, Shape(t, M, N, ord, end),
         NEW p \in M, NEW s \in Sides, t.kid[s][p] = Nil, NEW n \in Nodes \ M,
         NEW u, Joined(t, u, M, n, p, s)
  PROVE  \E e : Shape(u, M \cup {n}, N + 1,
                      Opened(ord, n, IF s = "left" THEN ord[p] ELSE ord[p] + 1), e)
<1> DEFINE k == IF s = "left" THEN ord[p] ELSE ord[p] + 1
           q == ord[p]
           f == Opened(ord, n, k)
           e == [a \in Sides |-> [z \in Nodes |->
                   IF z = n THEN k
                   ELSE IF end[a][z] > q \/ (a = "right" /\ end[a][z] = q)
                        THEN end[a][z] + 1 ELSE end[a][z]]]
<1>1. /\ N \in Nat /\ M \subseteq Nodes /\ Nil \notin M /\ n \notin M
      /\ ord \in [Nodes -> Int] /\ end \in [Sides -> [Nodes -> Int]]
      /\ \A w \in M : /\ ord[w] \in 1..N /\ end["left"][w] \in Int /\ end["right"][w] \in Int
                      /\ 1 <= end["left"][w] /\ end["left"][w] <= ord[w]
                      /\ ord[w] <= end["right"][w] /\ end["right"][w] <= N
      /\ \A x, y \in M : ord[x] = ord[y] => x = y
  BY ShapeFacts DEF Shape, Ranked, Spans
<1>2. q \in 1..N /\ k \in 1 .. N + 1 /\ k = IF s = "left" THEN q ELSE q + 1
  BY <1>1
<1>3. end[s][p] = q
  BY DownTo
<1> HIDE DEF q, k
<1>4. Ranked(M \cup {n}, N + 1, f)
  BY <1>2, OpenedIsRanked DEF Shape
<1>5. f[n] = k /\ \A z \in M : f[z] = IF ord[z] >= k THEN ord[z] + 1 ELSE ord[z]
  BY <1>1 DEF Opened
<1> HIDE DEF f
<1>6. /\ \A a \in Sides : e[a][n] = k
      /\ \A z \in M : /\ e["left"][z] = IF end["left"][z] > q THEN end["left"][z] + 1
                                        ELSE end["left"][z]
                      /\ e["right"][z] = IF end["right"][z] >= q THEN end["right"][z] + 1
                                         ELSE end["right"][z]
  <2>1. "left" \in Sides /\ "right" \in Sides /\ "left" # "right"
    BY SideFacts
  <2>2. ASSUME NEW z \in M
        PROVE  /\ e["left"][z] = IF end["left"][z] > q THEN end["left"][z] + 1
                                 ELSE end["left"][z]
               /\ e["right"][z] = IF end["right"][z] >= q THEN end["right"][z] + 1
                                  ELSE end["right"][z]
    <3>1. z \in Nodes /\ z # n /\ end["left"][z] \in Int /\ end["right"][z] \in Int /\ q \in Int
      BY <1>1, <1>2
    <3>2. \A a \in Sides : e[a][z] = IF end[a][z] > q \/ (a = "right" /\ end[a][z] = q)
                                     THEN end[a][z] + 1 ELSE end[a][z]
      BY <3>1
    <3> HIDE DEF e
    <3>. QED BY <2>1, <3>1, <3>2
  <2>. QED BY <2>2
<1>7. e \in [Sides -> [Nodes -> Int]]
  <2>1. ASSUME NEW a \in Sides, NEW z \in Nodes
        PROVE  (IF z = n THEN k
                ELSE IF end[a][z] > q \/ (a = "right" /\ end[a][z] = q)
                     THEN end[a][z] + 1 ELSE end[a][z]) \in Int
    BY <1>1, <1>2
  <2>. QED BY <2>1
<1> HIDE DEF e
<1>8. Spans(M \cup {n}, N + 1, f, e)
  <2>1. ASSUME NEW z \in M
        PROVE  /\ 1 <= e["left"][z] /\ e["left"][z] <= f[z]
               /\ f[z] <= e["right"][z] /\ e["right"][z] <= N + 1
    <3>1. ord[z] = q => z = p
      BY <1>1 DEF q
    <3>2. s = "left" => end["left"][p] = q
      BY <1>3
    <3>3. s = "right" => end["right"][p] = q
      BY <1>3
    <3>4. s = "left" \/ s = "right"
      BY SideFacts
    <3>. QED BY <1>1, <1>2, <1>5, <1>6, <3>1, <3>2, <3>3, <3>4
  <2>2. /\ 1 <= e["left"][n] /\ e["left"][n] <= f[n]
        /\ f[n] <= e["right"][n] /\ e["right"][n] <= N + 1
    BY <1>2, <1>5, <1>6, SideFacts
  <2>. QED BY <1>7, <2>1, <2>2 DEF Spans
<1>9. RootFits(u, M \cup {n}, N + 1, e)
  <2>1. t.root \in M /\ end["left"][t.root] = 1 /\ end["right"][t.root] = N
    BY <1>1, <1>2 DEF Shape, RootFits
  <2>2. u.root = t.root
    BY DEF Joined
  <2>. QED BY <1>1, <1>2, <1>6, <2>1, <2>2 DEF RootFits
<1>10. ASSUME NEW z \in M \cup {n}, NEW a \in Sides
       PROVE  KidFits(u, M \cup {n}, f, e, a, z)
  <2>1. CASE z = n
    BY <1>5, <1>6, <2>1 DEF KidFits, Joined
  <2>2. CASE z = p /\ a = s
    <3>1. u.kid[a][z] = n /\ u.parent[n] = p /\ e[s][n] = k /\ e[Other(s)][n] = k /\ p \in M
      BY <1>6, <2>2, SideFacts DEF Joined
    <3>2. CASE s = "left"
      <4>1. e["left"][p] = q /\ f[p] = q + 1 /\ k = q
        BY <1>1, <1>2, <1>3, <1>5, <1>6, <3>2 DEF q
      <4>. QED BY <1>2, <2>2, <3>1, <3>2, <4>1, SideFacts DEF KidFits
    <3>3. CASE s = "right"
      <4>1. e["right"][p] = q + 1 /\ f[p] = q /\ k = q + 1
        BY <1>1, <1>2, <1>3, <1>5, <1>6, <3>3 DEF q
      <4>. QED BY <1>2, <2>2, <3>1, <3>3, <4>1, SideFacts DEF KidFits
    <3>. QED BY <3>2, <3>3, SideFacts
  <2>3. CASE z # n /\ ~(z = p /\ a = s)
    <3>1. z \in M /\ u.kid[a][z] = t.kid[a][z]
      BY <2>3 DEF Joined
    <3>2. ord[z] = q => z = p
      BY <1>1, <3>1 DEF q
    <3>3. ord[z] = q => a # s
      BY <2>3, <3>2
    <3>4. a = "left" \/ a = "right"
      BY SideFacts
    <3>5. s = "left" \/ s = "right"
      BY SideFacts
    <3>6. CASE t.kid[a][z] = Nil
      <4>1. end[a][z] = ord[z]
        BY <3>1, <3>6, DownTo
      <4>2. e[a][z] = f[z]
        <5>1. CASE a = "left"
          BY <1>1, <1>2, <1>5, <1>6, <3>1, <3>3, <3>5, <4>1, <5>1
        <5>2. CASE a = "right"
          BY <1>1, <1>2, <1>5, <1>6, <3>1, <3>3, <3>5, <4>1, <5>2
        <5>. QED BY <3>4, <5>1, <5>2
      <4>. QED BY <3>1, <3>6, <4>2 DEF KidFits
    <3>7. CASE t.kid[a][z] # Nil
      <4> DEFINE c == t.kid[a][z]
      <4>1. /\ c \in M /\ t.parent[c] = z /\ end[a][c] = end[a][z]
            /\ end[Other(a)][c] = ord[z] + Step(a) /\ end[a][z] # ord[z]
        BY <1>1, <3>1, <3>7, KidIs
      <4> HIDE DEF c
      <4>2. e[a][c] = e[a][z]
        BY <1>6, <3>1, <3>4, <4>1
      <4>3. e[Other(a)][c] = f[z] + Step(a)
        <5>1. CASE a = "left"
          <6>1. end["right"][c] = ord[z] - 1
            BY <1>1, <3>1, <4>1, <5>1, SideFacts
          <6>2. e["right"][c] = f[z] - 1
            BY <1>1, <1>2, <1>5, <1>6, <3>1, <3>3, <3>5, <4>1, <5>1, <6>1
          <6>. QED BY <1>1, <1>2, <1>5, <3>1, <5>1, <6>2, SideFacts
        <5>2. CASE a = "right"
          <6>1. end["left"][c] = ord[z] + 1
            BY <1>1, <3>1, <4>1, <5>2, SideFacts
          <6>2. e["left"][c] = f[z] + 1
            BY <1>1, <1>2, <1>5, <1>6, <3>1, <3>3, <3>5, <4>1, <5>2, <6>1
          <6>. QED BY <5>2, <6>2, SideFacts
        <5>. QED BY <3>4, <5>1, <5>2
      <4>4. e[a][z] # f[z]
        <5>1. CASE a = "left"
          BY <1>1, <1>2, <1>5, <1>6, <3>1, <3>3, <3>5, <4>1, <5>1
        <5>2. CASE a = "right"
          BY <1>1, <1>2, <1>5, <1>6, <3>1, <3>3, <3>5, <4>1, <5>2
        <5>. QED BY <3>4, <5>1, <5>2
      <4>5. u.parent[c] = z
        BY <4>1 DEF Joined
      <4>. QED BY <3>1, <4>1, <4>2, <4>3, <4>4, <4>5 DEF KidFits, c
    <3>. QED BY <3>6, <3>7
  <2>. QED BY <2>1, <2>2, <2>3
<1>11. ASSUME NEW z \in M \cup {n} PROVE ParentFits(u, M \cup {n}, z)
  <2>1. CASE z = n
    BY <2>1 DEF ParentFits, Joined
  <2>2. CASE z # n /\ z # t.root
    <3>1. PICK a \in Sides : t.parent[z] \in M /\ t.kid[a][t.parent[z]] = z
      BY <2>2 DEF Shape, ParentFits
    <3>2. u.kid[a][t.parent[z]] = z /\ u.parent[z] = t.parent[z]
      BY <1>1, <2>2, <3>1 DEF Joined
    <3>. QED BY <3>1, <3>2 DEF ParentFits
  <2>3. CASE z = t.root
    BY <2>3 DEF ParentFits, Joined
  <2>. QED BY <2>1, <2>2, <2>3
<1>12. Shape(u, M \cup {n}, N + 1, f, e)
  BY <1>4, <1>8, <1>9, <1>10, <1>11 DEF Shape
<1>. QED BY <1>12 DEF f, k, q

-----------------------------------------------------------------------------
(* A node with at most one child is cut out.                                *)

\* The places when the one at k falls away.
Closed(ord, k) == [z \in Nodes |-> IF ord[z] > k THEN ord[z] - 1 ELSE ord[z]]

LEMMA ClosedIsRanked ==
  ASSUME NEW M, NEW N, NEW ord, Ranked(M, N, ord), NEW x \in M
  PROVE  Ranked(M \ {x}, N - 1, Closed(ord, ord[x])) /\ N - 1 \in Nat
<1> DEFINE k == ord[x]
           f == Closed(ord, k)
<1>1. /\ N \in Nat /\ ord \in [Nodes -> Int] /\ M \subseteq Nodes
      /\ \A z \in M : ord[z] \in 1..N
      /\ \A z, y \in M : ord[z] = ord[y] => z = y
      /\ \A i \in 1..N : \E z \in M : ord[z] = i
  BY DEF Ranked
<1>2. k \in 1..N /\ N - 1 \in Nat /\ \A z \in M \ {x} : ord[z] # k
  BY <1>1
<1>3. f \in [Nodes -> Int]
  BY <1>1 DEF Closed
<1>4. \A z \in Nodes : f[z] = IF ord[z] > k THEN ord[z] - 1 ELSE ord[z]
  BY DEF Closed
<1> HIDE DEF f, k
<1>5. \A z \in M \ {x} : f[z] \in 1 .. N - 1
  BY <1>1, <1>2, <1>4
<1>6. ASSUME NEW z \in M \ {x}, NEW y \in M \ {x}, f[z] = f[y] PROVE z = y
  <2>1. ord[z] = ord[y]
    BY <1>1, <1>2, <1>4, <1>6
  <2>. QED BY <1>1, <2>1
<1>7. ASSUME NEW i \in 1 .. N - 1 PROVE \E z \in M \ {x} : f[z] = i
  <2>1. CASE i < k
    <3>1. PICK z \in M : ord[z] = i
      BY <1>1, <1>2
    <3>2. z # x /\ f[z] = i
      BY <1>1, <1>2, <1>4, <2>1, <3>1 DEF k
    <3>. QED BY <3>2
  <2>2. CASE i >= k
    <3>1. PICK z \in M : ord[z] = i + 1
      BY <1>1, <1>2
    <3>2. z # x /\ f[z] = i
      BY <1>1, <1>2, <1>4, <2>2, <3>1 DEF k
    <3>. QED BY <3>2
  <2>. QED BY <1>2, <2>1, <2>2
<1>8. M \ {x} \subseteq Nodes
  BY <1>1
<1>. QED BY <1>2, <1>3, <1>5, <1>6, <1>7, <1>8 DEF Ranked, f, k

\* y hangs where x did; the parent that a root has does not matter.
CutOut(t, u, M, x, y) ==
  /\ u.root = IF x = t.root THEN y ELSE t.root
  /\ \A z \in M \ {x}, a \in Sides :
       u.kid[a][z] = IF t.kid[a][z] = x THEN y ELSE t.kid[a][z]
  /\ \A z \in M \ {x} :
       z # u.root => u.parent[z] = IF z = y THEN t.parent[x] ELSE t.parent[z]

\* The numbers of a node z that stays when place k falls away.
Shrunk(N, k, ord, end, f, e, z) ==
  /\ N \in Nat /\ k \in 1..N /\ ord[z] \in 1..N /\ ord[z] # k
  /\ end["left"][z] \in Int /\ end["right"][z] \in Int
  /\ 1 <= end["left"][z] /\ end["left"][z] <= ord[z]
  /\ ord[z] <= end["right"][z] /\ end["right"][z] <= N
  /\ f[z] = IF ord[z] > k THEN ord[z] - 1 ELSE ord[z]
  /\ e["left"][z] = IF end["left"][z] > k THEN end["left"][z] - 1 ELSE end["left"][z]
  /\ e["right"][z] = IF end["right"][z] >= k THEN end["right"][z] - 1 ELSE end["right"][z]

LEMMA CutKeepsShape ==
  ASSUME NEW t, NEW M, NEW N, NEW ord, NEW end, Shape(t, M, N, ord, end),
         NEW x \in M, NEW b \in Sides, t.kid[Other(b)][x] = Nil, NEW y, y = t.kid[b][x],
         NEW u, CutOut(t, u, M, x, y)
  PROVE  \E e : Shape(u, M \ {x}, N - 1, Closed(ord, ord[x]), e)
<1> DEFINE k == ord[x]
           f == Closed(ord, k)
           e == [a \in Sides |-> [z \in Nodes |->
                   IF end[a][z] > k \/ (a = "right" /\ end[a][z] = k)
                   THEN end[a][z] - 1 ELSE end[a][z]]]
<1>1. /\ N \in Nat /\ M \subseteq Nodes /\ Nil \notin M
      /\ ord \in [Nodes -> Int] /\ end \in [Sides -> [Nodes -> Int]]
      /\ \A w \in M : /\ ord[w] \in 1..N /\ end["left"][w] \in Int /\ end["right"][w] \in Int
                      /\ 1 <= end["left"][w] /\ end["left"][w] <= ord[w]
                      /\ ord[w] <= end["right"][w] /\ end["right"][w] <= N
      /\ \A z, w \in M : ord[z] = ord[w] => z = w
  BY ShapeFacts DEF Shape, Ranked, Spans
<1>2. k \in 1..N /\ \A z \in M \ {x} : ord[z] # k
  BY <1>1
<1>3. Other(b) \in Sides /\ end[Other(b)][x] = k
  <2>1. Other(b) \in Sides
    BY SideFacts
  <2>. QED BY <2>1, DownTo
<1>4. IF y = Nil THEN end[b][x] = k
      ELSE /\ y \in M \ {x} /\ t.parent[y] = x /\ end[b][y] = end[b][x]
           /\ end[Other(b)][y] = k + Step(b)
  BY DownTo
<1>5. Ranked(M \ {x}, N - 1, f)
  BY ClosedIsRanked DEF Shape
<1>6. \A z \in M : f[z] = IF ord[z] > k THEN ord[z] - 1 ELSE ord[z]
  BY <1>1 DEF Closed
<1> HIDE DEF f, k
<1>7. \A a \in Sides, z \in Nodes :
        e[a][z] = IF end[a][z] > k \/ (a = "right" /\ end[a][z] = k)
                  THEN end[a][z] - 1 ELSE end[a][z]
  OBVIOUS
<1>8. e \in [Sides -> [Nodes -> Int]]
  <2>1. ASSUME NEW a \in Sides, NEW z \in Nodes
        PROVE  (IF end[a][z] > k \/ (a = "right" /\ end[a][z] = k)
                THEN end[a][z] - 1 ELSE end[a][z]) \in Int
    BY <1>1
  <2>. QED BY <2>1
<1> HIDE DEF e
<1>9. \A z \in M : /\ e["left"][z] = IF end["left"][z] > k THEN end["left"][z] - 1
                                     ELSE end["left"][z]
                   /\ e["right"][z] = IF end["right"][z] >= k THEN end["right"][z] - 1
                                      ELSE end["right"][z]
  BY <1>1, <1>2, <1>7, SideFacts
\* All numbers of a node that stays.
<1>0. ASSUME NEW z \in M \ {x} PROVE Shrunk(N, k, ord, end, f, e, z)
  <2>1. z \in M
    OBVIOUS
  <2>2. N \in Nat /\ k \in 1..N /\ ord[z] # k
    BY <1>1, <1>2
  <2>3. /\ ord[z] \in 1..N
        /\ end["left"][z] \in Int /\ end["right"][z] \in Int
        /\ 1 <= end["left"][z] /\ end["left"][z] <= ord[z]
        /\ ord[z] <= end["right"][z] /\ end["right"][z] <= N
    BY <1>1, <2>1
  <2>4. f[z] = IF ord[z] > k THEN ord[z] - 1 ELSE ord[z]
    BY <1>6, <2>1
  <2>5. /\ e["left"][z] = IF end["left"][z] > k THEN end["left"][z] - 1
                          ELSE end["left"][z]
        /\ e["right"][z] = IF end["right"][z] >= k THEN end["right"][z] - 1
                           ELSE end["right"][z]
    BY <1>9, <2>1
  <2>. QED BY <2>2, <2>3, <2>4, <2>5 DEF Shrunk
<1>10. Spans(M \ {x}, N - 1, f, e)
  <2>1. ASSUME NEW z \in M \ {x}
        PROVE  /\ 1 <= e["left"][z] /\ e["left"][z] <= f[z]
               /\ f[z] <= e["right"][z] /\ e["right"][z] <= N - 1
    BY <1>0 DEF Shrunk
  <2>. QED BY <1>8, <2>1 DEF Spans
<1>11. RootFits(u, M \ {x}, N - 1, e)
  <2>1. t.root \in M /\ end["left"][t.root] = 1 /\ end["right"][t.root] = N
    BY <1>1, <1>2 DEF Shape, RootFits
  <2>2. b = "left" \/ b = "right"
    BY SideFacts
  <2>3. CASE x = t.root /\ y = Nil
    <3>1. end["left"][x] = k /\ end["right"][x] = k
      BY <1>3, <1>4, <2>2, <2>3, SideFacts
    <3>2. N - 1 = 0 /\ u.root = Nil
      BY <1>1, <1>2, <2>1, <2>3, <3>1 DEF CutOut
    <3>. QED BY <3>2 DEF RootFits
  <2>4. CASE x = t.root /\ y # Nil
    <3>1. u.root = y /\ y \in M \ {x}
      BY <1>4, <2>4 DEF CutOut
    <3>4. Shrunk(N, k, ord, end, f, e, y)
      BY <1>0, <3>1
    <3>2. CASE b = "left"
      <4>1. end["left"][y] = 1 /\ end["right"][y] = k - 1 /\ k = N
        BY <1>2, <1>3, <1>4, <2>1, <2>4, <3>2, SideFacts
      <4>. QED BY <1>1, <1>2, <1>9, <3>1, <4>1 DEF RootFits
    <3>3. CASE b = "right"
      <4>1. end["right"][y] = N /\ end["left"][y] = k + 1 /\ k = 1
        BY <1>2, <1>3, <1>4, <2>1, <2>4, <3>3, SideFacts
      <4>2. N - 1 # 0 /\ e["left"][y] = 1 /\ e["right"][y] = N - 1
        BY <3>4, <4>1 DEF Shrunk
      <4>. QED BY <3>1, <4>2 DEF RootFits
    <3>. QED BY <2>2, <3>2, <3>3
  <2>5. CASE x # t.root
    <3>1. u.root = t.root /\ t.root \in M \ {x} /\ ord[t.root] # k /\ ord[t.root] \in 1..N
      BY <1>1, <1>2, <2>1, <2>5 DEF CutOut
    <3>2. N - 1 # 0 /\ e["left"][t.root] = 1 /\ e["right"][t.root] = N - 1
      BY <1>1, <1>2, <1>9, <2>1, <3>1
    <3>. QED BY <3>1, <3>2 DEF RootFits
  <2>. QED BY <2>3, <2>4, <2>5
<1>12. ASSUME NEW z \in M \ {x}, NEW a \in Sides
       PROVE  KidFits(u, M \ {x}, f, e, a, z)
  <2>0. (a = "left" \/ a = "right") /\ (b = "left" \/ b = "right")
    BY SideFacts
  <2>1. CASE t.kid[a][z] = x /\ y = Nil
    <3>1. u.kid[a][z] = Nil
      BY <2>1 DEF CutOut
    <3>2. end[a][x] = end[a][z] /\ end[Other(a)][x] = ord[z] + Step(a)
      BY <1>1, <2>1, KidIs
    <3>3. end["left"][x] = k /\ end["right"][x] = k
      BY <1>3, <1>4, <2>0, <2>1, SideFacts
    <3>4. e[a][z] = f[z]
      <4>1. CASE a = "left"
        BY <1>1, <1>2, <1>6, <1>9, <3>2, <3>3, <4>1, SideFacts
      <4>2. CASE a = "right"
        BY <1>1, <1>2, <1>6, <1>9, <3>2, <3>3, <4>2, SideFacts
      <4>. QED BY <2>0, <4>1, <4>2
    <3>. QED BY <3>1, <3>4 DEF KidFits
  <2>2. CASE t.kid[a][z] = x /\ y # Nil
    <3>1. u.kid[a][z] = y /\ y \in M \ {x}
      BY <1>4, <2>2 DEF CutOut
    <3>2. /\ end[a][x] = end[a][z] /\ end[Other(a)][x] = ord[z] + Step(a)
          /\ t.parent[x] = z /\ x # t.root
      BY <1>1, <2>2, KidIs
    <3>3. u.parent[y] = z
      <4>1. t.root # y
        BY <1>1, <1>3, <1>4, <2>2, KidIs
      <4>. QED BY <3>1, <3>2, <4>1 DEF CutOut
    <3>0. Shrunk(N, k, ord, end, f, e, y) /\ Shrunk(N, k, ord, end, f, e, z)
      BY <1>0, <3>1
    <3>4. e[a][y] = e[a][z] /\ e[Other(a)][y] = f[z] + Step(a) /\ e[a][z] # f[z]
      <4>1. CASE a = "left" /\ b = "left"
        <5>1. /\ end["left"][x] = end["left"][z] /\ end["right"][x] = ord[z] - 1
              /\ end["right"][x] = k /\ end["left"][y] = end["left"][x] /\ end["right"][y] = k - 1
          BY <1>1, <1>2, <1>3, <1>4, <2>2, <3>2, <4>1, SideFacts
        <5>2. /\ e["left"][y] = e["left"][z] /\ e["right"][y] = f[z] - 1 /\ e["left"][z] # f[z]
          BY <3>0, <5>1 DEF Shrunk
        <5>3. f[z] \in Int
          BY <3>0 DEF Shrunk
        <5>. QED BY <4>1, <5>2, <5>3, SideFacts
      <4>2. CASE a = "left" /\ b = "right"
        <5>1. /\ end["left"][x] = end["left"][z] /\ end["right"][x] = ord[z] - 1
              /\ end["left"][x] = k /\ end["right"][y] = end["right"][x] /\ end["left"][y] = k + 1
          BY <1>1, <1>2, <1>3, <1>4, <2>2, <3>2, <4>2, SideFacts
        <5>2. k + 1 < ord[z] /\ end["right"][y] = ord[z] - 1
          <6>1. end["left"][y] <= ord[y] /\ ord[y] <= end["right"][y] /\ ord[y] \in Int
            BY <3>0 DEF Shrunk
          <6>. QED BY <3>0, <5>1, <6>1 DEF Shrunk
        <5>3. f[z] = ord[z] - 1 /\ e["right"][y] = ord[z] - 2
          BY <3>0, <5>1, <5>2 DEF Shrunk
        <5>4. e["left"][y] = k /\ e["left"][z] = k
          BY <3>0, <5>1, <5>2 DEF Shrunk
        <5>5. k \in Int /\ ord[z] \in Int
          BY <3>0 DEF Shrunk
        <5>. QED BY <4>2, <5>2, <5>3, <5>4, <5>5, SideFacts
      <4>3. CASE a = "right" /\ b = "left"
        <5>1. /\ end["right"][x] = end["right"][z] /\ end["left"][x] = ord[z] + 1
              /\ end["right"][x] = k /\ end["left"][y] = end["left"][x] /\ end["right"][y] = k - 1
          BY <1>1, <1>2, <1>3, <1>4, <2>2, <3>2, <4>3, SideFacts
        <5>2. ord[z] < k /\ end["left"][y] < k /\ end["right"][z] = k
          <6>1. end["right"][z] = k
            BY <5>1
          <6>2. end["left"][y] <= end["right"][y] /\ end["left"][y] = ord[z] + 1
            <7>1. end["left"][y] <= ord[y] /\ ord[y] <= end["right"][y] /\ ord[y] \in Int
              BY <3>0 DEF Shrunk
            <7>. QED BY <3>0, <5>1, <7>1 DEF Shrunk
          <6>3. k \in Int /\ ord[z] \in Int
            BY <3>0 DEF Shrunk
          <6>. QED BY <5>1, <6>1, <6>2, <6>3
        <5>3. f[z] = ord[z] /\ e["left"][y] = ord[z] + 1 /\ ord[z] < k - 1
          BY <3>0, <5>1, <5>2 DEF Shrunk
        <5>4. e["right"][y] = k - 1 /\ e["right"][z] = k - 1
          BY <3>0, <5>1, <5>2 DEF Shrunk
        <5>5. k \in Int /\ ord[z] \in Int
          BY <3>0 DEF Shrunk
        <5>. QED BY <4>3, <5>3, <5>4, <5>5, SideFacts
      <4>4. CASE a = "right" /\ b = "right"
        <5>1. /\ end["right"][x] = end["right"][z] /\ end["left"][x] = ord[z] + 1
              /\ end["left"][x] = k /\ end["right"][y] = end["right"][x] /\ end["left"][y] = k + 1
          BY <1>1, <1>2, <1>3, <1>4, <2>2, <3>2, <4>4, SideFacts
        <5>2. ord[z] < k /\ end["left"][y] = k + 1 /\ end["right"][z] > k
          BY <3>0, <5>1 DEF Shrunk
        <5>3. f[z] = ord[z] /\ e["left"][y] = k /\ ord[z] + 1 = k
          BY <3>0, <5>1, <5>2 DEF Shrunk
        <5>4. e["right"][y] = end["right"][z] - 1 /\ e["right"][z] = end["right"][z] - 1
          BY <3>0, <5>1, <5>2 DEF Shrunk
        <5>5. k \in Int /\ ord[z] \in Int /\ end["right"][z] \in Int
          BY <3>0 DEF Shrunk
        <5>. QED BY <4>4, <5>2, <5>3, <5>4, <5>5, SideFacts
      <4>. QED BY <2>0, <4>1, <4>2, <4>3, <4>4
    <3>. QED BY <3>1, <3>3, <3>4 DEF KidFits
  <2>3. CASE t.kid[a][z] # x /\ t.kid[a][z] = Nil
    <3>1. u.kid[a][z] = Nil /\ end[a][z] = ord[z]
      BY <2>3, DownTo DEF CutOut
    <3>2. e[a][z] = f[z]
      BY <1>1, <1>2, <1>6, <1>9, <2>0, <3>1
    <3>. QED BY <3>1, <3>2 DEF KidFits
  <2>4. CASE t.kid[a][z] # x /\ t.kid[a][z] # Nil
    <3> DEFINE c == t.kid[a][z]
    <3>1. u.kid[a][z] = c
      BY <2>4 DEF CutOut
    <3>2. /\ c \in M \ {x} /\ t.parent[c] = z /\ end[a][c] = end[a][z] /\ c # t.root
          /\ end[Other(a)][c] = ord[z] + Step(a) /\ end[a][z] # ord[z]
      BY <1>1, <2>4, KidIs
    <3> HIDE DEF c
    <3>3. c # y /\ u.parent[c] = z
      <4>1. c # y
        BY <1>1, <1>4, <3>2
      <4>2. c # u.root
        BY <3>2, <4>1 DEF CutOut
      <4>. QED BY <3>2, <4>1, <4>2 DEF CutOut
    <3>0. Shrunk(N, k, ord, end, f, e, c) /\ Shrunk(N, k, ord, end, f, e, z)
      BY <1>0, <3>2
    <3>4. e[a][c] = e[a][z] /\ e[Other(a)][c] = f[z] + Step(a) /\ e[a][z] # f[z]
      <4>1. CASE a = "left"
        <5>1. end["left"][c] = end["left"][z] /\ end["right"][c] = ord[z] - 1
          BY <1>1, <3>2, <4>1, SideFacts
        <5>2. e["left"][c] = e["left"][z] /\ e["right"][c] = f[z] - 1 /\ e["left"][z] # f[z]
          BY <3>0, <5>1 DEF Shrunk
        <5>3. f[z] \in Int
          BY <3>0 DEF Shrunk
        <5>. QED BY <4>1, <5>2, <5>3, SideFacts
      <4>2. CASE a = "right"
        <5>1. end["right"][c] = end["right"][z] /\ end["left"][c] = ord[z] + 1
          BY <1>1, <3>2, <4>2, SideFacts
        <5>2. e["right"][c] = e["right"][z] /\ e["left"][c] = f[z] + 1 /\ e["right"][z] # f[z]
          BY <3>0, <5>1 DEF Shrunk
        <5>. QED BY <4>2, <5>2, SideFacts
      <4>. QED BY <2>0, <4>1, <4>2
    <3>. QED BY <3>1, <3>2, <3>3, <3>4 DEF KidFits
  <2>. QED BY <2>1, <2>2, <2>3, <2>4
<1>13. ASSUME NEW z \in M \ {x}, z # u.root
       PROVE  u.parent[z] \in M \ {x} /\ \E a \in Sides : u.kid[a][u.parent[z]] = z
  <2>1. CASE z = y
    <3>1. x # t.root
      BY <1>13, <2>1 DEF CutOut
    <3>2. PICK a \in Sides : t.parent[x] \in M /\ t.kid[a][t.parent[x]] = x
      BY <3>1 DEF Shape, ParentFits
    <3>3. t.parent[x] # x
      BY <1>1, <3>2, DownTo
    <3>. QED BY <1>13, <2>1, <3>2, <3>3 DEF CutOut
  <2>2. CASE z # y
    <3>1. z # t.root
      BY <1>13, <2>2 DEF CutOut
    <3>2. PICK a \in Sides : t.parent[z] \in M /\ t.kid[a][t.parent[z]] = z
      BY <3>1 DEF Shape, ParentFits
    <3>3. t.parent[z] # x
      BY <1>1, <2>2, <3>2, SideFacts
    <3>. QED BY <1>13, <2>2, <3>2, <3>3 DEF CutOut
  <2>. QED BY <2>1, <2>2
<1>14. \A z \in M \ {x} : ParentFits(u, M \ {x}, z)
  BY <1>13 DEF ParentFits
<1>15. Shape(u, M \ {x}, N - 1, f, e)
  BY <1>5, <1>10, <1>11, <1>12, <1>14 DEF Shape
<1>. QED BY <1>15 DEF f, k

-----------------------------------------------------------------------------
(* Trees with the same links, and a node in the place of another.           *)

\* The parent that a root has does not matter.
SameLinks(t, u, M) ==
  /\ u.root = t.root
  /\ \A z \in M : /\ z # t.root => u.parent[z] = t.parent[z]
                  /\ \A a \in Sides : u.kid[a][z] = t.kid[a][z]

LEMMA SameLinksShape ==
  ASSUME NEW t, NEW M, NEW N, NEW ord, NEW end, Shape(t, M, N, ord, end),
         NEW u, SameLinks(t, u, M)
  PROVE  Shape(u, M, N, ord, end)
<1>1. RootFits(u, M, N, end)
  BY DEF Shape, RootFits, SameLinks
<1>2. ASSUME NEW x \in M, NEW s \in Sides PROVE KidFits(u, M, ord, end, s, x)
  <2>1. KidFits(t, M, ord, end, s, x) /\ u.kid[s][x] = t.kid[s][x]
    BY DEF Shape, SameLinks
  <2>2. CASE t.kid[s][x] = Nil
    <3>1. end[s][x] = ord[x]
      BY <2>2, DownTo
    <3>. QED BY <2>1, <2>2, <3>1 DEF KidFits
  <2>3. CASE t.kid[s][x] # Nil
    <3>1. t.kid[s][x] \in M /\ t.kid[s][x] # t.root
      BY <2>3, KidIs
    <3>2. u.parent[t.kid[s][x]] = t.parent[t.kid[s][x]]
      BY <3>1 DEF SameLinks
    <3>. QED BY <2>1, <3>1, <3>2 DEF KidFits
  <2>. QED BY <2>2, <2>3
<1>3. ASSUME NEW x \in M PROVE ParentFits(u, M, x)
  <2>1. CASE x = t.root
    BY <2>1 DEF ParentFits, SameLinks
  <2>2. CASE x # t.root
    <3>1. PICK s \in Sides : t.parent[x] \in M /\ t.kid[s][t.parent[x]] = x
      BY <2>2 DEF Shape, ParentFits
    <3>2. u.parent[x] = t.parent[x] /\ u.kid[s][t.parent[x]] = x
      BY <2>2, <3>1 DEF SameLinks
    <3>. QED BY <3>1, <3>2 DEF ParentFits
  <2>. QED BY <2>1, <2>2
<1>. QED BY <1>1, <1>2, <1>3 DEF Shape

\* x, from outside, has the links of n.
Replaced(u, v, M, n, x) ==
  /\ v.root = IF n = u.root THEN x ELSE u.root
  /\ \A a \in Sides : v.kid[a][x] = u.kid[a][n]
  /\ x # v.root => v.parent[x] = u.parent[n]
  /\ \A z \in M \ {n} :
       /\ \A a \in Sides : v.kid[a][z] = IF u.kid[a][z] = n THEN x ELSE u.kid[a][z]
       /\ z # v.root => v.parent[z] = IF u.parent[z] = n THEN x ELSE u.parent[z]

LEMMA ReplaceKeepsShape ==
  ASSUME NEW u, NEW M, NEW N, NEW f, NEW end, Shape(u, M, N, f, end),
         NEW n \in M, NEW x \in Nodes \ M, NEW v, Replaced(u, v, M, n, x),
         NEW g \in [Nodes -> Int], g[x] = f[n], \A z \in M \ {n} : g[z] = f[z]
  PROVE  \E e : Shape(v, (M \ {n}) \cup {x}, N, g, e)
<1> DEFINE L == (M \ {n}) \cup {x}
           was == [z \in L |-> IF z = x THEN n ELSE z]
           e == [a \in Sides |-> [z \in Nodes |-> IF z = x THEN end[a][n] ELSE end[a][z]]]
<1>1. /\ N \in Nat /\ M \subseteq Nodes /\ Nil \notin M /\ Nil # x
      /\ f \in [Nodes -> Int] /\ end \in [Sides -> [Nodes -> Int]]
      /\ \A w \in M : /\ f[w] \in 1..N /\ end["left"][w] \in Int /\ end["right"][w] \in Int
                      /\ 1 <= end["left"][w] /\ end["left"][w] <= f[w]
                      /\ f[w] <= end["right"][w] /\ end["right"][w] <= N
      /\ \A z, w \in M : f[z] = f[w] => z = w
      /\ \A i \in 1..N : \E w \in M : f[w] = i
  BY ShapeFacts, NilIsNone DEF Shape, Ranked, Spans
<1>2. /\ L \subseteq Nodes
      /\ \A z \in L : was[z] \in M /\ g[z] = f[was[z]] /\ \A a \in Sides : e[a][z] = end[a][was[z]]
      /\ \A z, w \in L : was[z] = was[w] => z = w
      /\ \A w \in M : \E z \in L : was[z] = w
      /\ \A z \in L : was[z] = IF z = x THEN n ELSE z
  <2>1. \A w \in M : w # n => was[w] = w
    BY <1>1
  <2>2. was[x] = n /\ x \in L
    OBVIOUS
  <2>3. \A w \in M : \E z \in L : was[z] = w
    BY <2>1, <2>2
  <2>4. \A z \in L : was[z] \in M /\ g[z] = f[was[z]] /\ \A a \in Sides : e[a][z] = end[a][was[z]]
    BY <1>1
  <2>5. \A z, w \in L : was[z] = was[w] => z = w
    BY <1>1
  <2>. QED BY <1>1, <2>3, <2>4, <2>5
<1>3. e \in [Sides -> [Nodes -> Int]]
  BY <1>1
<1>4. Ranked(L, N, g)
  <2>1. \A i \in 1..N : \E z \in L : g[z] = i
    BY <1>1, <1>2
  <2>2. \A z, w \in L : g[z] = g[w] => z = w
    BY <1>1, <1>2
  <2>3. \A z \in L : g[z] \in 1..N
    BY <1>1, <1>2
  <2>. QED BY <1>1, <1>2, <2>1, <2>2, <2>3 DEF Ranked
<1>5. Spans(L, N, g, e)
  <2>1. ASSUME NEW z \in L
        PROVE  /\ 1 <= e["left"][z] /\ e["left"][z] <= g[z]
               /\ g[z] <= e["right"][z] /\ e["right"][z] <= N
    <3>1. /\ was[z] \in M /\ g[z] = f[was[z]]
          /\ e["left"][z] = end["left"][was[z]] /\ e["right"][z] = end["right"][was[z]]
      BY <1>2, SideFacts
    <3>. QED BY <1>1, <3>1
  <2> HIDE DEF L, e
  <2>. QED BY <1>3, <2>1 DEF Spans
<1> HIDE DEF e, was
<1>6. RootFits(v, L, N, e) /\ was[v.root] = u.root
  <2>1. N # 0 /\ u.root \in M /\ end["left"][u.root] = 1 /\ end["right"][u.root] = N
    BY <1>1 DEF Shape, RootFits
  <2>2. v.root \in L /\ was[v.root] = u.root
    BY <1>2, <2>1 DEF Replaced
  <2>. QED BY <1>2, <2>1, <2>2, SideFacts DEF RootFits
<1>7. ASSUME NEW z \in L, NEW a \in Sides
      PROVE  /\ v.kid[a][z] = IF u.kid[a][was[z]] = n THEN x ELSE u.kid[a][was[z]]
             /\ u.kid[a][was[z]] # Nil => v.kid[a][z] \in L /\ was[v.kid[a][z]] = u.kid[a][was[z]]
  <2>1. was[z] \in M
    BY <1>2
  <2>2. v.kid[a][z] = IF u.kid[a][was[z]] = n THEN x ELSE u.kid[a][was[z]]
    <3>1. CASE z = x
      <4>1. u.kid[a][n] # n
        BY <1>1, KidIs
      <4>. QED BY <1>2, <3>1, <4>1 DEF Replaced
    <3>2. CASE z # x
      BY <1>2, <3>2 DEF Replaced
    <3>. QED BY <3>1, <3>2
  <2>3. ASSUME u.kid[a][was[z]] # Nil
        PROVE  v.kid[a][z] \in L /\ was[v.kid[a][z]] = u.kid[a][was[z]]
    <3>1. u.kid[a][was[z]] \in M
      BY <2>1, <2>3, KidIs
    <3>. QED BY <1>2, <2>2, <3>1
  <2>. QED BY <2>2, <2>3
<1>8. ASSUME NEW z \in L, z # v.root
      PROVE  /\ u.parent[was[z]] \in M /\ was[z] # u.root
             /\ v.parent[z] \in L /\ was[v.parent[z]] = u.parent[was[z]]
  <2>1. was[z] # u.root /\ was[z] \in M
    BY <1>2, <1>8 DEF Replaced
  <2>2. PICK a \in Sides : u.parent[was[z]] \in M /\ u.kid[a][u.parent[was[z]]] = was[z]
    BY <2>1 DEF Shape, ParentFits
  <2>3. u.parent[was[z]] # was[z]
    BY <1>1, <2>1, <2>2, KidIs
  <2>4. v.parent[z] = IF u.parent[was[z]] = n THEN x ELSE u.parent[was[z]]
    <3>1. CASE z = x
      BY <1>2, <1>8, <2>3, <3>1 DEF Replaced
    <3>2. CASE z # x
      <4>1. was[z] = z
        BY <1>2, <3>2
      <4>2. z \in M \ {n}
        BY <3>2
      <4>. QED BY <1>8, <4>1, <4>2 DEF Replaced
    <3>. QED BY <3>1, <3>2
  <2>. QED BY <1>2, <2>1, <2>2, <2>4
<1>9. ASSUME NEW z \in L, NEW a \in Sides PROVE KidFits(v, L, g, e, a, z)
  <2>1. was[z] \in M /\ KidFits(u, M, f, end, a, was[z])
    BY <1>2 DEF Shape
  <2>2. g[z] = f[was[z]] /\ e[a][z] = end[a][was[z]]
    BY <1>2
  <2>3. CASE u.kid[a][was[z]] = Nil
    <3>1. end[a][was[z]] = f[was[z]]
      BY <2>1, <2>3, DownTo
    <3>2. v.kid[a][z] = Nil
      BY <1>1, <1>7, <2>3
    <3>. QED BY <2>2, <3>1, <3>2 DEF KidFits
  <2>4. CASE u.kid[a][was[z]] # Nil
    <3> DEFINE c == v.kid[a][z]
               d == u.kid[a][was[z]]
    <3>1. /\ d \in M /\ u.parent[d] = was[z] /\ d # u.root
          /\ end[a][was[z]] # f[was[z]] /\ end[a][d] = end[a][was[z]]
          /\ end[Other(a)][d] = f[was[z]] + Step(a)
      BY <2>1, <2>4, KidIs
    <3>2. c \in L /\ was[c] = d
      BY <1>7, <2>4
    <3> HIDE DEF c, d
    <3>3. e[a][c] = end[a][d] /\ e[Other(a)][c] = end[Other(a)][d]
      BY <1>2, <3>2, SideFacts
    <3>4. c # v.root
      BY <1>6, <3>1, <3>2
    <3>5. v.parent[c] \in L /\ was[v.parent[c]] = was[z]
      BY <1>8, <3>1, <3>2, <3>4
    <3>6. v.parent[c] = z
      BY <1>2, <3>5
    <3>. QED BY <2>2, <3>1, <3>2, <3>3, <3>6 DEF KidFits, c
  <2>. QED BY <2>3, <2>4
<1>10. ASSUME NEW z \in L PROVE ParentFits(v, L, z)
  <2>1. SUFFICES ASSUME z # v.root
                 PROVE  v.parent[z] \in L /\ \E a \in Sides : v.kid[a][v.parent[z]] = z
    BY DEF ParentFits
  <2>2. /\ u.parent[was[z]] \in M /\ was[z] # u.root /\ was[z] \in M
        /\ v.parent[z] \in L /\ was[v.parent[z]] = u.parent[was[z]]
    BY <1>2, <1>8, <2>1
  <2>3. PICK a \in Sides : u.kid[a][u.parent[was[z]]] = was[z]
    BY <2>2 DEF Shape, ParentFits
  <2>4. v.kid[a][v.parent[z]] \in L /\ was[v.kid[a][v.parent[z]]] = was[z]
    <3>1. u.kid[a][was[v.parent[z]]] = was[z] /\ was[z] # Nil
      BY <1>1, <2>2, <2>3
    <3>. QED BY <1>7, <2>2, <3>1
  <2>5. v.kid[a][v.parent[z]] = z
    BY <1>2, <2>4
  <2>. QED BY <2>2, <2>5
<1> HIDE DEF L
<1>11. Shape(v, L, N, g, e)
  BY <1>4, <1>5, <1>6, <1>9, <1>10 DEF Shape
<1>. QED BY <1>11 DEF L

-----------------------------------------------------------------------------
(* What the operators do to the fields.                                     *)

Kids == [Sides -> [Nodes \cup {Nil} -> Nodes \cup {Nil, Null}]]

KidPut(k, m, a, p, v) ==
  m \in Kids /\ \A b \in Sides, z \in Nodes \cup {Nil} :
                  m[b][z] = IF b = a /\ z = p THEN v ELSE k[b][z]

LEMMA KidPutIs ==
  ASSUME NEW k \in Kids, NEW a \in Sides, NEW p \in Nodes \cup {Nil},
         NEW v \in Nodes \cup {Nil, Null}
  PROVE  KidPut(k, [k EXCEPT ![a][p] = v], a, p, v)
<1> DEFINE m == [k EXCEPT ![a][p] = v]
<1>1. m = [k EXCEPT ![a] = [k[a] EXCEPT ![p] = v]]
  BY DEF Kids
<1>2. ASSUME NEW b \in Sides
      PROVE  /\ m[b] \in [Nodes \cup {Nil} -> Nodes \cup {Nil, Null}]
             /\ \A z \in Nodes \cup {Nil} : m[b][z] = IF b = a /\ z = p THEN v ELSE k[b][z]
  <2>1. k[b] \in [Nodes \cup {Nil} -> Nodes \cup {Nil, Null}]
    BY DEF Kids
  <2>2. CASE b = a
    BY <1>1, <2>1, <2>2 DEF Kids
  <2>3. CASE b # a
    BY <1>1, <2>1, <2>3 DEF Kids
  <2>. QED BY <2>2, <2>3
<1>3. m = [b \in Sides |-> m[b]]
  BY <1>1 DEF Kids
<1> HIDE DEF m
<1>4. m \in Kids
  BY <1>2, <1>3 DEF Kids
<1>. QED BY <1>2, <1>4 DEF KidPut, m

\* The colours are R now.
Recoloured(t, u, R) ==
  /\ u \in TreeType /\ u.red = R
  /\ u.root = t.root /\ u.kid = t.kid /\ u.parent = t.parent
  /\ u.key = t.key /\ u.str = t.str /\ u.insert = t.insert

LEMMA PaintIs ==
  ASSUME NEW t \in TreeType, NEW B, NEW R \in SUBSET (Nodes \cup {Nil})
  PROVE  Recoloured(t, Paint(t, B, R), (t.red \ B) \cup R)
BY DEF Recoloured, Paint, TreeType

LEMMA CopyColorIs ==
  ASSUME NEW t \in TreeType, NEW x \in Nodes, NEW y
  PROVE  Recoloured(t, CopyColor(t, x, y), IF y \in t.red THEN t.red \cup {x} ELSE t.red \ {x})
<1>1. Recoloured(t, Paint(t, {}, {x}), (t.red \ {}) \cup {x})
  BY PaintIs
<1>2. Recoloured(t, Paint(t, {x}, {}), (t.red \ {x}) \cup {})
  BY PaintIs
<1>3. (t.red \ {}) \cup {x} = t.red \cup {x} /\ (t.red \ {x}) \cup {} = t.red \ {x}
  OBVIOUS
<1>. QED BY <1>1, <1>2, <1>3 DEF CopyColor

\* Only the sentinel's parent differs.
Forgotten(t, u) ==
  /\ u \in TreeType /\ u.red = t.red /\ u.root = t.root /\ u.kid = t.kid
  /\ \A z \in Nodes : u.parent[z] = t.parent[z]
  /\ u.key = t.key /\ u.str = t.str /\ u.insert = t.insert

LEMMA ReturnedIs ==
  ASSUME NEW t \in TreeType PROVE Forgotten(t, Returned(t))
<1> DEFINE f == [t.parent EXCEPT ![Nil] = Null]
           u == [t EXCEPT !.parent = f]
<1>1. Returned(t) = u
  BY DEF Returned
<1>2. f \in [Nodes \cup {Nil} -> Nodes \cup {Nil, Null}] /\ \A z \in Nodes : f[z] = t.parent[z]
  BY NilIsNone DEF TreeType
<1> HIDE DEF f
<1>3. Forgotten(t, u)
  BY <1>2 DEF Forgotten, TreeType
<1>. QED BY <1>1, <1>3

LEMMA KeyType ==
  ASSUME NEW o \in Orders, NEW d \in Nat, o = "string" => d < 8 * Half
  PROVE  Key(o, d) \in 0 .. 2 * Half - 1 /\ Str(o, d) \in {0, 1} \X {0, 1}
<1>1. 2 * Half \in Nat \ {0} /\ Half \in Nat
  BY RBTreeAssumption
<1>2. CASE o = "string"
  <2>1. d \div 4 \in 0 .. 2 * Half - 1 /\ (d \div 2) % 2 \in {0, 1} /\ d % 2 \in {0, 1}
    BY <1>1, <1>2
  <2>. QED BY <1>2, <2>1 DEF Key, Str
<1>3. CASE o # "string"
  <2>1. d % (2 * Half) \in 0 .. 2 * Half - 1
    BY <1>1
  <2>. QED BY <1>3, <2>1 DEF Key, Str
<1>. QED BY <1>2, <1>3

\* n, due at d, has the fields of a new node.
EnteredTo(t, u, n, d) ==
  /\ u \in TreeType /\ u.red = t.red /\ u.root = t.root /\ u.parent = t.parent
  /\ u.insert = t.insert /\ u.key[n] = Key(t.insert, d) /\ u.str[n] = Str(t.insert, d)
  /\ \A z \in Nodes \ {n} : u.key[z] = t.key[z] /\ u.str[z] = t.str[z]
  /\ \A a \in Sides, z \in Nodes \cup {Nil} :
       u.kid[a][z] = IF z = n THEN Nil ELSE t.kid[a][z]

LEMMA EnteredIs ==
  ASSUME NEW t \in TreeType, NEW n \in Nodes, NEW d \in Nat,
         t.insert = "string" => d < 8 * Half
  PROVE  EnteredTo(t, Entered(t, n, d), n, d)
<1> DEFINE q == Key(t.insert, d)
           w == Str(t.insert, d)
           m == [s \in Sides |-> [t.kid[s] EXCEPT ![n] = Nil]]
           f == [t.key EXCEPT ![n] = q]
           g == [t.str EXCEPT ![n] = w]
           u == [t EXCEPT !.key = f, !.str = g, !.kid = m]
<1>1. q \in 0 .. 2 * Half - 1 /\ w \in {0, 1} \X {0, 1}
  BY KeyType DEF TreeType
<1>4. Entered(t, n, d) = u
  BY DEF Entered, TreeType
<1> HIDE DEF q, w
<1>5. /\ f \in [Nodes -> 0 .. 2 * Half - 1] /\ f[n] = q
      /\ \A z \in Nodes \ {n} : f[z] = t.key[z]
  BY <1>1 DEF TreeType
<1>6. /\ g \in [Nodes -> {0, 1} \X {0, 1}] /\ g[n] = w
      /\ \A z \in Nodes \ {n} : g[z] = t.str[z]
  BY <1>1 DEF TreeType
<1>7. m \in Kids /\ \A a \in Sides, z \in Nodes \cup {Nil} :
                      m[a][z] = IF z = n THEN Nil ELSE t.kid[a][z]
  BY DEF TreeType, Kids
<1> HIDE DEF f, g, m
<1>8. /\ u.root = t.root /\ u.kid = m /\ u.parent = t.parent /\ u.red = t.red /\ u.key = f
      /\ u.str = g /\ u.insert = t.insert /\ u \in TreeType
  BY <1>5, <1>6, <1>7 DEF TreeType, Kids
<1> HIDE DEF u
<1>9. EnteredTo(t, u, n, d)
  BY <1>5, <1>6, <1>7, <1>8 DEF EnteredTo, q, w
<1>. QED BY <1>4, <1>9

\* n lost its fields.
ClearedTo(t, u, n) ==
  /\ u \in TreeType /\ u.red = t.red \ {n} /\ u.root = t.root /\ u.insert = t.insert
  /\ u.key[n] = 0 /\ u.parent[n] = Null
  /\ \A z \in Nodes \ {n} : u.key[z] = t.key[z] /\ u.str[z] = t.str[z]
  /\ \A z \in (Nodes \cup {Nil}) \ {n} : u.parent[z] = t.parent[z]
  /\ \A a \in Sides, z \in Nodes \cup {Nil} :
       u.kid[a][z] = IF z = n THEN Null ELSE t.kid[a][z]

LEMMA ClearedIs ==
  ASSUME NEW t \in TreeType, NEW n \in Nodes
  PROVE  ClearedTo(t, Cleared(t, n), n)
<1> DEFINE p == Paint(t, {n}, {})
           m == [s \in Sides |-> [t.kid[s] EXCEPT ![n] = Null]]
           f == [p.key EXCEPT ![n] = 0]
           g == [p.str EXCEPT ![n] = <<0, 0>>]
           h == [p.parent EXCEPT ![n] = Null]
           u == [p EXCEPT !.key = f, !.str = g, !.parent = h, !.kid = m]
<1>1. Recoloured(t, p, (t.red \ {n}) \cup {})
  BY PaintIs
<1>2. p \in TreeType /\ (t.red \ {n}) \cup {} = t.red \ {n}
  BY <1>1 DEF Recoloured
<1>3. Cleared(t, n) = u
  BY <1>2 DEF Cleared, TreeType
<1> HIDE DEF p
<1>6. /\ f \in [Nodes -> 0 .. 2 * Half - 1] /\ f[n] = 0
      /\ \A z \in Nodes \ {n} : f[z] = p.key[z]
  <2>1. 0 \in 0 .. 2 * Half - 1
    BY RBTreeAssumption
  <2>. QED BY <1>2, <2>1 DEF TreeType
<1>7. /\ g \in [Nodes -> {0, 1} \X {0, 1}]
      /\ \A z \in Nodes \ {n} : g[z] = p.str[z]
  BY <1>2 DEF TreeType
<1>8. /\ h \in [Nodes \cup {Nil} -> Nodes \cup {Nil, Null}] /\ h[n] = Null
      /\ \A z \in (Nodes \cup {Nil}) \ {n} : h[z] = p.parent[z]
  BY <1>2 DEF TreeType
<1>9. m \in Kids /\ \A a \in Sides, z \in Nodes \cup {Nil} :
                      m[a][z] = IF z = n THEN Null ELSE t.kid[a][z]
  BY DEF TreeType, Kids
<1> HIDE DEF f, g, h, m
<1>10. /\ u.root = p.root /\ u.kid = m /\ u.parent = h /\ u.red = p.red /\ u.key = f
       /\ u.str = g /\ u.insert = p.insert /\ u \in TreeType
  BY <1>2, <1>6, <1>7, <1>8, <1>9 DEF TreeType, Kids
<1> HIDE DEF u
<1>11. ClearedTo(t, u, n)
  BY <1>1, <1>2, <1>6, <1>7, <1>8, <1>9, <1>10 DEF ClearedTo, Recoloured
<1>. QED BY <1>3, <1>11

\* n is the first node.
Rooted(t, u, n, d) ==
  /\ u \in TreeType /\ u.red = t.red \ {n} /\ u.root = n /\ u.parent[n] = Null
  /\ \A z \in (Nodes \cup {Nil}) \ {n} : u.parent[z] = t.parent[z]
  /\ u.insert = t.insert /\ u.key[n] = Key(t.insert, d) /\ u.str[n] = Str(t.insert, d)
  /\ \A z \in Nodes \ {n} : u.key[z] = t.key[z] /\ u.str[z] = t.str[z]
  /\ \A a \in Sides, z \in Nodes \cup {Nil} :
       u.kid[a][z] = IF z = n THEN Nil ELSE t.kid[a][z]

LEMMA RootedIs ==
  ASSUME NEW t \in TreeType, NEW n \in Nodes, NEW d \in Nat,
         t.insert = "string" => d < 8 * Half
  PROVE  Rooted(t, Paint(AsRoot(Entered(t, n, d), n), {n}, {}), n, d)
<1> DEFINE e == Entered(t, n, d)
           f == [e.parent EXCEPT ![n] = Null]
           q == [e EXCEPT !.root = n, !.parent = f]
           u == Paint(q, {n}, {})
<1>1. EnteredTo(t, e, n, d)
  BY EnteredIs
<1>2. e \in TreeType
  BY <1>1 DEF EnteredTo
<1> HIDE DEF e
<1>3. AsRoot(e, n) = q
  BY <1>2 DEF AsRoot, TreeType
<1>4. /\ f \in [Nodes \cup {Nil} -> Nodes \cup {Nil, Null}] /\ f[n] = Null
      /\ \A z \in (Nodes \cup {Nil}) \ {n} : f[z] = e.parent[z]
  BY <1>2 DEF TreeType
<1> HIDE DEF f
<1>5. /\ q.root = n /\ q.kid = e.kid /\ q.parent = f /\ q.red = e.red /\ q.key = e.key
      /\ q.str = e.str /\ q.insert = e.insert /\ q \in TreeType
  BY <1>2, <1>4 DEF TreeType
<1> HIDE DEF q
<1>6. Recoloured(q, u, (q.red \ {n}) \cup {})
  BY <1>5, PaintIs
<1> HIDE DEF u
<1>7. Rooted(t, u, n, d)
  BY <1>1, <1>4, <1>5, <1>6 DEF Rooted, EnteredTo, Recoloured
<1>. QED BY <1>3, <1>7 DEF u, e

\* n is the kid of p on side s, and red.
Hooked(t, u, n, d, p, s) ==
  /\ u \in TreeType /\ u.red = t.red \cup {n} /\ u.root = t.root /\ u.parent[n] = p
  /\ \A z \in (Nodes \cup {Nil}) \ {n} : u.parent[z] = t.parent[z]
  /\ u.insert = t.insert /\ u.key[n] = Key(t.insert, d) /\ u.str[n] = Str(t.insert, d)
  /\ \A z \in Nodes \ {n} : u.key[z] = t.key[z] /\ u.str[z] = t.str[z]
  /\ \A a \in Sides, z \in Nodes \cup {Nil} :
       u.kid[a][z] = IF z = n THEN Nil ELSE IF a = s /\ z = p THEN n ELSE t.kid[a][z]

LEMMA HookedIs ==
  ASSUME NEW t \in TreeType, NEW n \in Nodes, NEW d \in Nat,
         t.insert = "string" => d < 8 * Half, NEW p \in Nodes, p # n, NEW s \in Sides
  PROVE  Hooked(t, Paint(AsKid(Entered(t, n, d), n, p, s), {}, {n}), n, d, p, s)
<1> DEFINE e == Entered(t, n, d)
           f == [e.parent EXCEPT ![n] = p]
           k == [e.kid EXCEPT ![s][p] = n]
           q == [e EXCEPT !.kid = k, !.parent = f]
           u == Paint(q, {}, {n})
<1>1. EnteredTo(t, e, n, d)
  BY EnteredIs
<1>2. e \in TreeType
  BY <1>1 DEF EnteredTo
<1> HIDE DEF e
<1>3. AsKid(e, n, p, s) = q
  BY <1>2 DEF AsKid, TreeType
<1>4. /\ f \in [Nodes \cup {Nil} -> Nodes \cup {Nil, Null}] /\ f[n] = p
      /\ \A z \in (Nodes \cup {Nil}) \ {n} : f[z] = e.parent[z]
  BY <1>2 DEF TreeType
<1>5. KidPut(e.kid, k, s, p, n)
  BY <1>2, KidPutIs DEF TreeType, Kids
<1> HIDE DEF f, k
<1>6. /\ q.root = e.root /\ q.kid = k /\ q.parent = f /\ q.red = e.red /\ q.key = e.key
      /\ q.str = e.str /\ q.insert = e.insert /\ q \in TreeType
  BY <1>2, <1>4, <1>5 DEF TreeType, KidPut, Kids
<1> HIDE DEF q
<1>7. Recoloured(q, u, (q.red \ {}) \cup {n})
  BY <1>6, PaintIs
<1> HIDE DEF u
<1>8. \A a \in Sides, z \in Nodes \cup {Nil} :
        u.kid[a][z] = IF z = n THEN Nil ELSE IF a = s /\ z = p THEN n ELSE t.kid[a][z]
  BY <1>1, <1>5, <1>6, <1>7 DEF EnteredTo, Recoloured, KidPut
<1>9. Hooked(t, u, n, d, p, s)
  BY <1>1, <1>4, <1>6, <1>7, <1>8 DEF Hooked, EnteredTo, Recoloured
<1>. QED BY <1>3, <1>9 DEF u, e

\* v's parent is y now.
ParentPut(t, u, y, v) ==
  /\ u \in TreeType /\ u.red = t.red /\ u.root = t.root /\ u.kid = t.kid
  /\ \A z \in Nodes \cup {Nil} : u.parent[z] = IF z = y THEN v ELSE t.parent[z]
  /\ u.key = t.key /\ u.str = t.str /\ u.insert = t.insert

LEMMA ParentPutIs ==
  ASSUME NEW t \in TreeType, NEW y \in Nodes \cup {Nil}, NEW v \in Nodes \cup {Nil, Null}
  PROVE  ParentPut(t, [t EXCEPT !.parent[y] = v], y, v)
<1> DEFINE f == [t.parent EXCEPT ![y] = v]
           u == [t EXCEPT !.parent = f]
<1>1. [t EXCEPT !.parent[y] = v] = u
  BY DEF TreeType
<1>2. /\ f \in [Nodes \cup {Nil} -> Nodes \cup {Nil, Null}]
      /\ \A z \in Nodes \cup {Nil} : f[z] = IF z = y THEN v ELSE t.parent[z]
  BY DEF TreeType
<1> HIDE DEF f
<1>3. ParentPut(t, u, y, v)
  BY <1>2 DEF ParentPut, TreeType
<1>. QED BY <1>1, <1>3

\* x is its kids' parent.
Adopted(t, u, x) ==
  /\ u \in TreeType /\ u.red = t.red /\ u.root = t.root /\ u.kid = t.kid
  /\ \A z \in Nodes : u.parent[z] = IF \E s \in Sides : t.kid[s][x] = z THEN x ELSE t.parent[z]
  /\ u.parent[Nil] = t.parent[Nil]
  /\ u.key = t.key /\ u.str = t.str /\ u.insert = t.insert

LEMMA AdoptIs ==
  ASSUME NEW t \in TreeType, NEW x \in Nodes
  PROVE  Adopted(t, Adopt(t, x), x)
<1> DEFINE f == [y \in Nodes \cup {Nil} |->
                   IF y # Nil /\ \E s \in Sides : t.kid[s][x] = y THEN x ELSE t.parent[y]]
           u == [t EXCEPT !.parent = f]
<1>1. Adopt(t, x) = u
  BY DEF Adopt
<1>2. /\ f \in [Nodes \cup {Nil} -> Nodes \cup {Nil, Null}]
      /\ f[Nil] = t.parent[Nil]
      /\ \A z \in Nodes : f[z] = IF \E s \in Sides : t.kid[s][x] = z THEN x ELSE t.parent[z]
  BY NilIsNone DEF TreeType
<1> HIDE DEF f
<1>3. Adopted(t, u, x)
  BY <1>2 DEF Adopted, TreeType
<1>. QED BY <1>1, <1>3

-----------------------------------------------------------------------------
(* What a deletion unlinks.                                                 *)

\* y hangs where x did; the rest is t's.
Hung(t, u, M, x, y) ==
  /\ u \in TreeType /\ u.root = IF x = t.root THEN y ELSE t.root
  /\ \A z \in M, a \in Sides : u.kid[a][z] = IF t.kid[a][z] = x THEN y ELSE t.kid[a][z]
  /\ \A z \in (Nodes \cup {Nil}) \ M, a \in Sides : u.kid[a][z] = t.kid[a][z]
  /\ u.parent = t.parent /\ u.red = t.red /\ u.key = t.key /\ u.str = t.str
  /\ u.insert = t.insert

LEMMA HungIs ==
  ASSUME NEW t \in TreeType, NEW M, NEW N, NEW ord, NEW end, Shape(t, M, N, ord, end),
         NEW x \in M, NEW y \in Nodes \cup {Nil}
  PROVE  Hung(t, Hang(t, x, y), M, x, y)
BY HangIs DEF Hung

\* The same from a tree c that differs elsewhere.
LEMMA HungLike ==
  ASSUME NEW t \in TreeType, NEW M, NEW N, NEW ord, NEW end, Shape(t, M, N, ord, end),
         NEW x \in M, NEW y \in Nodes \cup {Nil},
         NEW c \in TreeType, c.root = t.root, c.kid = t.kid, c.parent[x] = t.parent[x]
  PROVE  Hung(c, Hang(c, x, y), M, x, y)
<1> DEFINE u == Hang(c, x, y)
           w == Hang(t, x, y)
<1>1. Hung(t, w, M, x, y)
  BY HungIs
<1>2. CASE x = t.root
  <2>1. u = [c EXCEPT !.root = y] /\ w = [t EXCEPT !.root = y]
    BY <1>2 DEF Hang
  <2>2. /\ u \in TreeType /\ u.root = y /\ u.kid = c.kid /\ u.parent = c.parent
        /\ u.red = c.red /\ u.key = c.key /\ u.str = c.str /\ u.insert = c.insert
        /\ w.kid = t.kid
    BY <2>1 DEF TreeType
  <2> HIDE DEF u, w
  <2>7. \A z \in M, a \in Sides : u.kid[a][z] = IF c.kid[a][z] = x THEN y ELSE c.kid[a][z]
    <3>1. \A z \in M, a \in Sides : w.kid[a][z] = IF t.kid[a][z] = x THEN y ELSE t.kid[a][z]
      BY <1>1 DEF Hung
    <3>2. u.kid = w.kid /\ c.kid = t.kid
      BY <1>1, <2>2, <1>2
    <3>. QED BY <3>1, <3>2
  <2>8. \A z \in (Nodes \cup {Nil}) \ M, a \in Sides : u.kid[a][z] = c.kid[a][z]
    <3>1. \A z \in (Nodes \cup {Nil}) \ M, a \in Sides : w.kid[a][z] = t.kid[a][z]
      BY <1>1 DEF Hung
    <3>2. u.kid = w.kid /\ c.kid = t.kid
      BY <1>1, <2>2
    <3>. QED BY <3>1, <3>2
  <2>9. Hung(c, u, M, x, y)
    BY <1>1, <1>2, <2>2, <2>7, <2>8 DEF Hung
  <2>. QED BY <2>9 DEF u
<1>3. CASE x # t.root
  <2> DEFINE s == SideOf(t, x)
             p == t.parent[x]
             k == [c.kid EXCEPT ![s][p] = y]
  <2>1. SideOf(c, x) = s /\ c.parent[x] = p
    BY DEF SideOf
  <2>2. s \in Sides /\ p \in Nodes \cup {Nil}
    <3>1. p \in M
      BY <1>3 DEF Shape, ParentFits
    <3>. QED BY <3>1, ShapeFacts DEF SideOf, Sides
  <2> HIDE DEF s, p
  <2>3. u = [c EXCEPT !.kid[s][p] = y] /\ w = [t EXCEPT !.kid[s][p] = y]
    BY <1>3, <2>1 DEF Hang, s, p
  <2>4. u = [c EXCEPT !.kid = k] /\ w = [t EXCEPT !.kid = k]
    BY <2>3 DEF TreeType
  <2>5. KidPut(c.kid, k, s, p, y)
    BY <2>2, KidPutIs DEF TreeType, Kids
  <2> HIDE DEF k, u, w
  <2>6. /\ u \in TreeType /\ u.root = c.root /\ u.kid = k /\ u.parent = c.parent
        /\ u.red = c.red /\ u.key = c.key /\ u.str = c.str /\ u.insert = c.insert
        /\ w.kid = k
    BY <2>4, <2>5 DEF TreeType, KidPut, Kids
  <2>7. \A z \in M, a \in Sides : u.kid[a][z] = IF c.kid[a][z] = x THEN y ELSE c.kid[a][z]
    <3>1. \A z \in M, a \in Sides : w.kid[a][z] = IF t.kid[a][z] = x THEN y ELSE t.kid[a][z]
      BY <1>1 DEF Hung
    <3>2. u.kid = w.kid /\ c.kid = t.kid
      BY <1>1, <2>6
    <3>. QED BY <3>1, <3>2
  <2>8. \A z \in (Nodes \cup {Nil}) \ M, a \in Sides : u.kid[a][z] = c.kid[a][z]
    <3>1. \A z \in (Nodes \cup {Nil}) \ M, a \in Sides : w.kid[a][z] = t.kid[a][z]
      BY <1>1 DEF Hung
    <3>2. u.kid = w.kid /\ c.kid = t.kid
      BY <1>1, <2>6
    <3>. QED BY <3>1, <3>2
  <2>9. Hung(c, u, M, x, y)
    BY <1>1, <1>3, <2>6, <2>7, <2>8 DEF Hung
  <2>. QED BY <2>9 DEF u
<1>. QED BY <1>2, <1>3

\* The node that goes and the one that takes its place.
LEMMA SubstIs ==
  ASSUME NEW t \in TreeType, NEW M, NEW N, NEW ord, NEW end, Shape(t, M, N, ord, end),
         NEW n \in M, NEW x, x = Subst(t, n), NEW y, y = Temp(t, n)
  PROVE  /\ x \in M /\ \E b \in Sides : t.kid[Other(b)][x] = Nil /\ y = t.kid[b][x]
         /\ y \in M \cup {Nil} /\ y # n /\ y # x
         /\ x # n => /\ ord[x] = ord[n] + 1 /\ x # t.root
                     /\ \A s \in Sides : t.kid[s][n] # Nil /\ t.kid[s][x] # n
<1>0. Nil \notin M /\ M \subseteq Nodes /\ \A z \in M : ord[z] \in Int
  BY ShapeFacts
<1>1. CASE \E s \in Sides : t.kid[s][n] = Nil
  <2>1. x = n
    BY <1>1 DEF Subst
  <2>2. PICK b \in Sides : t.kid[Other(b)][x] = Nil /\ y = t.kid[b][x]
    <3>1. CASE t.kid["left"][n] = Nil
      BY <2>1, <3>1, SideFacts DEF Temp
    <3>2. CASE t.kid["left"][n] # Nil
      <4>1. t.kid["right"][n] = Nil
        BY <1>1, <3>2, SideFacts
      <4>. QED BY <2>1, <3>2, <4>1, SideFacts DEF Temp
    <3>. QED BY <3>1, <3>2
  <2>3. y \in M \cup {Nil} /\ y # x
    BY <1>0, <2>1, <2>2, KidIs
  <2>. QED BY <2>1, <2>2, <2>3
<1>2. CASE \A s \in Sides : t.kid[s][n] # Nil
  <2> DEFINE k == t.kid["right"][n]
  <2>1. x = Outermost(t, k, "left")
    BY <1>2, SideFacts DEF Subst
  <2>2. k \in M /\ end["left"][k] = ord[n] + 1
    BY <1>2, SideFacts, KidIs
  <2> HIDE DEF k
  <2>3. x \in M /\ t.kid["left"][x] = Nil /\ ord[x] = end["left"][k]
    BY <2>1, <2>2, OutermostIs, SideFacts
  <2>4. y = t.kid["right"][x]
    BY <2>3 DEF Temp
  <2>5. x # t.root
    <3>1. CASE x = t.root
      <4>1. end["left"][x] = 1
        BY <1>0, <2>3, <3>1 DEF Shape, RootFits
      <4>2. ord[n] \in 1..N /\ N \in Nat
        BY ShapeFacts
      <4>3. end["left"][x] = ord[x]
        BY <2>3, DownTo, SideFacts
      <4>. QED BY <2>2, <2>3, <4>1, <4>2, <4>3
    <3>. QED BY <3>1
  <2>6. y # Nil => y \in M /\ y # x /\ end["left"][y] = ord[n] + 2
    BY <1>0, <2>2, <2>3, <2>4, KidIs, SideFacts
  <2>7. y # n
    <3>1. end["left"][n] <= ord[n] /\ end["left"][n] \in Int /\ ord[n] \in Int /\ n # Nil
      BY ShapeFacts
    <3>. QED BY <2>6, <3>1
  <2>8. y \in M \cup {Nil} /\ y # x
    BY <1>0, <2>3, <2>6
  <2>9. \A s \in Sides : t.kid[s][x] # n
    BY <1>0, <2>3, <2>4, <2>7, SideFacts
  <2>10. ord[x] = ord[n] + 1
    BY <2>2, <2>3
  <2>11. t.kid[Other("right")][x] = Nil
    BY <2>3, SideFacts
  <2>. QED BY <1>2, <2>3, <2>4, <2>5, <2>7, <2>8, <2>9, <2>10, <2>11, SideFacts
<1>. QED BY <1>1, <1>2

\* x is out, y is where it was, and x has n's place, links and colour.
Unlinked(t, v, M, n, x, y) ==
  /\ v \in TreeType
  /\ v.red = IF n \in t.red THEN t.red \cup {x} ELSE t.red \ {x}
  /\ v.root = IF n = t.root THEN x ELSE t.root
  /\ \A z \in M \ {n, x}, a \in Sides :
       v.kid[a][z] = IF t.kid[a][z] = n THEN x ELSE IF t.kid[a][z] = x THEN y ELSE t.kid[a][z]
  /\ \A a \in Sides : v.kid[a][x] = IF t.kid[a][n] = x THEN y ELSE t.kid[a][n]
  /\ \A z \in (Nodes \cup {Nil}) \ M, a \in Sides : v.kid[a][z] = t.kid[a][z]
  /\ v.parent[x] = t.parent[n]
  /\ \A z \in Nodes \ {x} :
       v.parent[z] = IF \E a \in Sides : v.kid[a][x] = z THEN x
                     ELSE IF z = y THEN t.parent[x] ELSE t.parent[z]
  /\ y = Nil => v.parent[Nil] = IF t.parent[x] = n THEN x ELSE t.parent[x]
  /\ v.key = t.key /\ v.str = t.str /\ v.insert = t.insert

LEMMA UnlinkIs ==
  ASSUME NEW t \in TreeType, NEW M, NEW N, NEW ord, NEW end, Shape(t, M, N, ord, end),
         NEW n \in M, NEW x, x = Subst(t, n), NEW y, y = Temp(t, n), x # n
  PROVE  Unlinked(t, Unlink(t, n), M, n, x, y)
<1> DEFINE w == IF t.parent[x] = n THEN x ELSE t.parent[x]
           h == Hang(t, x, y)
           u == [h EXCEPT !.parent[y] = t.parent[x]]
           q == [h EXCEPT !.parent[y] = w]
           c == CopyColor(q, x, n)
           g == Hang(c, n, x)
           k == [s \in Sides |-> [g.kid[s] EXCEPT ![x] = q.kid[s][n]]]
           f == [g.parent EXCEPT ![x] = q.parent[n]]
           r == [g EXCEPT !.kid = k, !.parent = f]
           v == Adopt(r, x)
<1>0. /\ x \in M /\ y \in M \cup {Nil} /\ y # n /\ y # x /\ x # t.root
      /\ M \subseteq Nodes /\ Nil \notin M /\ \A s \in Sides : t.kid[s][n] # Nil /\ t.kid[s][x] # n
  BY SubstIs, ShapeFacts
<1>1. PICK b \in Sides : t.kid[Other(b)][x] = Nil /\ y = t.kid[b][x]
  BY SubstIs
<1>2. Hung(t, h, M, x, y)
  BY <1>0, HungIs
<1>3. t.parent[x] \in M /\ t.parent[x] # x
  BY <1>0, KidIs DEF Shape, ParentFits
<1>4. w \in M
  BY <1>0, <1>3
<1>5. h \in TreeType
  BY <1>2 DEF Hung
<1>6. ParentPut(h, u, y, t.parent[x]) /\ ParentPut(h, q, y, w)
  <2> HIDE DEF w, h
  <2>. QED BY <1>0, <1>3, <1>4, <1>5, ParentPutIs
<1>7. Unlink(t, n) = Replace(q, n, x)
  BY DEF Unlink
<1> HIDE DEF u, q, h, w
<1>8. CutOut(t, u, M, x, y)
  BY <1>0, <1>2, <1>6 DEF CutOut, Hung, ParentPut
<1>9. PICK e : Shape(u, M \ {x}, N - 1, Closed(ord, ord[x]), e)
  BY <1>0, <1>1, <1>8, CutKeepsShape
<1>10. Recoloured(q, c, IF n \in q.red THEN q.red \cup {x} ELSE q.red \ {x})
  <2>1. q \in TreeType /\ x \in Nodes
    BY <1>0, <1>6 DEF ParentPut
  <2>. QED BY <2>1, CopyColorIs
<1> HIDE DEF c
<1>11. Hung(c, g, M \ {x}, n, x)
  <2>1. c \in TreeType /\ c.root = u.root /\ c.kid = u.kid /\ c.parent[n] = u.parent[n]
    BY <1>0, <1>6, <1>10 DEF ParentPut, Recoloured
  <2>2. n \in M \ {x} /\ x \in Nodes \cup {Nil} /\ u \in TreeType
    BY <1>0, <1>6 DEF ParentPut
  <2>. QED BY <1>9, <2>1, <2>2, HungLike
<1>12. Replace(q, n, x) = v
  <2>1. Replace(q, n, x) = Adopt([g EXCEPT !.kid = k, !.parent[x] = q.parent[n]], x)
    BY DEF Replace, c
  <2>2. g \in TreeType
    BY <1>11 DEF Hung
  <2> HIDE DEF g, k
  <2>3. [g EXCEPT !.kid = k, !.parent[x] = q.parent[n]] = r
    BY <2>2 DEF TreeType
  <2>. QED BY <2>1, <2>3
<1> HIDE DEF g
<1>13. g \in TreeType /\ q \in TreeType
  BY <1>6, <1>11 DEF Hung, ParentPut
<1>14. k \in Kids /\ \A a \in Sides, z \in Nodes \cup {Nil} :
                       k[a][z] = IF z = x THEN q.kid[a][n] ELSE g.kid[a][z]
  BY <1>0, <1>13 DEF TreeType, Kids
<1>15. /\ f \in [Nodes \cup {Nil} -> Nodes \cup {Nil, Null}]
       /\ \A z \in Nodes \cup {Nil} : f[z] = IF z = x THEN q.parent[n] ELSE g.parent[z]
  BY <1>0, <1>13 DEF TreeType
<1> HIDE DEF k, f
<1>16. /\ r \in TreeType /\ r.root = g.root /\ r.kid = k /\ r.parent = f
       /\ r.red = g.red /\ r.key = g.key /\ r.str = g.str /\ r.insert = g.insert
  BY <1>13, <1>14, <1>15 DEF TreeType, Kids
<1> HIDE DEF r
<1>17. Adopted(r, v, x)
  BY <1>0, <1>16, AdoptIs
<1> HIDE DEF v
<1>18. /\ q.kid = h.kid /\ q.red = h.red /\ q.root = h.root
       /\ q.key = h.key /\ q.str = h.str /\ q.insert = h.insert
       /\ \A z \in Nodes \cup {Nil} : q.parent[z] = IF z = y THEN w ELSE h.parent[z]
  BY <1>6 DEF ParentPut
<1>19. /\ h.root = t.root /\ h.parent = t.parent /\ h.red = t.red
       /\ h.key = t.key /\ h.str = t.str /\ h.insert = t.insert
       /\ \A z \in M, a \in Sides : h.kid[a][z] = IF t.kid[a][z] = x THEN y ELSE t.kid[a][z]
       /\ \A z \in (Nodes \cup {Nil}) \ M, a \in Sides : h.kid[a][z] = t.kid[a][z]
  BY <1>0, <1>2 DEF Hung
<1>20. /\ c.kid = q.kid /\ c.root = q.root /\ c.parent = q.parent
       /\ c.key = q.key /\ c.str = q.str /\ c.insert = q.insert
       /\ c.red = IF n \in q.red THEN q.red \cup {x} ELSE q.red \ {x}
  BY <1>10 DEF Recoloured
<1>21. /\ g.root = IF n = c.root THEN x ELSE c.root
       /\ \A z \in M \ {x}, a \in Sides : g.kid[a][z] = IF c.kid[a][z] = n THEN x ELSE c.kid[a][z]
       /\ \A z \in (Nodes \cup {Nil}) \ (M \ {x}), a \in Sides : g.kid[a][z] = c.kid[a][z]
       /\ g.parent = c.parent /\ g.red = c.red /\ g.key = c.key /\ g.str = c.str
       /\ g.insert = c.insert
  BY <1>11 DEF Hung
<1>22. /\ v \in TreeType /\ v.red = r.red /\ v.root = r.root /\ v.kid = r.kid
       /\ \A z \in Nodes : v.parent[z] = IF \E s \in Sides : r.kid[s][x] = z THEN x ELSE r.parent[z]
       /\ v.parent[Nil] = r.parent[Nil]
       /\ v.key = r.key /\ v.str = r.str /\ v.insert = r.insert
  BY <1>17 DEF Adopted
<1>23. ASSUME NEW z \in M \ {n, x}, NEW a \in Sides
       PROVE  v.kid[a][z] = IF t.kid[a][z] = n THEN x
                            ELSE IF t.kid[a][z] = x THEN y ELSE t.kid[a][z]
  <2>1. z \in Nodes \cup {Nil} /\ z \in M \ {x} /\ z \in M /\ z # x
    BY <1>0
  <2>2. v.kid[a][z] = IF h.kid[a][z] = n THEN x ELSE h.kid[a][z]
    BY <1>14, <1>16, <1>18, <1>20, <1>21, <1>22, <2>1
  <2>3. h.kid[a][z] = IF t.kid[a][z] = x THEN y ELSE t.kid[a][z]
    BY <1>19, <2>1
  <2>. QED BY <1>0, <2>2, <2>3
<1>24. ASSUME NEW a \in Sides
       PROVE  v.kid[a][x] = IF t.kid[a][n] = x THEN y ELSE t.kid[a][n]
  <2>1. x \in Nodes \cup {Nil}
    BY <1>0
  <2>. QED BY <1>14, <1>16, <1>18, <1>19, <1>22, <2>1
<1>25. ASSUME NEW z \in (Nodes \cup {Nil}) \ M, NEW a \in Sides
       PROVE  v.kid[a][z] = t.kid[a][z]
  <2>1. z \in (Nodes \cup {Nil}) \ (M \ {x}) /\ z # x
    BY <1>0
  <2>. QED BY <1>14, <1>16, <1>18, <1>19, <1>20, <1>21, <1>22, <2>1
<1>26. \A z \in Nodes \cup {Nil} :
         r.parent[z] = IF z = x THEN t.parent[n] ELSE IF z = y THEN w ELSE t.parent[z]
  <2>1. q.parent[n] = t.parent[n]
    BY <1>0, <1>18, <1>19
  <2>2. \A z \in Nodes \cup {Nil} : r.parent[z] = IF z = x THEN t.parent[n] ELSE g.parent[z]
    BY <1>15, <1>16, <2>1
  <2>3. \A z \in Nodes \cup {Nil} : g.parent[z] = IF z = y THEN w ELSE t.parent[z]
    BY <1>18, <1>19, <1>20, <1>21
  <2>. QED BY <2>2, <2>3
<1>27. v.parent[x] = t.parent[n]
  <2>1. ASSUME NEW s \in Sides, v.kid[s][x] = x PROVE FALSE
    BY <1>0, <1>24, <2>1
  <2>2. x \in Nodes
    BY <1>0
  <2>. QED BY <1>22, <1>26, <2>1, <2>2
<1>28. ASSUME NEW z \in Nodes \ {x}
       PROVE  v.parent[z] = IF \E a \in Sides : v.kid[a][x] = z THEN x
                            ELSE IF z = y THEN t.parent[x] ELSE t.parent[z]
  <2>1. v.parent[z] = IF \E a \in Sides : v.kid[a][x] = z THEN x
                      ELSE IF z = y THEN w ELSE t.parent[z]
    BY <1>22, <1>26
  <2>2. ASSUME z = y, w # t.parent[x] PROVE \E a \in Sides : v.kid[a][x] = z
    <3>1. t.parent[x] = n
      BY <2>2 DEF w
    <3>2. PICK a \in Sides : t.kid[a][n] = x
      BY <1>0, <3>1 DEF Shape, ParentFits
    <3>. QED BY <1>24, <2>2, <3>2
  <2>. QED BY <2>1, <2>2
<1>29. y = Nil => v.parent[Nil] = IF t.parent[x] = n THEN x ELSE t.parent[x]
  BY <1>0, <1>22, <1>26 DEF w
<1>30. /\ v.red = IF n \in t.red THEN t.red \cup {x} ELSE t.red \ {x}
       /\ v.root = IF n = t.root THEN x ELSE t.root
       /\ v.key = t.key /\ v.str = t.str /\ v.insert = t.insert /\ v \in TreeType
  <2>1. v.root = g.root /\ v.red = g.red /\ v.key = g.key /\ v.str = g.str /\ v.insert = g.insert
    BY <1>16, <1>22
  <2>2. /\ g.root = (IF n = c.root THEN x ELSE c.root) /\ g.red = c.red
        /\ g.key = c.key /\ g.str = c.str /\ g.insert = c.insert
    BY <1>21
  <2>3. /\ c.root = t.root /\ c.red = IF n \in t.red THEN t.red \cup {x} ELSE t.red \ {x}
        /\ c.key = t.key /\ c.str = t.str /\ c.insert = t.insert
    <3>1. q.red = t.red /\ q.root = t.root /\ q.key = t.key /\ q.str = t.str /\ q.insert = t.insert
      BY <1>18, <1>19
    <3>. QED BY <1>20, <3>1
  <2>. QED BY <1>22, <2>1, <2>2, <2>3
<1>31. Unlinked(t, v, M, n, x, y)
  BY <1>23, <1>24, <1>25, <1>27, <1>28, <1>29, <1>30 DEF Unlinked
<1>. QED BY <1>7, <1>12, <1>31

\* n goes itself, and y is where it was.
CutSelf(t, v, M, n, y) ==
  /\ v \in TreeType /\ v.red = t.red /\ v.root = IF n = t.root THEN y ELSE t.root
  /\ \A z \in M, a \in Sides : v.kid[a][z] = IF t.kid[a][z] = n THEN y ELSE t.kid[a][z]
  /\ \A z \in (Nodes \cup {Nil}) \ M, a \in Sides : v.kid[a][z] = t.kid[a][z]
  /\ \A z \in Nodes \cup {Nil} :
       z # v.root => v.parent[z] = IF z = y THEN t.parent[n] ELSE t.parent[z]
  /\ \A z \in Nodes \ M : v.parent[z] = t.parent[z]
  /\ v.key = t.key /\ v.str = t.str /\ v.insert = t.insert

LEMMA UnlinkSelfIs ==
  ASSUME NEW t \in TreeType, NEW M, NEW N, NEW ord, NEW end, Shape(t, M, N, ord, end),
         NEW n \in M, n = Subst(t, n), NEW y, y = Temp(t, n), n # t.root
  PROVE  CutSelf(t, Unlink(t, n), M, n, y)
<1> DEFINE h == Hang(t, n, y)
           q == [h EXCEPT !.parent[y] = t.parent[n]]
<1>0. /\ y \in M \cup {Nil} /\ y # n /\ M \subseteq Nodes /\ Nil \notin M
      /\ t.parent[n] \in M /\ t.parent[n] # n
  <2>1. y \in M \cup {Nil} /\ y # n /\ M \subseteq Nodes /\ Nil \notin M
    BY SubstIs, ShapeFacts
  <2>. QED BY <2>1, KidIs DEF Shape, ParentFits
<1>1. Hung(t, h, M, n, y)
  BY <1>0, HungIs
<1>2. h \in TreeType
  BY <1>1 DEF Hung
<1>3. Unlink(t, n) = q
  BY <1>0 DEF Unlink
<1> HIDE DEF h
<1>4. ParentPut(h, q, y, t.parent[n])
  BY <1>0, <1>2, ParentPutIs
<1> HIDE DEF q
<1>5. CutSelf(t, q, M, n, y)
  <2>1. \A z \in Nodes \cup {Nil} : q.parent[z] = IF z = y THEN t.parent[n] ELSE t.parent[z]
    BY <1>1, <1>4 DEF Hung, ParentPut
  <2>2. \A z \in Nodes \ M : q.parent[z] = t.parent[z]
    BY <1>0, <2>1, NilIsNone
  <2>3. /\ q \in TreeType /\ q.red = t.red /\ q.root = IF n = t.root THEN y ELSE t.root
        /\ q.key = t.key /\ q.str = t.str /\ q.insert = t.insert /\ q.kid = h.kid
    BY <1>1, <1>4 DEF Hung, ParentPut
  <2>4. /\ \A z \in M, a \in Sides : h.kid[a][z] = IF t.kid[a][z] = n THEN y ELSE t.kid[a][z]
        /\ \A z \in (Nodes \cup {Nil}) \ M, a \in Sides : h.kid[a][z] = t.kid[a][z]
    BY <1>1 DEF Hung
  <2>5. \A z \in M, a \in Sides : q.kid[a][z] = IF t.kid[a][z] = n THEN y ELSE t.kid[a][z]
    BY <2>3, <2>4
  <2>6. \A z \in (Nodes \cup {Nil}) \ M, a \in Sides : q.kid[a][z] = t.kid[a][z]
    BY <2>3, <2>4
  <2>. QED BY <2>1, <2>2, <2>3, <2>5, <2>6 DEF CutSelf
<1>. QED BY <1>3, <1>5

LEMMA RootGoesIs ==
  ASSUME NEW t \in TreeType, NEW M, NEW N, NEW ord, NEW end, Shape(t, M, N, ord, end),
         NEW n \in M, NEW x, x = Subst(t, n), NEW y, y = Temp(t, n)
  PROVE  x = t.root =>
           n = t.root /\ x = n /\ CutSelf(t, [t EXCEPT !.root = y], M, n, y)
<1> DEFINE v == [t EXCEPT !.root = y]
<1>0. /\ x \in M /\ (x # n => x # t.root) /\ y \in M \cup {Nil} /\ y # n /\ y # x
      /\ \E b \in Sides : t.kid[Other(b)][x] = Nil /\ y = t.kid[b][x]
  BY SubstIs
<1>6. /\ M \subseteq Nodes /\ Nil \notin M
  BY ShapeFacts
<1>7. HAVE x = t.root
<1>1. n = t.root /\ x = n
  BY <1>0, <1>7
<1>2. /\ y \in M \cup {Nil} /\ y # n /\ M \subseteq Nodes /\ Nil \notin M /\ n # Nil
      /\ \E b \in Sides : y = t.kid[b][n]
  BY <1>0, <1>1, <1>6
<1>3. /\ v \in TreeType /\ v.red = t.red /\ v.root = y /\ v.kid = t.kid /\ v.parent = t.parent
      /\ v.key = t.key /\ v.str = t.str /\ v.insert = t.insert
  BY <1>2 DEF TreeType
<1> HIDE DEF v
<1>4. \A z \in M, a \in Sides : t.kid[a][z] # n
  BY <1>1, <1>2, KidIs
<1>5. CutSelf(t, v, M, n, y)
  BY <1>1, <1>3, <1>4 DEF CutSelf
<1>. QED BY <1>1, <1>5 DEF v

LEMMA CutSelfKeepsShape ==
  ASSUME NEW t \in TreeType, NEW M, NEW N, NEW ord, NEW end, Shape(t, M, N, ord, end),
         NEW n \in M, n = Subst(t, n), NEW y, y = Temp(t, n), NEW v, CutSelf(t, v, M, n, y)
  PROVE  \E e : Shape(v, M \ {n}, N - 1, Closed(ord, ord[n]), e)
<1>1. PICK b \in Sides : t.kid[Other(b)][n] = Nil /\ y = t.kid[b][n]
  BY SubstIs
<1>2. CutOut(t, v, M, n, y)
  BY ShapeFacts DEF CutOut, CutSelf
<1>. QED BY <1>1, <1>2, CutKeepsShape

LEMMA UnlinkedKeepsShape ==
  ASSUME NEW t \in TreeType, NEW M, NEW N, NEW ord, NEW end, Shape(t, M, N, ord, end),
         NEW n \in M, NEW x, x = Subst(t, n), NEW y, y = Temp(t, n), x # n,
         NEW v, Unlinked(t, v, M, n, x, y)
  PROVE  \E e : Shape(v, M \ {n}, N - 1, Closed(ord, ord[n]), e)
<1> DEFINE h == Hang(t, x, y)
           u == [h EXCEPT !.parent[y] = t.parent[x]]
           f == Closed(ord, ord[x])
           g == Closed(ord, ord[n])
<1>0. /\ x \in M /\ y \in M \cup {Nil} /\ y # n /\ y # x /\ x # t.root /\ ord[x] = ord[n] + 1
      /\ M \subseteq Nodes /\ Nil \notin M /\ \A s \in Sides : t.kid[s][n] # Nil /\ t.kid[s][x] # n
      /\ \A z \in M : ord[z] \in Int
  BY SubstIs, ShapeFacts
<1>1. PICK b \in Sides : t.kid[Other(b)][x] = Nil /\ y = t.kid[b][x]
  BY SubstIs
<1>2. Hung(t, h, M, x, y)
  BY <1>0, HungIs
<1>3. t.parent[x] \in M
  BY <1>0 DEF Shape, ParentFits
<1> HIDE DEF h
<1>4. ParentPut(h, u, y, t.parent[x])
  BY <1>0, <1>2, <1>3, ParentPutIs DEF Hung
<1> HIDE DEF u
<1>5. /\ u.root = t.root
      /\ \A z \in M, a \in Sides : u.kid[a][z] = IF t.kid[a][z] = x THEN y ELSE t.kid[a][z]
      /\ \A z \in M : u.parent[z] = IF z = y THEN t.parent[x] ELSE t.parent[z]
  <2>1. u.kid = h.kid /\ u.root = h.root
    BY <1>4 DEF ParentPut
  <2>2. \A z \in M, a \in Sides : h.kid[a][z] = IF t.kid[a][z] = x THEN y ELSE t.kid[a][z]
    BY <1>2 DEF Hung
  <2>3. \A z \in M : u.parent[z] = IF z = y THEN t.parent[x] ELSE t.parent[z]
    BY <1>0, <1>2, <1>4 DEF Hung, ParentPut
  <2>4. h.root = t.root
    BY <1>0, <1>2 DEF Hung
  <2>. QED BY <2>1, <2>2, <2>3, <2>4
<1>6. CutOut(t, u, M, x, y)
  BY <1>0, <1>5 DEF CutOut
<1>7. PICK e : Shape(u, M \ {x}, N - 1, f, e)
  BY <1>0, <1>1, <1>6, CutKeepsShape
<1>8. g \in [Nodes -> Int] /\ g[x] = f[n] /\ \A z \in (M \ {x}) \ {n} : g[z] = f[z]
  <2>1. ord \in [Nodes -> Int] /\ \A z, w \in M : ord[z] = ord[w] => z = w
    BY DEF Shape, Ranked
  <2>2. \A z \in Nodes : /\ g[z] = IF ord[z] > ord[n] THEN ord[z] - 1 ELSE ord[z]
                         /\ f[z] = IF ord[z] > ord[x] THEN ord[z] - 1 ELSE ord[z]
    BY DEF Closed
  <2>3. g \in [Nodes -> Int]
    BY <2>1 DEF Closed
  <2> HIDE DEF f, g
  <2>4. ASSUME NEW z \in (M \ {x}) \ {n} PROVE g[z] = f[z]
    <3>1. ord[z] # ord[x] /\ ord[z] # ord[n] /\ ord[z] \in Int /\ ord[n] \in Int
      BY <1>0, <2>1
    <3>. QED BY <1>0, <2>2, <3>1
  <2>5. g[x] = f[n]
    BY <1>0, <2>2
  <2>. QED BY <2>3, <2>4, <2>5
<1> HIDE DEF f, g
<1>9. Replaced(u, v, M \ {x}, n, x)
  <2>1. v.root = IF n = u.root THEN x ELSE u.root
    BY <1>5 DEF Unlinked
  <2>2. ASSUME NEW a \in Sides PROVE v.kid[a][x] = u.kid[a][n]
    BY <1>5 DEF Unlinked
  <2>3. v.parent[x] = u.parent[n]
    BY <1>0, <1>5 DEF Unlinked
  <2>4. ASSUME NEW z \in (M \ {x}) \ {n}, NEW a \in Sides
        PROVE  v.kid[a][z] = IF u.kid[a][z] = n THEN x ELSE u.kid[a][z]
    <3>1. v.kid[a][z] = IF t.kid[a][z] = n THEN x ELSE IF t.kid[a][z] = x THEN y ELSE t.kid[a][z]
      BY DEF Unlinked
    <3>2. u.kid[a][z] = IF t.kid[a][z] = x THEN y ELSE t.kid[a][z]
      BY <1>5
    <3>. QED BY <1>0, <3>1, <3>2
  <2>5. ASSUME NEW z \in (M \ {x}) \ {n}, z # v.root
        PROVE  v.parent[z] = IF u.parent[z] = n THEN x ELSE u.parent[z]
    <3>1. z # u.root
      BY <2>1, <2>5
    <3>2. PICK s \in Sides : u.parent[z] \in M \ {x} /\ u.kid[s][u.parent[z]] = z
      BY <1>7, <3>1 DEF Shape, ParentFits
    <3>3. v.parent[z] = IF \E a \in Sides : u.kid[a][n] = z THEN x ELSE u.parent[z]
      <4>1. z \in Nodes \ {x} /\ z \in M
        BY <1>0
      <4>2. u.parent[z] = IF z = y THEN t.parent[x] ELSE t.parent[z]
        BY <1>5, <4>1
      <4>3. v.parent[z] = IF \E a \in Sides : v.kid[a][x] = z THEN x ELSE u.parent[z]
        BY <4>1, <4>2 DEF Unlinked
      <4>. QED BY <2>2, <4>3
    <3>4. ASSUME NEW a \in Sides, u.kid[a][n] = z PROVE u.parent[z] = n
      <4>1. n \in M \ {x} /\ z # Nil
        BY <1>0
      <4>2. u.kid[a][n] # Nil
        BY <3>4, <4>1
      <4>3. u.parent[u.kid[a][n]] = n
        <5>1. KidFits(u, M \ {x}, f, e, a, n)
          BY <1>7, <4>1 DEF Shape
        <5>. QED BY <4>2, <5>1 DEF KidFits
      <4>. QED BY <3>4, <4>3
    <3>. QED BY <3>2, <3>3, <3>4
  <2>. QED BY <2>1, <2>2, <2>3, <2>4, <2>5 DEF Replaced
<1>10. \E d : Shape(v, ((M \ {x}) \ {n}) \cup {x}, N - 1, g, d)
  <2>1. n \in M \ {x} /\ x \in Nodes \ (M \ {x})
    BY <1>0
  <2>. QED BY <1>7, <1>8, <1>9, <2>1, ReplaceKeepsShape
<1>11. ((M \ {x}) \ {n}) \cup {x} = M \ {n}
  BY <1>0
<1>. QED BY <1>10, <1>11 DEF g

-----------------------------------------------------------------------------
(* Black nodes: below x there are b[x] on every way, but for one that lacks *)
(* below p on side s (p is Nil if none does).                               *)

Own(t, k) == IF k = Nil \/ k \in t.red THEN 0 ELSE 1

Even(t, M, b, p, s) ==
  /\ b \in [Nodes \cup {Nil} -> Nat] /\ b[Nil] = 0
  /\ \A z \in M, a \in Sides :
       b[z] = Own(t, t.kid[a][z]) + b[t.kid[a][z]] + (IF z = p /\ a = s THEN 1 ELSE 0)

LEMMA LinkIs ==
  ASSUME NEW t, NEW M, NEW N, NEW ord, NEW end, Shape(t, M, N, ord, end),
         NEW x \in M, NEW s \in Sides, NEW k, t.kid[s][x] = k, k # Nil
  PROVE  /\ k \in M /\ k # x /\ \A a \in Sides : t.kid[a][k] # x
         /\ \A z \in M, a \in Sides : t.kid[a][z] = k => z = x /\ a = s
<1>1. k \in M /\ k # x /\ t.parent[k] = x
  BY KidIs
<1>2. ASSUME NEW z \in M, NEW a \in Sides, t.kid[a][z] = k PROVE z = x /\ a = s
  <2>1. t.parent[t.kid[a][z]] = z
    BY <1>2, KidIs
  <2>2. t.kid[Other(s)][x] # t.kid[s][x]
    BY KidIs
  <2>. QED BY <1>1, <1>2, <2>1, <2>2, SideFacts
<1>3. ASSUME NEW a \in Sides, t.kid[a][k] = x PROVE FALSE
  <2>1. /\ end["right"][k] - end["left"][k] < end["right"][x] - end["left"][x]
    BY <1>1, DownTo
  <2>2. x # Nil
    BY ShapeFacts
  <2>3. end["right"][t.kid[a][k]] - end["left"][t.kid[a][k]] < end["right"][k] - end["left"][k]
    BY <1>1, <1>3, <2>2, DownTo
  <2>. QED BY <1>1, <1>3, <2>1, <2>3, ShapeFacts
<1>. QED BY <1>1, <1>2, <1>3

\* A red node that rises over x, taking x's colour and leaving x red.
LEMMA RiseIsEven ==
  ASSUME NEW t \in TreeType, NEW M, NEW N, NEW ord, NEW end, Shape(t, M, N, ord, end),
         NEW x \in M, NEW s \in Sides, NEW y, t.kid[Other(s)][x] = y, y # Nil, y \in t.red,
         NEW b, NEW p, NEW g, Even(t, M, b, p, g),
         ~(p = x /\ g = Other(s)), ~(p = y /\ g = s),
         NEW R, NEW v, Recoloured(t, v, R), x \in R, y \in R <=> x \in t.red,
         \A z \in M \ {x, y} : z \in R <=> z \in t.red,
         NEW u, Rotated(v, u, M, x, y, s)
  PROVE  Even(u, M, b, p, g)
<1> DEFINE o == Other(s)
           c == t.kid[s][y]
           gap(z, a) == IF z = p /\ a = g THEN 1 ELSE 0
<1>1. o \in Sides /\ o # s /\ \A a \in Sides : a = s \/ a = o
  BY SideFacts
<1>2. M \subseteq Nodes /\ Nil \notin M
  BY ShapeFacts
<1>3. y \in M /\ y # x /\ \A z \in M, a \in Sides : t.kid[a][z] = y => z = x /\ a = o
  BY <1>1, LinkIs
<1>4. c # x /\ c # y /\ (c = Nil \/ c \in M)
  BY <1>1, <1>2, <1>3, LinkIs
<1>5. /\ \A z \in M, a \in Sides :
           u.kid[a][z] = IF z = x /\ a = o THEN c
                         ELSE IF z = y /\ a = s THEN x
                         ELSE IF t.kid[a][z] = x THEN y ELSE t.kid[a][z]
      /\ u.red = R
  BY DEF Rotated, Recoloured
<1>6. /\ b \in [Nodes \cup {Nil} -> Nat] /\ b[Nil] = 0
      /\ \A z \in M, a \in Sides : b[z] = Own(t, t.kid[a][z]) + b[t.kid[a][z]] + gap(z, a)
  BY DEF Even
<1>7. gap(x, o) = 0 /\ gap(y, s) = 0
  OBVIOUS
<1> HIDE DEF gap
<1>8. b[x] = b[y] /\ b[y] = Own(t, c) + b[c]
  <2>1. b[x] = Own(t, y) + b[y] + gap(x, o)
    BY <1>1, <1>6
  <2>2. b[y] = Own(t, c) + b[c] + gap(y, s)
    BY <1>3, <1>6
  <2>3. Own(t, y) = 0 /\ Own(t, c) \in Nat
    BY DEF Own
  <2>4. b[c] \in Nat /\ b[y] \in Nat
    BY <1>2, <1>3, <1>4, <1>6
  <2>. QED BY <1>7, <2>1, <2>2, <2>3, <2>4
<1>9. \A k \in M \cup {Nil} : k # x /\ k # y => Own(u, k) = Own(t, k)
  BY <1>5 DEF Own
<1>10. Own(u, x) = 0 /\ Own(u, y) = Own(t, x)
  BY <1>2, <1>3, <1>5 DEF Own
<1>11. \A k \in M : b[k] \in Nat
  BY <1>2, <1>6
<1> HIDE DEF o, c
<1>12. ASSUME NEW z \in M, NEW a \in Sides
       PROVE  b[z] = Own(u, u.kid[a][z]) + b[u.kid[a][z]] + gap(z, a)
  <2>1. CASE z = x /\ a = o
    <3>1. u.kid[a][z] = c /\ Own(u, c) = Own(t, c)
      BY <1>4, <1>5, <1>9, <2>1
    <3>2. b[c] \in Nat /\ Own(t, c) \in Nat
      BY <1>4, <1>6, <1>11 DEF Own
    <3>. QED BY <1>7, <1>8, <2>1, <3>1, <3>2
  <2>2. CASE z = y /\ a = s
    <3>1. u.kid[a][z] = x
      BY <1>3, <1>5, <2>2
    <3>. QED BY <1>7, <1>8, <1>10, <1>11, <2>2, <3>1
  <2>3. CASE ~(z = x /\ a = o) /\ ~(z = y /\ a = s) /\ t.kid[a][z] = x
    <3>1. u.kid[a][z] = y
      BY <1>5, <2>3
    <3>. QED BY <1>6, <1>8, <1>10, <2>3, <3>1
  <2>4. CASE ~(z = x /\ a = o) /\ ~(z = y /\ a = s) /\ t.kid[a][z] # x
    <3>1. u.kid[a][z] = t.kid[a][z] /\ t.kid[a][z] # y
      BY <1>3, <1>5, <2>4
    <3>2. t.kid[a][z] \in M \cup {Nil}
      BY LinkIs
    <3>3. Own(u, t.kid[a][z]) = Own(t, t.kid[a][z])
      BY <1>9, <2>4, <3>1, <3>2
    <3>. QED BY <1>6, <3>1, <3>3
  <2>. QED BY <2>1, <2>2, <2>3, <2>4
<1>. QED BY <1>6, <1>12 DEF Even, gap

\* Case 4 of a deletion: w rises over p, taking p's colour, and p and w's far
\* kid are black: the side of p that lacked a black node has it.
LEMMA BrotherRiseIsEven ==
  ASSUME NEW t \in TreeType, NEW M, NEW N, NEW ord, NEW end, Shape(t, M, N, ord, end),
         NEW p \in M, NEW s \in Sides, NEW w, t.kid[Other(s)][p] = w, w # Nil, w \notin t.red,
         NEW f, t.kid[Other(s)][w] = f, f \in t.red, f # Nil,
         NEW b, Even(t, M, b, p, s),
         NEW R, NEW v, Recoloured(t, v, R), p \notin R, f \notin R, w \in R <=> p \in t.red,
         \A z \in M \ {p, w, f} : z \in R <=> z \in t.red,
         NEW u, Rotated(v, u, M, p, w, s)
  PROVE  \E d : Even(u, M, d, Nil, s)
<1> DEFINE o == Other(s)
           c == t.kid[s][w]
           gap(z, a) == IF z = p /\ a = s THEN 1 ELSE 0
           d == [z \in Nodes \cup {Nil} |-> IF z = p THEN b[w] ELSE IF z = w THEN b[p] ELSE b[z]]
<1>1. o \in Sides /\ o # s /\ \A a \in Sides : a = s \/ a = o
  BY SideFacts
<1>2. M \subseteq Nodes /\ Nil \notin M
  BY ShapeFacts
<1>3. /\ w \in M /\ w # p /\ \A z \in M, a \in Sides : t.kid[a][z] = w => z = p /\ a = o
      /\ \A a \in Sides : t.kid[a][w] # p
  BY <1>1, LinkIs
<1>4. /\ f \in M /\ f # w /\ f # p
      /\ \A z \in M, a \in Sides : t.kid[a][z] = f => z = w /\ a = o
  BY <1>1, <1>3, LinkIs
<1>5. c # p /\ c # w /\ c # f /\ (c = Nil \/ c \in M)
  BY <1>1, <1>2, <1>3, <1>4, LinkIs
<1>6. /\ \A z \in M, a \in Sides :
           u.kid[a][z] = IF z = p /\ a = o THEN c
                         ELSE IF z = w /\ a = s THEN p
                         ELSE IF t.kid[a][z] = p THEN w ELSE t.kid[a][z]
      /\ u.red = R
  BY DEF Rotated, Recoloured
<1>7. /\ b \in [Nodes \cup {Nil} -> Nat] /\ b[Nil] = 0
      /\ \A z \in M, a \in Sides : b[z] = Own(t, t.kid[a][z]) + b[t.kid[a][z]] + gap(z, a)
  BY DEF Even
<1>8. gap(p, o) = 0 /\ gap(p, s) = 1 /\ \A z \in M, a \in Sides : z # p => gap(z, a) = 0
  BY <1>1
<1> HIDE DEF gap
<1>9. d \in [Nodes \cup {Nil} -> Nat] /\ d[Nil] = 0 /\ d[p] = b[w] /\ d[w] = b[p]
      /\ \A z \in M \cup {Nil} : z # p /\ z # w => d[z] = b[z]
  BY <1>2, <1>3, <1>7
<1> HIDE DEF d
<1>10. /\ Own(t, w) = 1 /\ Own(t, f) = 0 /\ Own(u, f) = 1 /\ Own(u, p) = 1
       /\ Own(u, w) = Own(t, p)
       /\ \A k \in M \cup {Nil} : k # p /\ k # w /\ k # f => Own(u, k) = Own(t, k)
       /\ \A k : Own(t, k) \in Nat
  <2>1. \A k \in M : k # p /\ k # w /\ k # f => (k \in u.red <=> k \in t.red)
    BY <1>2, <1>6
  <2>2. f \notin u.red /\ p \notin u.red /\ (w \in u.red <=> p \in t.red)
    BY <1>6
  <2>3. w # Nil /\ p # Nil /\ f # Nil
    BY <1>2
  <2>4. \A k \in M \cup {Nil} : k # p /\ k # w /\ k # f => Own(u, k) = Own(t, k)
    BY <2>1 DEF Own
  <2>. QED BY <2>2, <2>3, <2>4 DEF Own
<1>11. b[f] \in Nat /\ b[w] \in Nat /\ b[p] \in Nat /\ b[c] \in Nat
  BY <1>2, <1>3, <1>4, <1>5, <1>7
<1> HIDE DEF o, c
<1>12. b[p] = b[w] + 1 /\ b[w] = b[f] /\ b[w] = Own(t, c) + b[c]
  <2>1. b[p] = Own(t, w) + b[w] + gap(p, o)
    BY <1>1, <1>7 DEF o
  <2>2. b[w] = Own(t, f) + b[f] + gap(w, o)
    BY <1>1, <1>3, <1>7 DEF o
  <2>3. b[w] = Own(t, c) + b[c] + gap(w, s)
    BY <1>3, <1>7 DEF c
  <2>4. gap(w, o) = 0 /\ gap(w, s) = 0
    BY <1>1, <1>3, <1>8
  <2>. QED BY <1>8, <1>10, <1>11, <2>1, <2>2, <2>3, <2>4
<1>13. ASSUME NEW z \in M, NEW a \in Sides
       PROVE  d[z] = Own(u, u.kid[a][z]) + d[u.kid[a][z]]
  <2>0. z = p \/ z = w \/ (z # p /\ z # w)
    OBVIOUS
  <2>1. CASE z = p /\ a = o
    <3>1. u.kid[a][z] = c /\ Own(u, c) = Own(t, c) /\ d[c] = b[c]
      BY <1>5, <1>6, <1>9, <1>10, <2>1
    <3>. QED BY <1>9, <1>12, <2>1, <3>1
  <2>2. CASE z = w /\ a = s
    <3>1. u.kid[a][z] = p
      BY <1>3, <1>6, <2>2
    <3>. QED BY <1>9, <1>10, <1>11, <1>12, <2>2, <3>1
  <2>3. CASE z = w /\ a = o
    <3>1. t.kid[a][z] = f
      BY <2>3 DEF o
    <3>2. u.kid[a][z] = f
      BY <1>1, <1>3, <1>4, <1>6, <2>3, <3>1
    <3>3. d[f] = b[f]
      BY <1>4, <1>9
    <3>4. d[w] = b[f] + 1 /\ Own(u, f) = 1
      BY <1>9, <1>10, <1>12
    <3>5. d[w] = Own(u, f) + d[f]
      BY <1>11, <3>3, <3>4
    <3>. QED BY <2>3, <3>2, <3>5
  <2>4. CASE z = p /\ a = s
    <3> DEFINE k == t.kid[s][p]
    <3>1. k # p /\ k # w /\ k # f /\ (k = Nil \/ k \in M)
      BY <1>1, <1>2, <1>3, <1>4, LinkIs
    <3>2. b[p] = Own(t, k) + b[k] + 1
      BY <1>7, <1>8
    <3>3. u.kid[a][z] = k
      BY <1>1, <1>3, <1>6, <2>4, <3>1
    <3> HIDE DEF k
    <3>4. b[k] \in Nat /\ Own(u, k) = Own(t, k) /\ d[k] = b[k] /\ Own(t, k) \in Nat
      BY <1>2, <1>7, <1>9, <1>10, <3>1
    <3>. QED BY <1>9, <1>11, <1>12, <2>4, <3>2, <3>3, <3>4
  <2>5. CASE z # p /\ z # w /\ t.kid[a][z] = p
    <3>1. u.kid[a][z] = w /\ d[z] = b[z] /\ gap(z, a) = 0
      BY <1>6, <1>8, <1>9, <2>5
    <3>2. b[z] = Own(t, p) + b[p] + gap(z, a)
      BY <1>7, <2>5
    <3>. QED BY <1>9, <1>10, <1>11, <3>1, <3>2
  <2>6. CASE z # p /\ z # w /\ t.kid[a][z] # p
    <3> DEFINE k == t.kid[a][z]
    <3>1. k # w /\ k # f /\ (k = Nil \/ k \in M)
      BY <1>3, <1>4, <2>6, LinkIs
    <3>2. u.kid[a][z] = k /\ d[z] = b[z] /\ gap(z, a) = 0
      BY <1>6, <1>8, <1>9, <2>6
    <3>3. b[z] = Own(t, k) + b[k] + gap(z, a)
      BY <1>7
    <3>4. k # p
      BY <2>6
    <3> HIDE DEF k
    <3>5. b[k] \in Nat /\ Own(u, k) = Own(t, k) /\ d[k] = b[k] /\ Own(t, k) \in Nat
      BY <1>2, <1>7, <1>9, <1>10, <3>1, <3>4
    <3>. QED BY <3>2, <3>3, <3>5
  <2>. QED BY <1>1, <2>0, <2>1, <2>2, <2>3, <2>4, <2>5, <2>6
<1>14. \A z \in M : z # Nil
  BY <1>2
<1>15. ASSUME NEW z \in M, NEW a \in Sides
       PROVE  d[z] = Own(u, u.kid[a][z]) + d[u.kid[a][z]] + (IF z = Nil /\ a = s THEN 1 ELSE 0)
  <2>1. u.kid[a][z] \in Nodes \cup {Nil}
    BY <1>2, <1>3, <1>5, <1>6, LinkIs
  <2>2. d[u.kid[a][z]] \in Nat /\ Own(u, u.kid[a][z]) \in Nat
    BY <1>9, <2>1 DEF Own
  <2>. QED BY <1>13, <1>14, <2>2
<1>16. Even(u, M, d, Nil, s)
  BY <1>9, <1>15 DEF Even
<1>. QED BY <1>16

-----------------------------------------------------------------------------
(* The inductive invariant.                                                 *)

\* No red node has a red kid, but for e as the kid or f as the parent.
Reds(t, M, e, f) ==
  \A z \in M, a \in Sides :
    z \in t.red /\ t.kid[a][z] \in t.red => t.kid[a][z] = e \/ z = f

NoReds(t, M) == \A z \in M, a \in Sides : ~(z \in t.red /\ t.kid[a][z] \in t.red)

\* The tree and what it says of the times that its nodes are due.
Base(t, D, M, N, ord) ==
  /\ t \in TreeType /\ Blank(t, M) /\ t.red \subseteq M
  /\ \E end : Shape(t, M, N, ord, end)
  /\ Keyed(t, M, D) /\ Ordered(M, ord, D)
  /\ t.insert = "timer" => Spread(D, M)

\* The node and the side that lack a black node in a deletion's loop at c.
GapNode(t, p, c) == IF p = "delete" /\ c # t.root THEN t.parent[c] ELSE Nil

\* What each of the loops may have disturbed.
Fits(t, p, c, M) ==
  CASE p = "idle"   -> c = Nil /\ NoReds(t, M) /\ t.root \notin t.red
    [] p = "insert" -> /\ c \in M /\ c \in t.red /\ Reds(t, M, c, Nil)
                       /\ t.root \in t.red => c = t.root
    [] p = "delete" -> /\ c \in M \cup {Nil} /\ Reds(t, M, c, c) /\ t.root \notin t.red
                       /\ c = Nil => /\ t.parent[Nil] \in M
                                     /\ \E s \in Sides : t.kid[s][t.parent[Nil]] = Nil

Sound(t, p, c, D, M, N, ord, b) ==
  /\ p \in {"idle", "insert", "delete"}
  /\ Base(t, D, M, N, ord) /\ Fits(t, p, c, M)
  /\ Even(t, M, b, GapNode(t, p, c), SideOf(t, c))

IInv == \E M, N, ord, b : Sound(tree, pc, at, due, M, N, ord, b)

\* The members' links and the colours may differ, the rest does not.
Reshaped(t, u, M) ==
  /\ u \in TreeType /\ u.red \subseteq M
  /\ u.key = t.key /\ u.str = t.str /\ u.insert = t.insert
  /\ \A z \in Nodes \ M : u.parent[z] = t.parent[z] /\ \A a \in Sides : u.kid[a][z] = t.kid[a][z]

LEMMA BlankIs ==
  ASSUME NEW u, NEW M, NEW N, NEW ord, NEW end, Shape(u, M, N, ord, end),
         \A n \in Nodes \ M : /\ \A s \in Sides : u.kid[s][n] = Null
                              /\ u.parent[n] = Null /\ u.key[n] = 0 /\ n \notin u.red
  PROVE  Blank(u, M)
<1>1. M \subseteq Nodes /\ Null \notin M
  BY ShapeFacts
<1>2. ASSUME NEW z \in M PROVE u.kid["left"][z] # Null
  <2>1. u.kid["left"][z] = Nil \/ u.kid["left"][z] \in M
    BY SideFacts, DownTo
  <2>. QED BY <1>1, <2>1, NilIsNone
<1>3. M = Members(u)
  BY <1>1, <1>2, SideFacts DEF Members
<1>. QED BY <1>3 DEF Blank

LEMMA BaseKept ==
  ASSUME NEW t, NEW D, NEW M, NEW N, NEW ord, Base(t, D, M, N, ord),
         NEW u, Reshaped(t, u, M), NEW e, Shape(u, M, N, ord, e)
  PROVE  Base(u, D, M, N, ord)
<1>1. Blank(u, M)
  <2>1. ASSUME NEW n \in Nodes \ M
        PROVE  /\ \A s \in Sides : u.kid[s][n] = Null
               /\ u.parent[n] = Null /\ u.key[n] = 0 /\ n \notin u.red
    BY DEF Base, Blank, Reshaped
  <2>. QED BY <2>1, BlankIs
<1>2. Keyed(u, M, D)
  BY DEF Base, Reshaped, Keyed
<1>. QED BY <1>1, <1>2 DEF Base, Reshaped

LEMMA RecolouredReshapes ==
  ASSUME NEW t, NEW M, NEW R, R \subseteq M, NEW u, Recoloured(t, u, R)
  PROVE  Reshaped(t, u, M)
BY DEF Recoloured, Reshaped

LEMMA RotatedReshapes ==
  ASSUME NEW t, NEW M, NEW N, NEW ord, NEW end, Shape(t, M, N, ord, end), t.red \subseteq M,
         NEW x \in M, NEW s \in Sides, NEW y, t.kid[Other(s)][x] = y, y # Nil,
         NEW u, Rotated(t, u, M, x, y, s)
  PROVE  Reshaped(t, u, M)
<1>1. M \subseteq Nodes /\ Other(s) \in Sides
  BY ShapeFacts, SideFacts
<1>2. y \in M
  BY <1>1, LinkIs
<1>3. t.kid[s][y] = Nil \/ t.kid[s][y] \in M
  BY <1>2, LinkIs
<1>4. ASSUME NEW z \in Nodes \ M
      PROVE  u.parent[z] = t.parent[z] /\ \A a \in Sides : u.kid[a][z] = t.kid[a][z]
  BY <1>2, <1>3 DEF Rotated
<1>. QED BY <1>4 DEF Rotated, Reshaped

LEMMA ReshapedTwice ==
  ASSUME NEW t, NEW u, NEW v, NEW M, Reshaped(t, u, M), Reshaped(u, v, M)
  PROVE  Reshaped(t, v, M)
BY DEF Reshaped

\* A tree painted anew and rotated.
LEMMA PaintAndRotate ==
  ASSUME NEW t \in TreeType, NEW M, NEW N, NEW ord, NEW end, Shape(t, M, N, ord, end),
         NEW x \in M, NEW s \in Sides, NEW y, t.kid[Other(s)][x] = y, y # Nil,
         NEW R, R \subseteq M, NEW v, Recoloured(t, v, R)
  PROVE  /\ Rotated(v, Rotate(v, x, s), M, x, y, s)
         /\ Reshaped(t, Rotate(v, x, s), M)
         /\ \E e : Shape(Rotate(v, x, s), M, N, ord, e)
<1>1. SameLinks(t, v, M)
  BY DEF SameLinks, Recoloured
<1>2. Shape(v, M, N, ord, end)
  BY <1>1, SameLinksShape
<1>3. v \in TreeType /\ v.kid = t.kid /\ v.red = R
  BY DEF Recoloured
<1>4. Rotated(v, Rotate(v, x, s), M, x, y, s)
  BY <1>2, <1>3, RotateIs
<1>5. \E e : Shape(Rotate(v, x, s), M, N, ord, e)
  BY <1>2, <1>3, <1>4, RotateKeepsShape
<1>6. Reshaped(v, Rotate(v, x, s), M)
  BY <1>2, <1>3, <1>4, RotatedReshapes
<1>7. Reshaped(t, v, M)
  BY RecolouredReshapes
<1>. QED BY <1>4, <1>5, <1>6, <1>7, ReshapedTwice

-----------------------------------------------------------------------------
(* The loop of an insertion.                                                *)

\* What a step of a loop at c leaves to the next.
Kept(t, M, N, ord, u) == Reshaped(t, u, M) /\ \E e : Shape(u, M, N, ord, e)

LEMMA KeptIsSound ==
  ASSUME NEW t, NEW D, NEW M, NEW N, NEW ord, Base(t, D, M, N, ord),
         NEW u, Kept(t, M, N, ord, u), NEW p \in {"idle", "insert", "delete"}, NEW c,
         Fits(u, p, c, M), NEW b, Even(u, M, b, GapNode(u, p, c), SideOf(u, c))
  PROVE  Sound(u, p, c, D, M, N, ord, b)
BY BaseKept DEF Kept, Sound

\* Without a gap its side does not matter.
LEMMA NoGap ==
  ASSUME NEW t, NEW M, Nil \notin M, NEW b, NEW r, Even(t, M, b, Nil, r), NEW s
  PROVE  Even(t, M, b, Nil, s)
BY DEF Even

\* Case A: the grandparent g gives its black to its two red kids.
LEMMA PushRed ==
  ASSUME NEW t \in TreeType, NEW M, NEW N, NEW ord, NEW end, Shape(t, M, N, ord, end),
         NEW b, NEW r, Even(t, M, b, Nil, r),
         NEW g \in M, g \notin t.red, \A a \in Sides : t.kid[a][g] # Nil /\ t.kid[a][g] \in t.red,
         NEW u, Recoloured(t, u, (t.red \ {t.kid["left"][g], t.kid["right"][g]}) \cup {g})
  PROVE  \E d : Even(u, M, d, Nil, r)
<1> DEFINE d == [z \in Nodes \cup {Nil} |-> IF z = g THEN b[g] + 1 ELSE b[z]]
           K == {t.kid["left"][g], t.kid["right"][g]}
<1>1. M \subseteq Nodes /\ Nil \notin M
  BY ShapeFacts
<1>2. /\ b \in [Nodes \cup {Nil} -> Nat] /\ b[Nil] = 0
      /\ \A z \in M, a \in Sides : b[z] = Own(t, t.kid[a][z]) + b[t.kid[a][z]]
  <2>1. \A z \in M, a \in Sides :
          b[z] = Own(t, t.kid[a][z]) + b[t.kid[a][z]] + (IF z = Nil /\ a = r THEN 1 ELSE 0)
    BY DEF Even
  <2>2. b \in [Nodes \cup {Nil} -> Nat] /\ b[Nil] = 0
    BY DEF Even
  <2>3. ASSUME NEW z \in M, NEW a \in Sides PROVE b[z] = Own(t, t.kid[a][z]) + b[t.kid[a][z]]
    <3>1. t.kid[a][z] \in Nodes \cup {Nil}
      BY <1>1, LinkIs
    <3>2. Own(t, t.kid[a][z]) \in Nat /\ b[t.kid[a][z]] \in Nat
      BY <2>2, <3>1 DEF Own
    <3>. QED BY <1>1, <2>1, <3>2
  <2>. QED BY <2>2, <2>3
<1>3. d \in [Nodes \cup {Nil} -> Nat] /\ d[Nil] = 0 /\ d[g] = b[g] + 1
      /\ \A z \in Nodes \cup {Nil} : z # g => d[z] = b[z]
  BY <1>1, <1>2
<1> HIDE DEF d
<1>4. u.kid = t.kid /\ u.red = (t.red \ K) \cup {g}
  BY DEF Recoloured
<1>5. ASSUME NEW z \in M, NEW a \in Sides
      PROVE  d[z] = Own(u, u.kid[a][z]) + d[u.kid[a][z]]
  <2> DEFINE k == t.kid[a][z]
  <2>0. b[z] = Own(t, k) + b[k] /\ k \in M \cup {Nil} /\ k # z
    BY <1>1, <1>2, LinkIs
  <2>1. CASE z = g
    <3>1. k \in K /\ k # Nil /\ k \in t.red
      BY <2>1, SideFacts
    <3>. HIDE DEF k, K
    <3>2. Own(t, k) = 0 /\ Own(u, k) = 1 /\ d[k] = b[k]
      BY <1>1, <1>3, <1>4, <2>0, <2>1, <3>1 DEF Own
    <3>3. b[k] \in Nat
      BY <1>1, <1>2, <2>0
    <3>. QED BY <1>3, <1>4, <2>0, <2>1, <3>2, <3>3 DEF k
  <2>2. CASE z # g /\ k = g
    <3>1. Own(t, k) = 1 /\ Own(u, k) = 0
      BY <1>1, <1>4, <2>2 DEF Own
    <3>. HIDE DEF k, K
    <3>2. b[g] \in Nat
      BY <1>1, <1>2
    <3>. QED BY <1>1, <1>3, <1>4, <2>0, <2>2, <3>1, <3>2 DEF k
  <2>3. CASE z # g /\ k # g
    <3>1. k \notin K
      BY <1>1, <2>0, <2>3, LinkIs, SideFacts
    <3>. HIDE DEF k, K
    <3>2. Own(u, k) = Own(t, k)
      BY <1>4, <2>3, <3>1 DEF Own
    <3>. QED BY <1>1, <1>3, <1>4, <2>0, <2>3, <3>2 DEF k
  <2>. QED BY <2>1, <2>2, <2>3
<1>6. ASSUME NEW z \in M, NEW a \in Sides
      PROVE  d[z] = Own(u, u.kid[a][z]) + d[u.kid[a][z]] + (IF z = Nil /\ a = r THEN 1 ELSE 0)
  <2>1. u.kid[a][z] \in Nodes \cup {Nil}
    BY <1>1, <1>4, LinkIs
  <2>2. Own(u, u.kid[a][z]) \in Nat /\ d[u.kid[a][z]] \in Nat
    BY <1>3, <2>1 DEF Own
  <2>. QED BY <1>1, <1>5, <2>2
<1>. QED BY <1>3, <1>6 DEF Even

\* Case B: p, red on the outer side s of g as its own red kid c on its outer
\* side is, rises over g.
LEMMA RaiseOuter ==
  ASSUME NEW t \in TreeType, NEW M, NEW N, NEW ord, NEW end, Shape(t, M, N, ord, end),
         t.red \subseteq M, t.root \notin t.red,
         NEW b, NEW r, Even(t, M, b, Nil, r),
         NEW g \in M, g \notin t.red, NEW s \in Sides, NEW o, Other(s) = o,
         NEW p, t.kid[s][g] = p, p # Nil, p \in t.red,
         NEW c, t.kid[s][p] = c, c \in t.red, t.kid[o][g] \notin t.red,
         Reds(t, M, c, Nil),
         NEW u, Rotate(Paint(t, {p}, {g}), g, o) = u
  PROVE  /\ Kept(t, M, N, ord, u) /\ Even(u, M, b, Nil, r) /\ NoReds(u, M)
         /\ u.root \notin u.red /\ c \in u.red
<1> DEFINE R == (t.red \ {p}) \cup {g}
           v == Paint(t, {p}, {g})
<1>1. M \subseteq Nodes /\ Nil \notin M /\ o \in Sides /\ o # s /\ Other(o) = s
  BY ShapeFacts, SideFacts
<1>2. Recoloured(t, v, R)
  BY <1>1, PaintIs
<1>3. /\ p \in M /\ p # g /\ \A a \in Sides : t.kid[a][p] # g
      /\ \A z \in M, a \in Sides : t.kid[a][z] = p => z = g /\ a = s
  BY LinkIs
<1>4. R \subseteq M /\ g \in R /\ p \notin R
  BY <1>3
<1>5. c # Nil /\ c # g /\ c # p /\ \A z \in M, a \in Sides : t.kid[a][z] = c => z = p /\ a = s
  <2>1. c # Nil
    BY <1>1
  <2>. QED BY <1>3, <2>1, LinkIs
<1> HIDE DEF v, R
<1>6. /\ Rotated(v, Rotate(v, g, o), M, g, p, o)
      /\ Reshaped(t, Rotate(v, g, o), M)
      /\ \E e : Shape(Rotate(v, g, o), M, N, ord, e)
  BY <1>1, <1>2, <1>4, PaintAndRotate
<1>7. u = Rotate(v, g, o)
  BY DEF v
<1>8. Rotated(v, u, M, g, p, o) /\ Kept(t, M, N, ord, u)
  BY <1>6, <1>7 DEF Kept
<1>9. \A z \in M \ {g, p} : z \in R <=> z \in t.red
  BY DEF R
<1>10. Even(u, M, b, Nil, r)
  BY <1>1, <1>2, <1>3, <1>4, <1>8, <1>9, RiseIsEven
<1>11. /\ u.red = R /\ u.root = IF g = t.root THEN p ELSE t.root
       /\ \A z \in M, a \in Sides :
            u.kid[a][z] = IF z = g /\ a = s THEN t.kid[o][p]
                          ELSE IF z = p /\ a = o THEN g
                          ELSE IF t.kid[a][z] = g THEN p ELSE t.kid[a][z]
  <2>1. v.kid = t.kid /\ v.root = t.root /\ v.red = R
    BY <1>2 DEF Recoloured
  <2>2. /\ u.red = v.red /\ u.root = IF g = v.root THEN p ELSE v.root
        /\ \A z \in M, a \in Sides :
             u.kid[a][z] = IF z = g /\ a = Other(o) THEN v.kid[o][p]
                           ELSE IF z = p /\ a = o THEN g
                           ELSE IF v.kid[a][z] = g THEN p ELSE v.kid[a][z]
    BY <1>8 DEF Rotated
  <2>3. \A a : a = s <=> a = Other(o)
    BY <1>1
  <2>4. ASSUME NEW z \in M, NEW a \in Sides
        PROVE  u.kid[a][z] = IF z = g /\ a = s THEN t.kid[o][p]
                             ELSE IF z = p /\ a = o THEN g
                             ELSE IF t.kid[a][z] = g THEN p ELSE t.kid[a][z]
    <3>1. u.kid[a][z] = IF z = g /\ a = Other(o) THEN v.kid[o][p]
                           ELSE IF z = p /\ a = o THEN g
                           ELSE IF v.kid[a][z] = g THEN p ELSE v.kid[a][z]
      BY <2>2
    <3>2. CASE z = g /\ a = s
      <4>1. u.kid[a][z] = v.kid[o][p]
        BY <2>3, <3>1, <3>2
      <4>2. u.kid[a][z] = t.kid[o][p]
        BY <4>1, <2>1
      <4>. QED BY <4>2, <3>2
    <3>3. CASE ~(z = g /\ a = s) /\ z = p /\ a = o
      BY <2>1, <2>3, <3>1, <3>3
    <3>4. CASE ~(z = g /\ a = s) /\ ~(z = p /\ a = o)
      BY <2>1, <2>3, <3>1, <3>4
    <3>. QED BY <3>2, <3>3, <3>4
  <2>5. u.red = R /\ u.root = IF g = t.root THEN p ELSE t.root
    BY <2>1, <2>2
  <2>. QED BY <2>4, <2>5
<1>12. ASSUME NEW z \in M, NEW a \in Sides, z \in R, u.kid[a][z] \in R PROVE FALSE
  <2>0. z # p
    BY <1>4, <1>12
  <2>1. CASE z = g /\ a = s
    <3>1. t.kid[o][p] \in R
      BY <1>11, <1>12, <2>1
    <3>2. t.kid[o][p] \in t.red
      BY <1>1, <1>3, <3>1 DEF R
    <3>3. t.kid[o][p] = c
      BY <1>1, <1>3, <3>2 DEF Reds
    <3>. QED BY <1>1, <1>3, <1>5, <3>3
  <2>2. CASE z = g /\ a # s
    <3>1. a = o
      BY <1>1, <2>2, SideFacts
    <3>2. t.kid[o][g] \in R \/ p \in R
      BY <1>3, <1>11, <1>12, <2>2, <3>1
    <3>3. t.kid[o][g] # g
      BY <1>1, LinkIs
    <3>. QED BY <1>4, <3>2, <3>3 DEF R
  <2>3. CASE z # g
    <3>1. z \in t.red
      BY <1>12, <2>3 DEF R
    <3>2. t.kid[a][z] # g /\ t.kid[a][z] \in R
      BY <1>4, <1>11, <1>12, <2>0, <2>3
    <3>3. t.kid[a][z] \in t.red
      BY <3>2 DEF R
    <3>4. t.kid[a][z] = c
      BY <1>1, <3>1, <3>3 DEF Reds
    <3>. QED BY <1>5, <2>0, <3>4
  <2>. QED BY <2>1, <2>2, <2>3
<1>13. NoReds(u, M)
  BY <1>11, <1>12 DEF NoReds
<1>14. u.root \notin R
  BY <1>4, <1>11 DEF R
<1>15. c \in R
  BY <1>5 DEF R
<1>. QED BY <1>8, <1>10, <1>11, <1>13, <1>14, <1>15

\* Two red nodes and the links around them.
RedPair(t, M, c, p, g, s, q) ==
  /\ c \in M /\ p \in M /\ g \in M /\ s \in Sides /\ c # p /\ p # t.root
  /\ c \in t.red /\ p \in t.red /\ g \notin t.red /\ t.root \notin t.red
  /\ t.kid[s][g] = p /\ q \in Sides /\ t.kid[q][p] = c /\ t.kid[Other(q)][p] # c
  /\ SideOf(t, p) = s /\ p # g

LEMMA RedPairIs ==
  ASSUME NEW t, NEW M, NEW N, NEW ord, NEW end, Shape(t, M, N, ord, end), t.red \subseteq M,
         NEW c, Fits(t, "insert", c, M), TwoReds(t, c)
  PROVE  RedPair(t, M, c, t.parent[c], t.parent[t.parent[c]],
                 SideOf(t, t.parent[c]), SideOf(t, c))
<1> DEFINE p == t.parent[c]
           g == t.parent[p]
           s == SideOf(t, p)
<1>1. /\ c \in M /\ c \in t.red /\ Reds(t, M, c, Nil) /\ (t.root \in t.red => c = t.root)
      /\ c # t.root /\ p \in t.red
  BY DEF Fits, TwoReds
<1>2. /\ p \in M /\ p # c /\ SideOf(t, c) \in Sides /\ t.kid[SideOf(t, c)][p] = c
      /\ t.kid[Other(SideOf(t, c))][p] # c
  BY <1>1, UpTo
<1>3. t.root \notin t.red /\ p # t.root
  BY <1>1
<1>4. g \in M /\ p # g /\ s \in Sides /\ t.kid[s][g] = p
  BY <1>2, <1>3, UpTo
<1>5. g \notin t.red
  BY <1>1, <1>2, <1>4, ShapeFacts DEF Reds
<1>. QED BY <1>1, <1>2, <1>3, <1>4, <1>5 DEF RedPair

\* An inner node c rises over its parent p, and p is the outer one.
LEMMA RaiseInner ==
  ASSUME NEW t \in TreeType, NEW M, NEW N, NEW ord, NEW end, Shape(t, M, N, ord, end),
         t.red \subseteq M, NEW b, NEW r, Even(t, M, b, Nil, r),
         NEW c, NEW p, NEW g, NEW s, NEW o, o = Other(s), RedPair(t, M, c, p, g, s, o),
         t.kid[o][g] \notin t.red, Reds(t, M, c, Nil),
         NEW u, u = Rotate(t, p, s)
  PROVE  /\ u \in TreeType /\ Kept(t, M, N, ord, u) /\ Even(u, M, b, Nil, r)
         /\ Reds(u, M, p, Nil) /\ u.red = t.red /\ u.root = t.root
         /\ u.kid[s][g] = c /\ u.kid[s][c] = p /\ u.kid[o][g] = t.kid[o][g]
<1>1. M \subseteq Nodes /\ Nil \notin M /\ o \in Sides /\ o # s /\ s \in Sides
  BY ShapeFacts, SideFacts DEF RedPair
<1>2. /\ c \in M /\ p \in M /\ g \in M /\ c # p /\ p # t.root /\ p # g
      /\ c \in t.red /\ p \in t.red /\ g \notin t.red
      /\ t.kid[s][g] = p /\ t.kid[o][p] = c
  BY DEF RedPair
<1>3. c # Nil /\ p # Nil
  BY <1>1, <1>2
<1>4. Recoloured(t, t, t.red)
  BY DEF Recoloured
<1>5. /\ Rotated(t, u, M, p, c, s) /\ Reshaped(t, u, M) /\ \E e : Shape(u, M, N, ord, e)
  BY <1>1, <1>2, <1>3, <1>4, PaintAndRotate
<1>6. Even(u, M, b, Nil, r)
  BY <1>1, <1>2, <1>3, <1>4, <1>5, RiseIsEven
<1>7. /\ u \in TreeType /\ u.red = t.red /\ u.root = t.root
      /\ \A z \in M, a \in Sides :
            u.kid[a][z] = IF z = p /\ a = o THEN t.kid[s][c]
                          ELSE IF z = c /\ a = s THEN p
                          ELSE IF t.kid[a][z] = p THEN c ELSE t.kid[a][z]
  BY <1>2, <1>5 DEF Rotated
<1>8. \A z \in M, a \in Sides : t.kid[a][z] = c => z = p /\ a = o
  BY <1>1, <1>2, <1>3, LinkIs
<1>9. /\ \A z \in M, a \in Sides : t.kid[a][z] = p => z = g /\ a = s
      /\ \A a \in Sides : t.kid[a][p] # g
  BY <1>1, <1>2, <1>3, LinkIs
<1>10. c # g
  BY <1>2
<1>11. ASSUME NEW z \in M, NEW a \in Sides, z \in u.red, u.kid[a][z] \in u.red
       PROVE  u.kid[a][z] = p
  <2>1. CASE z = p /\ a = o
    <3>1. t.kid[s][c] \in t.red /\ t.kid[s][c] # c
      BY <1>1, <1>2, <1>7, <1>11, <2>1, LinkIs
    <3>. QED BY <1>1, <1>2, <3>1 DEF Reds
  <2>2. CASE z = c /\ a = s
    BY <1>2, <1>7, <2>2
  <2>3. CASE ~(z = p /\ a = o) /\ ~(z = c /\ a = s) /\ t.kid[a][z] = p
    BY <1>2, <1>7, <1>9, <1>11, <2>3
  <2>4. CASE ~(z = p /\ a = o) /\ ~(z = c /\ a = s) /\ t.kid[a][z] # p
    <3>1. z \in t.red /\ t.kid[a][z] \in t.red
      BY <1>7, <1>11, <2>4
    <3>2. t.kid[a][z] = c
      BY <1>1, <3>1 DEF Reds
    <3>. QED BY <1>8, <2>4, <3>2
  <2>. QED BY <2>1, <2>2, <2>3, <2>4
<1>12. Reds(u, M, p, Nil)
  BY <1>11 DEF Reds
<1>13. t.kid[o][g] # p
  BY <1>1, <1>2, <1>9
<1>14. u.kid[s][g] = c /\ u.kid[s][c] = p /\ u.kid[o][g] = t.kid[o][g]
  BY <1>1, <1>2, <1>7, <1>10, <1>13
<1>. QED BY <1>5, <1>6, <1>7, <1>12, <1>14 DEF Kept

LEMMA KeptTwice ==
  ASSUME NEW t, NEW u, NEW v, NEW M, NEW N, NEW ord, Kept(t, M, N, ord, u), Kept(u, M, N, ord, v)
  PROVE  Kept(t, M, N, ord, v)
BY ReshapedTwice DEF Kept

LEMMA RaiseParentIs ==
  ASSUME NEW t \in TreeType, NEW M, NEW N, NEW ord, NEW end, Shape(t, M, N, ord, end),
         t.red \subseteq M, NEW b, NEW r, Even(t, M, b, Nil, r),
         NEW c, Fits(t, "insert", c, M), TwoReds(t, c),
         t.kid[Other(SideOf(t, t.parent[c]))][t.parent[t.parent[c]]] \notin t.red,
         NEW u, u = RaiseParent(t, c),
         NEW d, d = IF c = t.kid[Other(SideOf(t, t.parent[c]))][t.parent[c]]
                    THEN t.parent[c] ELSE c
  PROVE  /\ Kept(t, M, N, ord, u) /\ Even(u, M, b, Nil, r) /\ NoReds(u, M)
         /\ u.root \notin u.red /\ d \in u.red
<1> DEFINE p == t.parent[c]
           g == t.parent[p]
           s == SideOf(t, p)
           o == Other(s)
<1>1. RedPair(t, M, c, p, g, s, SideOf(t, c)) /\ Reds(t, M, c, Nil)
  BY RedPairIs DEF Fits
<1>2. t.kid[o][g] \notin t.red
  OBVIOUS
<1>3. CASE c = t.kid[o][p]
  <2> DEFINE q == Rotate(t, p, s)
             h == q.parent[c]
  <2>1. u = Rotate(Paint(q, {c}, {h}), h, o) /\ d = p
    BY <1>3 DEF RaiseParent
  <2>2. RedPair(t, M, c, p, g, s, o)
    BY <1>1, <1>3, SideFacts DEF RedPair
  <2> HIDE DEF p, g, s, o, q, h
  <2>3. s \in Sides /\ g \in M /\ g \notin t.red /\ t.root \notin t.red /\ c \in t.red /\ p \in t.red
    BY <2>2 DEF RedPair
  <2>4. /\ q \in TreeType /\ Kept(t, M, N, ord, q) /\ Even(q, M, b, Nil, r)
        /\ Reds(q, M, p, Nil) /\ q.red = t.red /\ q.root = t.root
        /\ q.kid[s][g] = c /\ q.kid[s][c] = p /\ q.kid[o][g] = t.kid[o][g]
    BY <1>1, <1>2, <2>2, RaiseInner DEF o, q
  <2>5. PICK e : Shape(q, M, N, ord, e)
    BY <2>4 DEF Kept
  <2>6. c # Nil
    BY <2>3, ShapeFacts
  <2>7. h = g
    BY <2>3, <2>4, <2>5, <2>6, KidIs DEF h
  <2>8. u = Rotate(Paint(q, {c}, {g}), g, o)
    BY <2>1, <2>7
  <2>9. /\ Kept(q, M, N, ord, u) /\ Even(u, M, b, Nil, r) /\ NoReds(u, M)
        /\ u.root \notin u.red /\ p \in u.red
    <3>1. o = Other(s)
      BY DEF o
    <3>. QED BY <1>2, <2>3, <2>4, <2>5, <2>6, <2>8, <3>1, RaiseOuter
  <2>. QED BY <2>1, <2>4, <2>9, KeptTwice
<1>4. CASE c # t.kid[o][p]
  <2>1. u = Rotate(Paint(t, {p}, {g}), g, o) /\ d = c
    BY <1>4 DEF RaiseParent
  <2>2. /\ s \in Sides /\ g \in M /\ g \notin t.red /\ t.root \notin t.red /\ c \in t.red
        /\ p \in t.red /\ p \in M /\ t.kid[s][g] = p /\ t.kid[s][p] = c
    <3>1. SideOf(t, c) = s
      BY <1>1, <1>4, SideFacts DEF RedPair
    <3>. QED BY <1>1, <3>1 DEF RedPair
  <2> HIDE DEF p, g, s, o
  <2>3. p # Nil
    BY <2>2, ShapeFacts
  <2>4. o = Other(s)
    BY DEF o
  <2>5. u = Rotate(Paint(t, {p}, {g}), g, o)
    BY <2>1
  <2>6. /\ Kept(t, M, N, ord, u) /\ Even(u, M, b, Nil, r) /\ NoReds(u, M)
        /\ u.root \notin u.red /\ c \in u.red
    BY <1>1, <1>2, <2>2, <2>3, <2>4, <2>5, RaiseOuter
  <2>. QED BY <2>1, <2>6
<1>. QED BY <1>3, <1>4

\* A red uncle q of c: the loop goes on at g.
LEMMA RedUncleIsSound ==
  ASSUME NEW t, NEW D, NEW M, NEW N, NEW ord, Base(t, D, M, N, ord),
         NEW end, Shape(t, M, N, ord, end),
         NEW b, NEW r, Even(t, M, b, Nil, r),
         NEW c, NEW p, NEW g, NEW s, NEW a0, RedPair(t, M, c, p, g, s, a0), Reds(t, M, c, Nil),
         NEW o, Other(s) = o, NEW q, t.kid[o][g] = q, q \in t.red,
         NEW u, Paint(t, {p, q}, {g}) = u
  PROVE  \E e : Sound(u, "insert", g, D, M, N, ord, e)
<1> DEFINE R == (t.red \ {p, q}) \cup {g}
<1>0. M \subseteq Nodes /\ Nil \notin M
  BY ShapeFacts
<1>1. t \in TreeType /\ t.red \subseteq M
  BY DEF Base
<1>2. /\ c \in M /\ p \in M /\ g \in M /\ s \in Sides /\ c # p /\ p # g
      /\ p \in t.red /\ g \notin t.red /\ t.root \notin t.red /\ t.kid[s][g] = p
      /\ \A z \in M, a \in Sides : t.kid[a][z] = c => z = p
  <2>1. a0 \in Sides /\ t.kid[a0][p] = c /\ c \in M /\ p \in M
    BY DEF RedPair
  <2>2. \A z \in M, a \in Sides : t.kid[a][z] = c => z = p
    BY <1>0, <2>1, LinkIs
  <2>. QED BY <2>2 DEF RedPair
<1>3. q \in M
  BY <1>1
<1>4. {p, q} = {t.kid["left"][g], t.kid["right"][g]}
  <2>1. (s = "left" /\ o = "right") \/ (s = "right" /\ o = "left")
    BY <1>2, SideFacts
  <2>2. t.kid[s][g] = p /\ t.kid[o][g] = q
    BY <1>2
  <2>3. CASE s = "left" /\ o = "right"
    BY <2>2, <2>3
  <2>4. CASE s = "right" /\ o = "left"
    BY <2>2, <2>4
  <2>. QED BY <2>1, <2>3, <2>4
<1>5. \A a \in Sides : t.kid[a][g] # Nil /\ t.kid[a][g] \in t.red
  <2>1. ASSUME NEW a \in Sides PROVE t.kid[a][g] \in {p, q}
    BY <1>4, <2>1, SideFacts
  <2>2. p # Nil /\ q # Nil /\ p \in t.red
    BY <1>0, <1>1, <1>2
  <2>. QED BY <2>1, <2>2
<1>6. Recoloured(t, u, R)
  <2>1. {g} \in SUBSET (Nodes \cup {Nil})
    BY <1>0, <1>2
  <2>2. Recoloured(t, Paint(t, {p, q}, {g}), R)
    BY <1>1, <2>1, PaintIs
  <2>. QED BY <2>2
<1>7. PICK e : Even(u, M, e, Nil, r)
  BY <1>1, <1>2, <1>4, <1>5, <1>6, PushRed
<1>8. R \subseteq M
  BY <1>1, <1>2
<1>9. Kept(t, M, N, ord, u)
  <2>1. SameLinks(t, u, M)
    BY <1>6 DEF SameLinks, Recoloured
  <2>2. Shape(u, M, N, ord, end)
    BY <2>1, SameLinksShape
  <2>. QED BY <1>6, <1>8, <2>2, RecolouredReshapes DEF Kept
<1> HIDE DEF R
<1>10. u.kid = t.kid /\ u.red = R /\ u.root = t.root
  BY <1>6 DEF Recoloured
<1>11. ASSUME NEW z \in M, NEW a \in Sides, z \in R, t.kid[a][z] \in R, t.kid[a][z] # g
       PROVE  FALSE
  <2>1. t.kid[a][z] \in t.red /\ t.kid[a][z] \notin {p, q}
    BY <1>11 DEF R
  <2>2. z # g
    BY <1>4, <2>1, SideFacts
  <2>3. z \in t.red /\ z # p
    BY <1>11, <1>2, <2>2 DEF R
  <2>. QED BY <1>0, <1>2, <2>1, <2>3 DEF Reds
<1>12. Reds(u, M, g, Nil)
  <2>1. ASSUME NEW z \in M, NEW a \in Sides, z \in u.red, u.kid[a][z] \in u.red
        PROVE  u.kid[a][z] = g
    <3>1. z \in R /\ t.kid[a][z] \in R /\ u.kid[a][z] = t.kid[a][z]
      BY <1>10, <2>1
    <3>. QED BY <1>11, <3>1
  <2>. QED BY <2>1 DEF Reds
<1>13. Fits(u, "insert", g, M)
  BY <1>2, <1>10, <1>12 DEF Fits, R
<1>14. GapNode(u, "insert", g) = Nil
  BY DEF GapNode
<1>15. Even(u, M, e, GapNode(u, "insert", g), SideOf(u, g))
  BY <1>0, <1>7, <1>14, NoGap
<1>. QED BY <1>1, <1>9, <1>13, <1>15, KeptIsSound

\* What the loop of an insertion does at a red c with the red parent p, the
\* grandparent g, and an uncle to g's side o.
Elders(t, c, p, g, o) == t.parent[c] = p /\ t.parent[p] = g /\ Other(SideOf(t, p)) = o

InsertFixed(t, c, p, g, o, u, d) ==
  IF t.kid[o][g] \in t.red THEN Paint(t, {p, t.kid[o][g]}, {g}) = u /\ d = g
  ELSE RaiseParent(t, c) = u /\ d = IF c = t.kid[o][p] THEN p ELSE c

LEMMA InsertFixupIsSound ==
  ASSUME NEW t, NEW D, NEW M, NEW N, NEW ord, NEW b, NEW c,
         Sound(t, "insert", c, D, M, N, ord, b), TwoReds(t, c),
         NEW p, NEW g, NEW o, Elders(t, c, p, g, o), NEW u, NEW d,
         InsertFixed(t, c, p, g, o, u, d)
  PROVE  \E e : Sound(u, "insert", d, D, M, N, ord, e)
<1> DEFINE s == SideOf(t, p)
           q == t.kid[o][g]
<1>1. /\ Base(t, D, M, N, ord) /\ Fits(t, "insert", c, M) /\ Even(t, M, b, Nil, SideOf(t, c))
      /\ t \in TreeType /\ t.red \subseteq M
  BY DEF Sound, Base, GapNode
<1>2. PICK end : Shape(t, M, N, ord, end)
  BY <1>1 DEF Base
<1>3. RedPair(t, M, c, p, g, s, SideOf(t, c)) /\ Reds(t, M, c, Nil) /\ Other(s) = o
  <2>1. RedPair(t, M, c, t.parent[c], t.parent[t.parent[c]], SideOf(t, t.parent[c]), SideOf(t, c))
    BY <1>1, <1>2, RedPairIs
  <2>. QED BY <1>1, <2>1 DEF Elders, Fits
<1> HIDE DEF s, q
<1>4. CASE q \in t.red
  <2>1. Paint(t, {p, q}, {g}) = u /\ d = g
    BY <1>4 DEF InsertFixed, q
  <2>2. t.kid[o][g] = q
    BY DEF q
  <2>3. \E e : Sound(u, "insert", g, D, M, N, ord, e)
    BY <1>1, <1>2, <1>3, <1>4, <2>1, <2>2, RedUncleIsSound
  <2>. QED BY <2>1, <2>3
<1>5. CASE q \notin t.red
  <2>1. u = RaiseParent(t, c) /\ d = IF c = t.kid[o][p] THEN p ELSE c
    BY <1>5 DEF InsertFixed, q
  <2>2. /\ t.kid[Other(SideOf(t, t.parent[c]))][t.parent[t.parent[c]]] \notin t.red
        /\ d = IF c = t.kid[Other(SideOf(t, t.parent[c]))][t.parent[c]] THEN t.parent[c] ELSE c
    <3>1. t.parent[c] = p /\ t.parent[p] = g /\ Other(SideOf(t, p)) = o
      BY DEF Elders
    <3>2. t.kid[o][g] \notin t.red
      BY <1>5, Zenon DEF q
    <3>. QED BY <2>1, <3>1, <3>2, Zenon
  <2>3. /\ Kept(t, M, N, ord, u) /\ Even(u, M, b, Nil, SideOf(t, c)) /\ NoReds(u, M)
        /\ u.root \notin u.red /\ d \in u.red
    BY <1>1, <1>2, <2>1, <2>2, RaiseParentIs
  <2>4. d \in M
    BY <1>3, <2>1 DEF RedPair
  <2>5. Fits(u, "insert", d, M)
    BY <2>3, <2>4 DEF Fits, NoReds, Reds
  <2>6. GapNode(u, "insert", d) = Nil
    BY DEF GapNode
  <2>7. M \subseteq Nodes /\ Nil \notin M
    BY <1>2, ShapeFacts
  <2>8. Even(u, M, b, GapNode(u, "insert", d), SideOf(u, d))
    BY <2>3, <2>6, <2>7, NoGap
  <2>. QED BY <1>1, <2>3, <2>5, <2>8, KeptIsSound
<1>. QED BY <1>4, <1>5

-----------------------------------------------------------------------------
(* Both loops end by painting a node black.                                 *)

Darker(t, u, M, N, ord, c) ==
  Kept(t, M, N, ord, u) /\ u.red = t.red \ {c} /\ u.kid = t.kid /\ u.root = t.root

LEMMA BlackenIs ==
  ASSUME NEW t \in TreeType, NEW M, NEW N, NEW ord, NEW end, Shape(t, M, N, ord, end),
         t.red \subseteq M, NEW c
  PROVE  Darker(t, Returned(Paint(t, {c}, {})), M, N, ord, c)
<1> DEFINE u == Returned(Paint(t, {c}, {}))
           v == Paint(t, {c}, {})
<1>1. Recoloured(t, v, t.red \ {c})
  <2>1. Recoloured(t, v, (t.red \ {c}) \cup {})
    BY PaintIs
  <2>2. (t.red \ {c}) \cup {} = t.red \ {c}
    OBVIOUS
  <2>. QED BY <2>1, <2>2
<1>2. u = Returned(v)
  OBVIOUS
<1> HIDE DEF v, u
<1>3. v \in TreeType
  BY <1>1 DEF Recoloured
<1>4. Forgotten(v, u)
  BY <1>2, <1>3, ReturnedIs
<1>5. M \subseteq Nodes
  BY ShapeFacts
<1>6. /\ u \in TreeType /\ u.red = t.red \ {c} /\ u.root = t.root /\ u.kid = t.kid
      /\ \A z \in Nodes : u.parent[z] = t.parent[z]
      /\ u.key = t.key /\ u.str = t.str /\ u.insert = t.insert
  BY <1>1, <1>4 DEF Forgotten, Recoloured
<1>7. SameLinks(t, u, M)
  BY <1>5, <1>6 DEF SameLinks
<1>8. Shape(u, M, N, ord, end)
  BY <1>7, SameLinksShape
<1>9. Reshaped(t, u, M)
  BY <1>6 DEF Reshaped
<1>10. Darker(t, u, M, N, ord, c)
  BY <1>6, <1>8, <1>9 DEF Kept, Darker
<1>. QED BY <1>10 DEF u

LEMMA SameOwn ==
  ASSUME NEW t, NEW u, NEW M, NEW b, NEW p, NEW s, Even(t, M, b, p, s), u.kid = t.kid,
         \A z \in M, a \in Sides : Own(u, t.kid[a][z]) = Own(t, t.kid[a][z])
  PROVE  Even(u, M, b, p, s)
<1>1. ASSUME NEW z \in M, NEW a \in Sides
      PROVE  b[z] = Own(u, u.kid[a][z]) + b[u.kid[a][z]] + (IF z = p /\ a = s THEN 1 ELSE 0)
  <2>1. b[z] = Own(t, t.kid[a][z]) + b[t.kid[a][z]] + (IF z = p /\ a = s THEN 1 ELSE 0)
    BY DEF Even
  <2>2. u.kid[a][z] = t.kid[a][z] /\ Own(u, t.kid[a][z]) = Own(t, t.kid[a][z])
    OBVIOUS
  <2>. QED BY <2>1, <2>2
<1>. QED BY <1>1 DEF Even

LEMMA InsertDoneIsSound ==
  ASSUME NEW t, NEW D, NEW M, NEW N, NEW ord, NEW b, NEW c,
         Sound(t, "insert", c, D, M, N, ord, b), ~TwoReds(t, c),
         NEW u, u = Returned(Paint(t, {t.root}, {}))
  PROVE  Sound(u, "idle", Nil, D, M, N, ord, b)
<1>1. /\ Base(t, D, M, N, ord) /\ Fits(t, "insert", c, M) /\ Even(t, M, b, Nil, SideOf(t, c))
      /\ t \in TreeType /\ t.red \subseteq M
  BY DEF Sound, Base, GapNode
<1>2. PICK end : Shape(t, M, N, ord, end)
  BY <1>1 DEF Base
<1>3. /\ Kept(t, M, N, ord, u) /\ u.red = t.red \ {t.root} /\ u.kid = t.kid /\ u.root = t.root
  <2>1. Darker(t, Returned(Paint(t, {t.root}, {})), M, N, ord, t.root)
    BY <1>1, <1>2, BlackenIs
  <2>. QED BY <2>1 DEF Darker
<1>4. M \subseteq Nodes /\ Nil \notin M
  BY <1>2, ShapeFacts
<1>5. \A z \in M, a \in Sides : t.kid[a][z] # Nil => t.kid[a][z] # t.root
  BY <1>2, KidIs
<1>6. ASSUME NEW z \in M, NEW a \in Sides, z \in u.red, t.kid[a][z] \in u.red PROVE FALSE
  <2>1. t.kid[a][z] = c /\ z \in t.red
    BY <1>1, <1>3, <1>4, <1>6 DEF Fits, Reds
  <2>2. t.kid[a][z] # Nil
    BY <1>1, <1>3, <1>4, <1>6
  <2>3. t.parent[c] = z /\ c # t.root
    BY <1>2, <1>5, <2>1, <2>2, KidIs
  <2>. QED BY <2>1, <2>3 DEF TwoReds
<1>7. NoReds(u, M)
  BY <1>3, <1>6 DEF NoReds
<1>8. \A z \in M, a \in Sides : Own(u, t.kid[a][z]) = Own(t, t.kid[a][z])
  BY <1>3, <1>5 DEF Own
<1>9. Even(u, M, b, Nil, SideOf(u, Nil))
  <2>1. Even(t, M, b, Nil, SideOf(u, Nil))
    BY <1>1, <1>4, NoGap
  <2>. QED BY <1>3, <1>8, <2>1, SameOwn
<1>10. Fits(u, "idle", Nil, M)
  BY <1>3, <1>7 DEF Fits
<1>11. GapNode(u, "idle", Nil) = Nil
  BY DEF GapNode
<1>. QED BY <1>1, <1>3, <1>9, <1>10, <1>11, KeptIsSound

\* The place of the gap: c hangs on the side of its parent that it lacks.
LEMMA GapAt ==
  ASSUME NEW t, NEW M, NEW N, NEW ord, NEW end, Shape(t, M, N, ord, end),
         NEW c, Fits(t, "delete", c, M), c # t.root
  PROVE  /\ GapNode(t, "delete", c) = t.parent[c]
         /\ t.parent[c] \in M /\ SideOf(t, c) \in Sides /\ t.kid[SideOf(t, c)][t.parent[c]] = c
<1>1. c \in M \cup {Nil}
  BY DEF Fits
<1>2. CASE c \in M
  BY <1>2, UpTo DEF GapNode
<1>3. CASE c = Nil
  <2>1. t.parent[Nil] \in M /\ \E s \in Sides : t.kid[s][t.parent[Nil]] = Nil
    BY <1>3 DEF Fits
  <2>. QED BY <1>3, <2>1, SideFacts DEF GapNode, SideOf
<1>. QED BY <1>1, <1>2, <1>3

LEMMA DeleteDoneIsSound ==
  ASSUME NEW t, NEW D, NEW M, NEW N, NEW ord, NEW b, NEW c,
         Sound(t, "delete", c, D, M, N, ord, b), ~LacksBlack(t, c),
         NEW u, u = Returned(Paint(t, {c}, {}))
  PROVE  Sound(u, "idle", Nil, D, M, N, ord, b)
<1> DEFINE p == GapNode(t, "delete", c)
           s == SideOf(t, c)
<1>1. /\ Base(t, D, M, N, ord) /\ Fits(t, "delete", c, M) /\ Even(t, M, b, p, s)
      /\ t \in TreeType /\ t.red \subseteq M
  BY DEF Sound, Base
<1>2. PICK end : Shape(t, M, N, ord, end)
  BY <1>1 DEF Base
<1>3. /\ Kept(t, M, N, ord, u) /\ u.red = t.red \ {c} /\ u.kid = t.kid /\ u.root = t.root
  <2>1. Darker(t, Returned(Paint(t, {c}, {})), M, N, ord, c)
    BY <1>1, <1>2, BlackenIs
  <2>. QED BY <2>1 DEF Darker
<1>4. M \subseteq Nodes /\ Nil \notin M
  BY <1>2, ShapeFacts
<1>5. c = t.root \/ c \in t.red
  BY DEF LacksBlack
<1>6. Reds(t, M, c, c) /\ t.root \notin t.red
  BY <1>1 DEF Fits
<1>7. NoReds(u, M)
  BY <1>3, <1>6 DEF NoReds, Reds
<1>8. Even(u, M, b, Nil, SideOf(u, Nil))
  <2>1. CASE c = t.root
    <3>1. p = Nil
      BY <2>1 DEF GapNode
    <3>2. u.red = t.red
      BY <1>3, <1>6, <2>1
    <3>3. Even(t, M, b, Nil, SideOf(u, Nil))
      BY <1>1, <1>4, <3>1, NoGap
    <3>4. \A z \in M, a \in Sides : Own(u, t.kid[a][z]) = Own(t, t.kid[a][z])
      BY <3>2 DEF Own
    <3>. QED BY <1>3, <3>3, <3>4, SameOwn
  <2>2. CASE c # t.root
    <3>1. c \in t.red /\ c \in M
      BY <1>1, <1>5, <2>2
    <3>2. p = t.parent[c] /\ p \in M /\ s \in Sides /\ t.kid[s][p] = c
      BY <1>1, <1>2, <2>2, GapAt
    <3> HIDE DEF p, s
    <3>3. \A z \in M, a \in Sides : t.kid[a][z] = c => z = p /\ a = s
      BY <1>2, <1>4, <3>1, <3>2, LinkIs
    <3>4. b \in [Nodes \cup {Nil} -> Nat] /\ b[Nil] = 0
      BY <1>1 DEF Even
    <3>5. ASSUME NEW z \in M, NEW a \in Sides
          PROVE  b[z] = Own(u, u.kid[a][z]) + b[u.kid[a][z]]
                        + (IF z = Nil /\ a = SideOf(u, Nil) THEN 1 ELSE 0)
      <4>1. b[z] = Own(t, t.kid[a][z]) + b[t.kid[a][z]] + (IF z = p /\ a = s THEN 1 ELSE 0)
        BY <1>1 DEF Even
      <4>2. t.kid[a][z] \in Nodes \cup {Nil}
        BY <1>2, <1>4, LinkIs
      <4>3. b[t.kid[a][z]] \in Nat /\ z # Nil
        BY <1>4, <3>4, <4>2
      <4>4. CASE z = p /\ a = s
        <5>1. Own(t, c) = 0 /\ Own(u, c) = 1
          BY <1>3, <1>4, <3>1 DEF Own
        <5>. QED BY <1>3, <3>2, <4>1, <4>3, <4>4, <5>1
      <4>5. CASE ~(z = p /\ a = s)
        <5>1. Own(u, t.kid[a][z]) = Own(t, t.kid[a][z]) /\ Own(t, t.kid[a][z]) \in Nat
          BY <1>3, <3>3, <4>5 DEF Own
        <5>. QED BY <1>3, <4>1, <4>3, <4>5, <5>1
      <4>. QED BY <4>4, <4>5
    <3>. QED BY <3>4, <3>5 DEF Even
  <2>. QED BY <2>1, <2>2
<1>10. Fits(u, "idle", Nil, M)
  BY <1>3, <1>6, <1>7 DEF Fits
<1>11. GapNode(u, "idle", Nil) = Nil
  BY DEF GapNode
<1>. QED BY <1>1, <1>3, <1>8, <1>10, <1>11, KeptIsSound

-----------------------------------------------------------------------------
(* The loop of a deletion.                                                  *)

\* The ways through p's kid c on side s lack a black node, and nothing else
\* is wrong.
Lacking(t, M, N, ord, b, c, p, s) ==
  /\ t \in TreeType /\ t.red \subseteq M /\ t.root \notin t.red /\ NoReds(t, M)
  /\ \E end : Shape(t, M, N, ord, end)
  /\ p \in M /\ s \in Sides /\ t.kid[s][p] = c /\ c \notin t.red /\ Even(t, M, b, p, s)

LEMMA LackingIs ==
  ASSUME NEW t, NEW D, NEW M, NEW N, NEW ord, NEW b, NEW c,
         Sound(t, "delete", c, D, M, N, ord, b), LacksBlack(t, c)
  PROVE  Lacking(t, M, N, ord, b, c, t.parent[c], SideOf(t, c))
<1>1. /\ Base(t, D, M, N, ord) /\ Fits(t, "delete", c, M)
      /\ Even(t, M, b, GapNode(t, "delete", c), SideOf(t, c))
  BY DEF Sound
<1>2. c # t.root /\ c \notin t.red
  BY DEF LacksBlack
<1>3. /\ GapNode(t, "delete", c) = t.parent[c] /\ t.parent[c] \in M /\ SideOf(t, c) \in Sides
      /\ t.kid[SideOf(t, c)][t.parent[c]] = c
  BY <1>1, <1>2, GapAt DEF Base
<1>4. NoReds(t, M) /\ t.root \notin t.red
  BY <1>1, <1>2 DEF Fits, Reds, NoReds
<1>. QED BY <1>1, <1>2, <1>3, <1>4 DEF Lacking, Base

\* The brother is a node: on its side there is the black that c's side lacks.
LEMMA BrotherIs ==
  ASSUME NEW t, NEW M, NEW N, NEW ord, NEW b, NEW c, NEW p, NEW s,
         Lacking(t, M, N, ord, b, c, p, s), NEW w, t.kid[Other(s)][p] = w
  PROVE  /\ w # Nil /\ w \in M /\ w # p /\ w # c /\ w # t.root
         /\ \A z \in M, a \in Sides : t.kid[a][z] = w => z = p /\ a = Other(s)
         /\ \A a \in Sides : t.kid[a][w] # p
         /\ c # p /\ (c = Nil \/ c \in M)
<1>1. PICK end : Shape(t, M, N, ord, end)
  BY DEF Lacking
<1>2. /\ p \in M /\ s \in Sides /\ t.kid[s][p] = c /\ Even(t, M, b, p, s)
      /\ Other(s) \in Sides /\ Other(s) # s
  BY SideFacts DEF Lacking
<1>3. M \subseteq Nodes /\ Nil \notin M
  BY <1>1, ShapeFacts
<1>4. c # p /\ (c = Nil \/ c \in M)
  BY <1>1, <1>2, <1>3, LinkIs
<1>5. w # Nil
  <2>1. ASSUME w = Nil PROVE FALSE
    <3>1. b \in [Nodes \cup {Nil} -> Nat] /\ b[Nil] = 0
      BY <1>2 DEF Even
    <3>2. b[p] = Own(t, w) + b[w] + 0
      BY <1>2 DEF Even
    <3>3. b[p] = Own(t, c) + b[c] + 1
      BY <1>2 DEF Even
    <3>4. Own(t, w) = 0 /\ b[w] = 0
      BY <2>1, <3>1 DEF Own
    <3>5. Own(t, c) \in Nat /\ b[c] \in Nat
      BY <1>3, <1>4, <3>1 DEF Own
    <3>. QED BY <3>2, <3>3, <3>4, <3>5
  <2>. QED BY <2>1
<1>6. /\ w \in M /\ w # p /\ \A a \in Sides : t.kid[a][w] # p
      /\ \A z \in M, a \in Sides : t.kid[a][z] = w => z = p /\ a = Other(s)
  BY <1>1, <1>2, <1>5, LinkIs
<1>7. w # t.root
  BY <1>1, <1>2, <1>5, KidIs
<1>8. w # c
  BY <1>2, <1>6
<1>. QED BY <1>4, <1>5, <1>6, <1>7, <1>8

\* Case 1: the red brother v rises over p.
LEMMA RaiseRed ==
  ASSUME NEW t, NEW M, NEW N, NEW ord, NEW b, NEW c, NEW p, NEW s,
         Lacking(t, M, N, ord, b, c, p, s), NEW v, t.kid[Other(s)][p] = v, v \in t.red,
         NEW u, Rotate(Paint(t, {v}, {p}), p, s) = u
  PROVE  /\ Lacking(u, M, N, ord, b, c, p, s) /\ Kept(t, M, N, ord, u)
         /\ u.kid[Other(s)][p] \notin u.red /\ p \in u.red
<1> DEFINE R == (t.red \ {v}) \cup {p}
           y == Paint(t, {v}, {p})
           o == Other(s)
<1>0. /\ t \in TreeType /\ t.red \subseteq M /\ t.root \notin t.red /\ NoReds(t, M)
      /\ p \in M /\ s \in Sides /\ t.kid[s][p] = c /\ c \notin t.red /\ Even(t, M, b, p, s)
  BY DEF Lacking
<1>1. PICK end : Shape(t, M, N, ord, end)
  BY DEF Lacking
<1>2. M \subseteq Nodes /\ Nil \notin M
  BY <1>1, ShapeFacts
<1>3. /\ v # Nil /\ v \in M /\ v # p /\ v # c /\ v # t.root /\ c # p
      /\ \A z \in M, a \in Sides : t.kid[a][z] = v => z = p /\ a = o
      /\ \A a \in Sides : t.kid[a][v] # p
  BY BrotherIs
<1>4. o \in Sides /\ o # s /\ \A a \in Sides : a = o \/ a = s
  BY <1>0, SideFacts
<1>5. t.kid[o][p] = v
  OBVIOUS
<1>6. Recoloured(t, y, R)
  BY <1>0, <1>2, PaintIs
<1>7. R \subseteq M /\ p \in R /\ v \notin R /\ \A z \in M \ {p, v} : z \in R <=> z \in t.red
  BY <1>0, <1>3
<1>8. p \notin t.red
  BY <1>0, <1>4, <1>5 DEF NoReds
<1>9. Rotate(y, p, s) = u
  OBVIOUS
<1> HIDE DEF y, R
<1>10. Rotated(y, u, M, p, v, s) /\ Kept(t, M, N, ord, u)
  BY <1>0, <1>1, <1>3, <1>6, <1>7, <1>9, PaintAndRotate DEF Kept
<1>11. Even(u, M, b, p, s)
  BY <1>0, <1>1, <1>3, <1>4, <1>6, <1>7, <1>8, <1>10, RiseIsEven
<1>12. y.kid = t.kid /\ y.root = t.root /\ y.red = R
  BY <1>6 DEF Recoloured
<1>13. /\ u \in TreeType /\ u.red = R /\ u.root = IF p = t.root THEN v ELSE t.root
       /\ \A z \in M, a \in Sides :
            u.kid[a][z] = IF z = p /\ a = o THEN t.kid[s][v]
                          ELSE IF z = v /\ a = s THEN p
                          ELSE IF t.kid[a][z] = p THEN v ELSE t.kid[a][z]
  BY <1>10, <1>12 DEF Rotated
<1>14. t.kid[s][v] \notin R
  BY <1>0, <1>3 DEF NoReds, R
<1>15. u.kid[o][p] = t.kid[s][v] /\ u.kid[s][p] = c
  BY <1>0, <1>3, <1>4, <1>13
<1>16. c \notin R
  BY <1>0, <1>3 DEF R
<1>17. ASSUME NEW z \in M, NEW a \in Sides, z \in R, u.kid[a][z] \in R PROVE FALSE
  <2>1. z # v
    BY <1>7, <1>17
  <2>2. z # p
    BY <1>4, <1>14, <1>15, <1>16, <1>17
  <2>3. z \in t.red
    BY <1>7, <1>17, <2>1, <2>2
  <2>4. t.kid[a][z] # p /\ u.kid[a][z] = t.kid[a][z]
    BY <1>7, <1>13, <1>17, <2>1, <2>2
  <2>5. t.kid[a][z] \in t.red
    BY <1>17, <2>4 DEF R
  <2>. QED BY <1>0, <2>3, <2>5 DEF NoReds
<1>18. NoReds(u, M)
  BY <1>13, <1>17 DEF NoReds
<1>19. u.root \notin u.red
  BY <1>0, <1>7, <1>13 DEF R
<1>20. Lacking(u, M, N, ord, b, c, p, s)
  BY <1>0, <1>7, <1>10, <1>11, <1>13, <1>15, <1>16, <1>18, <1>19 DEF Lacking, Kept
<1>. QED BY <1>7, <1>10, <1>13, <1>14, <1>15, <1>20

\* Case 3: the red near nephew rises over the brother w.
LEMMA RaiseNear ==
  ASSUME NEW t, NEW M, NEW N, NEW ord, NEW b, NEW c, NEW p, NEW s,
         Lacking(t, M, N, ord, b, c, p, s), NEW o, o = Other(s),
         NEW w, t.kid[o][p] = w, w \notin t.red,
         NEW near, t.kid[s][w] = near, near \in t.red, t.kid[o][w] \notin t.red,
         NEW u, Rotate(Paint(t, {near}, {w}), w, o) = u
  PROVE  /\ Lacking(u, M, N, ord, b, c, p, s) /\ Kept(t, M, N, ord, u)
         /\ u.kid[o][p] = near /\ near \notin u.red /\ u.kid[o][near] \in u.red
<1> DEFINE R == (t.red \ {near}) \cup {w}
           y == Paint(t, {near}, {w})
<1>0. /\ t \in TreeType /\ t.red \subseteq M /\ t.root \notin t.red /\ NoReds(t, M)
      /\ p \in M /\ s \in Sides /\ t.kid[s][p] = c /\ c \notin t.red /\ Even(t, M, b, p, s)
  BY DEF Lacking
<1>1. PICK end : Shape(t, M, N, ord, end)
  BY DEF Lacking
<1>2. M \subseteq Nodes /\ Nil \notin M
  BY <1>1, ShapeFacts
<1>3. /\ w \in M /\ w # p /\ w # c /\ w # t.root /\ c # p
      /\ \A z \in M, a \in Sides : t.kid[a][z] = w => z = p /\ a = o
      /\ \A a \in Sides : t.kid[a][w] # p
  BY BrotherIs
<1>4. o \in Sides /\ o # s /\ (\A a \in Sides : a = o \/ a = s) /\ Other(o) = s
  BY <1>0, SideFacts
<1>5. /\ near # Nil /\ near \in M /\ near # w
      /\ \A z \in M, a \in Sides : t.kid[a][z] = near => z = w /\ a = s
      /\ \A a \in Sides : t.kid[a][near] # w
  <2>1. near # Nil
    BY <1>0, <1>2
  <2>. QED BY <1>0, <1>1, <1>3, <2>1, LinkIs
<1>6. Recoloured(t, y, R)
  BY <1>0, <1>2, <1>3, PaintIs
<1>7. R \subseteq M /\ w \in R /\ near \notin R /\ \A z \in M \ {w, near} : z \in R <=> z \in t.red
  BY <1>0, <1>3, <1>5
<1>9. Rotate(y, w, o) = u
  OBVIOUS
<1> HIDE DEF y, R
<1>8. t.kid[Other(o)][w] = near
  BY <1>4
<1>10. Rotated(y, u, M, w, near, o) /\ Kept(t, M, N, ord, u)
  BY <1>0, <1>1, <1>3, <1>4, <1>5, <1>6, <1>7, <1>8, <1>9, PaintAndRotate DEF Kept
<1>11. Even(u, M, b, p, s)
  BY <1>0, <1>1, <1>3, <1>4, <1>5, <1>6, <1>7, <1>8, <1>10, RiseIsEven
<1>12. y.kid = t.kid /\ y.root = t.root /\ y.red = R
  BY <1>6 DEF Recoloured
<1>13. /\ u \in TreeType /\ u.red = R /\ u.root = t.root
       /\ \A z \in M, a \in Sides :
            u.kid[a][z] = IF z = w /\ a = Other(o) THEN t.kid[o][near]
                          ELSE IF z = near /\ a = o THEN w
                          ELSE IF t.kid[a][z] = w THEN near ELSE t.kid[a][z]
  BY <1>3, <1>10, <1>12 DEF Rotated
<1>14. t.kid[o][near] \notin R /\ t.kid[o][w] \notin R
  <2>1. t.kid[o][near] # w /\ t.kid[o][w] # w
    BY <1>1, <1>2, <1>3, <1>4, <1>5, LinkIs
  <2>2. t.kid[o][near] \notin t.red
    BY <1>0, <1>4, <1>5 DEF NoReds
  <2>. QED BY <2>1, <2>2 DEF R
<1>15. near # p
  BY <1>0, <1>3
<1>16. u.kid[o][p] = near /\ u.kid[s][p] = c /\ u.kid[o][near] = w
  <2>1. t.kid[o][p] = w
    OBVIOUS
  <2>2. u.kid[o][p] = near
    BY <1>0, <1>3, <1>4, <1>13, <1>15, <2>1
  <2>3. u.kid[s][p] = c
    BY <1>0, <1>3, <1>4, <1>13, <1>15
  <2>4. u.kid[o][near] = w
    BY <1>4, <1>5, <1>13
  <2>. QED BY <2>2, <2>3, <2>4
<1>17. c \notin R
  BY <1>0, <1>3 DEF R
<1>18. ASSUME NEW z \in M, NEW a \in Sides, z \in R, u.kid[a][z] \in R PROVE FALSE
  <2>1. z # near
    BY <1>7, <1>18
  <2>2. z # w
    <3>1. ASSUME z = w PROVE FALSE
      <4>1. CASE a = s
        <5>1. u.kid[a][z] = t.kid[o][near]
          BY <1>4, <1>13, <3>1, <4>1
        <5>. QED BY <1>14, <1>18, <5>1
      <4>2. CASE a = o
        <5>1. u.kid[a][z] = t.kid[o][w]
          BY <1>3, <1>4, <1>5, <1>13, <1>14, <1>7, <3>1, <4>2
        <5>. QED BY <1>14, <1>18, <5>1
      <4>. QED BY <1>4, <4>1, <4>2
    <3>. QED BY <3>1
  <2>3. z \in t.red
    BY <1>7, <1>18, <2>1, <2>2
  <2>4. t.kid[a][z] # w /\ u.kid[a][z] = t.kid[a][z]
    BY <1>7, <1>13, <1>18, <2>1, <2>2
  <2>5. t.kid[a][z] \in t.red
    BY <1>18, <2>4 DEF R
  <2>. QED BY <1>0, <2>3, <2>5 DEF NoReds
<1>19. NoReds(u, M)
  BY <1>13, <1>18 DEF NoReds
<1>20. u.root \notin u.red
  BY <1>0, <1>3, <1>13 DEF R
<1>21. Lacking(u, M, N, ord, b, c, p, s)
  BY <1>0, <1>7, <1>10, <1>11, <1>13, <1>16, <1>17, <1>19, <1>20 DEF Lacking, Kept
<1>. QED BY <1>7, <1>10, <1>13, <1>16, <1>21

\* Case 2: the brother, with black kids, gives its black away, and p lacks it.
LEMMA PaintBrother ==
  ASSUME NEW t, NEW M, NEW N, NEW ord, NEW b, NEW c, NEW p, NEW s,
         Lacking(t, M, N, ord, b, c, p, s), NEW o, Other(s) = o,
         NEW w, t.kid[o][p] = w, \A a \in Sides : t.kid[a][w] \notin t.red, w \notin t.red,
         NEW u, Paint(t, {}, {w}) = u
  PROVE  /\ Kept(t, M, N, ord, u) /\ Fits(u, "delete", p, M)
         /\ \E d : Even(u, M, d, GapNode(u, "delete", p), SideOf(u, p))
<1> DEFINE d == [z \in Nodes \cup {Nil} |-> IF z = p THEN b[p] - 1 ELSE b[z]]
           q == GapNode(u, "delete", p)
           r == SideOf(u, p)
<1>0. /\ t \in TreeType /\ t.red \subseteq M /\ t.root \notin t.red /\ NoReds(t, M)
      /\ p \in M /\ s \in Sides /\ t.kid[s][p] = c /\ c \notin t.red /\ Even(t, M, b, p, s)
  BY DEF Lacking
<1>1. PICK end : Shape(t, M, N, ord, end)
  BY DEF Lacking
<1>2. M \subseteq Nodes /\ Nil \notin M
  BY <1>1, ShapeFacts
<1>3. /\ w \in M /\ w # p /\ w # c /\ w # t.root /\ c # p /\ w # Nil
      /\ \A z \in M, a \in Sides : t.kid[a][z] = w => z = p /\ a = o
      /\ \A a \in Sides : t.kid[a][w] # p
      /\ (c = Nil \/ c \in M)
  BY BrotherIs
<1>4. o \in Sides /\ o # s /\ \A a \in Sides : a = o \/ a = s
  BY <1>0, SideFacts
<1>5. Recoloured(t, u, t.red \cup {w})
  <2>1. Recoloured(t, Paint(t, {}, {w}), (t.red \ {}) \cup {w})
    BY <1>0, <1>2, <1>3, PaintIs
  <2>2. (t.red \ {}) \cup {w} = t.red \cup {w}
    OBVIOUS
  <2>. QED BY <2>1, <2>2
<1>6. /\ u \in TreeType /\ u.red = t.red \cup {w} /\ u.root = t.root /\ u.kid = t.kid
      /\ u.parent = t.parent
  BY <1>5 DEF Recoloured
<1>7. Kept(t, M, N, ord, u)
  <2>1. SameLinks(t, u, M)
    BY <1>6 DEF SameLinks
  <2>2. Shape(u, M, N, ord, end)
    BY <1>1, <2>1, SameLinksShape
  <2>. QED BY <1>0, <1>3, <1>5, <2>2, RecolouredReshapes DEF Kept
<1>8. Fits(u, "delete", p, M)
  <2>1. ASSUME NEW z \in M, NEW a \in Sides, z \in u.red, t.kid[a][z] \in u.red PROVE z = p
    <3>1. CASE t.kid[a][z] = w
      BY <1>3, <3>1
    <3>2. CASE t.kid[a][z] # w
      <4>1. t.kid[a][z] \in t.red
        BY <1>6, <2>1, <3>2
      <4>2. z # w
        BY <4>1
      <4>. QED BY <1>0, <1>6, <2>1, <4>1, <4>2 DEF NoReds
    <3>. QED BY <3>1, <3>2
  <2>2. Reds(u, M, p, p)
    BY <1>6, <2>1 DEF Reds
  <2>. QED BY <1>0, <1>2, <1>3, <1>6, <2>2 DEF Fits
<1>9. /\ b \in [Nodes \cup {Nil} -> Nat] /\ b[Nil] = 0
      /\ \A z \in M, a \in Sides :
           b[z] = Own(t, t.kid[a][z]) + b[t.kid[a][z]] + (IF z = p /\ a = s THEN 1 ELSE 0)
  BY <1>0 DEF Even
<1>10. b[p] = Own(t, c) + b[c] + 1 /\ b[p] = 1 + b[w]
  <2>1. b[p] = Own(t, w) + b[w] + 0
    BY <1>0, <1>4, <1>9
  <2>2. Own(t, w) = 1
    BY <1>3 DEF Own
  <2>3. b[w] \in Nat
    BY <1>2, <1>3, <1>9
  <2>. QED BY <1>0, <1>9, <2>1, <2>2, <2>3
<1>11. b[c] \in Nat /\ b[w] \in Nat /\ Own(t, c) \in Nat /\ b[p] \in Nat
  BY <1>0, <1>2, <1>3, <1>9 DEF Own
<1>12. d \in [Nodes \cup {Nil} -> Nat] /\ d[p] = b[p] - 1 /\ d[Nil] = 0
       /\ \A z \in Nodes \cup {Nil} : z # p => d[z] = b[z]
  BY <1>0, <1>2, <1>9, <1>10, <1>11
<1> HIDE DEF d
<1>13. IF p = t.root THEN q = Nil ELSE q \in M /\ t.kid[r][q] = p /\ r \in Sides
  <2>1. CASE p = t.root
    BY <1>6, <2>1 DEF GapNode
  <2>2. CASE p # t.root
    <3>1. q = t.parent[p] /\ r = SideOf(t, p)
      BY <1>6, <2>2 DEF GapNode, SideOf
    <3>. QED BY <1>0, <1>1, <2>2, <3>1, UpTo
  <2>. QED BY <2>1, <2>2
<1>14. \A z \in M, a \in Sides : t.kid[a][z] = p <=> z = q /\ a = r
  <2>1. CASE p = t.root
    BY <1>0, <1>1, <1>2, <1>13, <2>1, KidIs
  <2>2. CASE p # t.root
    <3>1. q \in M /\ t.kid[r][q] = p /\ r \in Sides /\ p # Nil
      BY <1>0, <1>2, <1>13, <2>2
    <3>. HIDE DEF q, r
    <3>2. \A z \in M, a \in Sides : t.kid[a][z] = p => z = q /\ a = r
      BY <1>1, <3>1, LinkIs
    <3>. QED BY <3>1, <3>2
  <2>. QED BY <2>1, <2>2
<1> HIDE DEF q, r
<1>15. ASSUME NEW z \in M, NEW a \in Sides
       PROVE  d[z] = Own(u, u.kid[a][z]) + d[u.kid[a][z]] + (IF z = q /\ a = r THEN 1 ELSE 0)
  <2> DEFINE k == t.kid[a][z]
  <2>0. /\ u.kid[a][z] = k /\ k # z /\ (k = Nil \/ k \in M)
        /\ b[z] = Own(t, k) + b[k] + (IF z = p /\ a = s THEN 1 ELSE 0)
    BY <1>1, <1>2, <1>6, <1>9, LinkIs
  <2>1. CASE z = p /\ a = s
    <3>1. k = c /\ Own(u, c) = Own(t, c)
      BY <1>0, <1>3, <1>6, <2>1 DEF Own
    <3>2. ~(z = q /\ a = r)
      BY <1>14, <2>0, <2>1
    <3>3. d[c] = b[c]
      BY <1>2, <1>3, <1>12
    <3>. QED BY <1>10, <1>11, <1>12, <2>0, <2>1, <3>1, <3>2, <3>3
  <2>2. CASE z = p /\ a = o
    <3>1. k = w /\ Own(u, w) = 0
      BY <1>0, <1>3, <1>6, <2>2 DEF Own
    <3>2. ~(z = q /\ a = r)
      BY <1>14, <2>0, <2>2
    <3>3. d[w] = b[w]
      BY <1>2, <1>3, <1>12
    <3>4. u.kid[a][z] = w
      BY <1>6, <3>1
    <3>5. d[z] = b[w]
      BY <1>10, <1>11, <1>12, <2>2
    <3>. QED BY <1>11, <3>1, <3>2, <3>3, <3>4, <3>5
  <2>3. CASE z # p
    <3>1. k # w
      BY <1>3, <2>3
    <3>. HIDE DEF k
    <3>2. Own(u, k) = Own(t, k) /\ Own(t, k) \in Nat /\ b[k] \in Nat
      BY <1>2, <1>6, <1>9, <2>0, <3>1 DEF Own
    <3>3. d[z] = b[z] /\ b[z] = Own(t, k) + b[k]
      BY <1>2, <1>12, <2>0, <2>3, <3>2
    <3>4. CASE z = q /\ a = r
      <4>1. k = p
        BY <1>14, <3>4 DEF k
      <4>. QED BY <1>11, <1>12, <2>0, <3>2, <3>3, <3>4, <4>1
    <3>5. CASE ~(z = q /\ a = r)
      <4>1. k # p
        BY <1>14, <3>5 DEF k
      <4>2. d[k] = b[k]
        BY <1>2, <1>12, <2>0, <4>1
      <4>. QED BY <2>0, <3>2, <3>3, <3>5, <4>2
    <3>. QED BY <3>4, <3>5
  <2>. QED BY <1>4, <2>1, <2>2, <2>3
<1>16. Even(u, M, d, q, r)
  BY <1>12, <1>15 DEF Even
<1>. QED BY <1>7, <1>8, <1>16 DEF q, r

\* Case 4: the black brother w rises over p with its red far kid.
LEMMA RaiseBrotherIs ==
  ASSUME NEW t, NEW M, NEW N, NEW ord, NEW b, NEW c, NEW p, NEW s,
         Lacking(t, M, N, ord, b, c, p, s), NEW o, Other(s) = o,
         NEW w, t.kid[o][p] = w, w \notin t.red, t.kid[o][w] \in t.red,
         NEW u, RaiseBrother(t, p, w, s) = u
  PROVE  /\ Kept(t, M, N, ord, u) /\ Fits(u, "delete", u.root, M)
         /\ \E d : Even(u, M, d, GapNode(u, "delete", u.root), SideOf(u, u.root))
<1> DEFINE f == t.kid[o][w]
           C == IF p \in t.red THEN t.red \cup {w} ELSE t.red \ {w}
           R == C \ {p, f}
           y == Paint(CopyColor(t, w, p), {p, f}, {})
<1>0. /\ t \in TreeType /\ t.red \subseteq M /\ t.root \notin t.red /\ NoReds(t, M)
      /\ p \in M /\ s \in Sides /\ t.kid[s][p] = c /\ c \notin t.red /\ Even(t, M, b, p, s)
  BY DEF Lacking
<1>1. PICK end : Shape(t, M, N, ord, end)
  BY DEF Lacking
<1>2. M \subseteq Nodes /\ Nil \notin M
  BY <1>1, ShapeFacts
<1>3. /\ w \in M /\ w # p /\ w # c /\ w # t.root /\ c # p /\ w # Nil
      /\ \A z \in M, a \in Sides : t.kid[a][z] = w => z = p /\ a = o
      /\ \A a \in Sides : t.kid[a][w] # p
  BY BrotherIs
<1>4. o \in Sides /\ o # s /\ (\A a \in Sides : a = o \/ a = s)
  BY <1>0, SideFacts
<1>5. f \in t.red /\ f \in M /\ f # Nil /\ f # w /\ f # p
  <2>1. f \in t.red /\ f \in M
    BY <1>0
  <2>2. f # Nil /\ f # p
    BY <1>2, <1>3, <1>4, <2>1
  <2>. QED BY <2>1, <2>2
<1>6. Recoloured(t, CopyColor(t, w, p), C)
  BY <1>0, <1>2, <1>3, CopyColorIs
<1>7. Recoloured(t, y, R)
  <2> DEFINE v == CopyColor(t, w, p)
  <2>1. v \in TreeType /\ v.red = C
    BY <1>6 DEF Recoloured
  <2> HIDE DEF v, C, f
  <2>2. Recoloured(v, Paint(v, {p, f}, {}), (v.red \ {p, f}) \cup {})
    BY <2>1, PaintIs
  <2>3. (v.red \ {p, f}) \cup {} = R
    BY <2>1
  <2>4. Recoloured(v, Paint(v, {p, f}, {}), R)
    BY <2>2, <2>3
  <2>. HIDE DEF R
  <2>5. Recoloured(t, v, C)
    BY <1>6 DEF v, C
  <2>6. Recoloured(t, Paint(v, {p, f}, {}), R)
    BY <2>4, <2>5 DEF Recoloured
  <2>. QED BY <2>6 DEF v
<1>8. /\ R \subseteq M /\ p \notin R /\ f \notin R /\ (w \in R <=> p \in t.red)
      /\ \A z \in M \ {p, w, f} : z \in R <=> z \in t.red
  BY <1>0, <1>3, <1>5
<1>9. Rotate(y, p, s) = u
  BY DEF RaiseBrother
<1> HIDE DEF y, R, C
<1>10. Rotated(y, u, M, p, w, s) /\ Kept(t, M, N, ord, u)
  BY <1>0, <1>1, <1>3, <1>7, <1>8, <1>9, PaintAndRotate DEF Kept
<1>11. PICK d : Even(u, M, d, Nil, s)
  <2>1. t.kid[Other(s)][w] = f
    OBVIOUS
  <2> HIDE DEF f
  <2>. QED BY <1>0, <1>1, <1>3, <1>5, <1>7, <1>8, <1>10, <2>1, BrotherRiseIsEven
<1>12. y.kid = t.kid /\ y.root = t.root /\ y.red = R
  BY <1>7 DEF Recoloured
<1>13. /\ u \in TreeType /\ u.red = R /\ u.root = IF p = t.root THEN w ELSE t.root
       /\ \A z \in M, a \in Sides :
            u.kid[a][z] = IF z = p /\ a = o THEN t.kid[s][w]
                          ELSE IF z = w /\ a = s THEN p
                          ELSE IF t.kid[a][z] = p THEN w ELSE t.kid[a][z]
  BY <1>10, <1>12 DEF Rotated
<1>14. u.kid[s][w] = p /\ u.kid[o][w] = f
  <2>1. t.kid[o][w] = f
    OBVIOUS
  <2> HIDE DEF f
  <2>2. u.kid[s][w] = p
    BY <1>0, <1>3, <1>4, <1>13
  <2>3. u.kid[o][w] = f
    BY <1>3, <1>4, <1>5, <1>13, <2>1
  <2>. QED BY <2>2, <2>3
<1> HIDE DEF f
<1>15. ASSUME NEW z \in M, NEW a \in Sides, z \in R, u.kid[a][z] \in R PROVE FALSE
  <2>1. z # p /\ z # f
    BY <1>8, <1>15
  <2>2. z # w
    BY <1>4, <1>8, <1>14, <1>15
  <2>3. z \in t.red
    BY <1>8, <1>15, <2>1, <2>2
  <2>4. u.kid[a][z] = IF t.kid[a][z] = p THEN w ELSE t.kid[a][z]
    BY <1>13, <2>1, <2>2
  <2>5. t.kid[a][z] # p
    BY <1>0, <1>8, <1>15, <2>3, <2>4 DEF NoReds
  <2>6. t.kid[a][z] \in R /\ t.kid[a][z] # w /\ t.kid[a][z] # f
    BY <1>3, <1>8, <1>15, <2>1, <2>4, <2>5
  <2>7. t.kid[a][z] \in t.red
    BY <1>8, <2>5, <2>6
  <2>. QED BY <1>0, <2>3, <2>7 DEF NoReds
<1>16. u.root \notin u.red /\ u.root \in M
  <2>1. CASE p = t.root
    BY <1>0, <1>3, <1>8, <1>13, <2>1
  <2>2. CASE p # t.root
    <3>1. t.root \in M
      BY <1>0, <1>1, <1>2 DEF Shape, RootFits, Ranked
    <3>. QED BY <1>0, <1>3, <1>8, <1>13, <2>2, <3>1
  <2>. QED BY <2>1, <2>2
<1>17. Fits(u, "delete", u.root, M)
  <2>1. Reds(u, M, u.root, u.root)
    BY <1>13, <1>15 DEF Reds
  <2>. QED BY <1>2, <1>16, <2>1 DEF Fits
<1>18. GapNode(u, "delete", u.root) = Nil
  BY DEF GapNode
<1>. QED BY <1>2, <1>10, <1>11, <1>17, <1>18, NoGap

\* What an iteration of art_rbtree_delete's loop makes of the tree and of temp.
FixesTo(h, s, o, p, w, e, u, d) ==
  IF {h.kid[s][w], h.kid[o][w]} \cap h.red = {} THEN Paint(h, {}, {w}) = u /\ d = p
  ELSE e = u /\ e.root = d

\* What it computes on the way: h after a red brother has risen and w the brother
\* then, q after a red near child of w has risen.
FixesBy(t, c, s, o, p, h, w, q, e) ==
  /\ SideOf(t, c) = s /\ Other(s) = o /\ t.parent[c] = p
  /\ WithBlackBrother(t, p, s) = h /\ h.kid[o][p] = w
  /\ WithRedFar(h, w, s) = q
  /\ RaiseBrother(q, p, q.kid[o][p], s) = e

LEMMA DeleteFixupIsSound ==
  ASSUME NEW t, NEW D, NEW M, NEW N, NEW ord, NEW b, NEW c,
         Sound(t, "delete", c, D, M, N, ord, b), LacksBlack(t, c),
         NEW s, NEW o, NEW p, NEW h, NEW w, NEW q, NEW e,
         FixesBy(t, c, s, o, p, h, w, q, e),
         NEW u, NEW d, FixesTo(h, s, o, p, w, e, u, d)
  PROVE  \E x : Sound(u, "delete", d, D, M, N, ord, x)
<1> DEFINE near == h.kid[s][w]
<1>0. /\ SideOf(t, c) = s /\ Other(s) = o /\ t.parent[c] = p
      /\ IF t.kid[o][p] \in t.red
         THEN Rotate(Paint(t, {t.kid[o][p]}, {p}), p, s) = h ELSE t = h
      /\ h.kid[o][p] = w /\ h.kid[s][w] = near
      /\ IF h.kid[o][w] \in h.red THEN h = q
         ELSE Rotate(Paint(h, {near}, {w}), w, o) = q
      /\ RaiseBrother(q, p, q.kid[o][p], s) = e
  BY DEF FixesBy, WithBlackBrother, WithRedFar
<1> HIDE DEF near
<1>1. Lacking(t, M, N, ord, b, c, p, s) /\ Base(t, D, M, N, ord)
  BY <1>0, LackingIs DEF Sound
<1>2. Kept(t, M, N, ord, t)
  <2>1. Reshaped(t, t, M)
    BY <1>1 DEF Reshaped, Base
  <2>. QED BY <1>1, <2>1 DEF Kept, Base
<1>3. Lacking(h, M, N, ord, b, c, p, s) /\ Kept(t, M, N, ord, h) /\ w \notin h.red
  <2>1. CASE t.kid[o][p] \in t.red
    <3> DEFINE v == t.kid[o][p]
    <3>1. Rotate(Paint(t, {v}, {p}), p, s) = h
      BY <1>0, <2>1
    <3>2. v \in t.red /\ t.kid[Other(s)][p] = v
      BY <1>0, <2>1
    <3> HIDE DEF v
    <3>3. /\ Lacking(h, M, N, ord, b, c, p, s) /\ Kept(t, M, N, ord, h)
          /\ h.kid[Other(s)][p] \notin h.red
      BY <1>1, <3>1, <3>2, RaiseRed
    <3>. QED BY <1>0, <3>3
  <2>2. CASE t.kid[o][p] \notin t.red
    BY <1>0, <1>1, <1>2, <2>2
  <2>. QED BY <2>1, <2>2
<1>4. CASE {near, h.kid[o][w]} \cap h.red = {}
  <2>1. Paint(h, {}, {w}) = u /\ d = p
    BY <1>4 DEF FixesTo, near
  <2>2. \A a \in Sides : h.kid[a][w] \notin h.red
    <3>1. near \notin h.red /\ h.kid[o][w] \notin h.red
      BY <1>4
    <3>2. s \in Sides
      BY <1>1 DEF Lacking
    <3>. QED BY <1>0, <3>1, <3>2, SideFacts
  <2>3. /\ Kept(h, M, N, ord, u) /\ Fits(u, "delete", p, M)
        /\ \E x : Even(u, M, x, GapNode(u, "delete", p), SideOf(u, p))
    <3>1. Paint(h, {}, {w}) = u
      BY <2>1
    <3>. QED BY <1>0, <1>3, <2>2, <3>1, PaintBrother
  <2>4. Kept(t, M, N, ord, u)
    BY <1>3, <2>3, KeptTwice
  <2>5. PICK x : Even(u, M, x, GapNode(u, "delete", p), SideOf(u, p))
    BY <2>3
  <2>6. Sound(u, "delete", p, D, M, N, ord, x)
    BY <1>1, <2>3, <2>4, <2>5, KeptIsSound
  <2>. QED BY <2>1, <2>6
<1>5. CASE {near, h.kid[o][w]} \cap h.red # {}
  <2>1. e = u /\ e.root = d
    BY <1>5 DEF FixesTo, near
  <2>2. /\ Lacking(q, M, N, ord, b, c, p, s) /\ Kept(t, M, N, ord, q)
        /\ q.kid[o][p] \notin q.red /\ q.kid[o][q.kid[o][p]] \in q.red
    <3>1. CASE h.kid[o][w] \in h.red
      BY <1>0, <1>3, <3>1
    <3>2. CASE h.kid[o][w] \notin h.red
      <4>1. near \in h.red
        BY <1>0, <1>5, <3>2
      <4>2. Rotate(Paint(h, {near}, {w}), w, o) = q
        BY <1>0, <3>2
      <4>3. o = Other(s)
        BY <1>0
      <4>4. /\ Lacking(q, M, N, ord, b, c, p, s) /\ Kept(h, M, N, ord, q)
            /\ q.kid[o][p] = near /\ near \notin q.red /\ q.kid[o][near] \in q.red
        BY <1>0, <1>3, <3>2, <4>1, <4>2, <4>3, RaiseNear
      <4>. QED BY <1>0, <1>3, <4>4, KeptTwice
    <3>. QED BY <3>1, <3>2
  <2>3. /\ Kept(q, M, N, ord, e) /\ Fits(e, "delete", e.root, M)
        /\ \E x : Even(e, M, x, GapNode(e, "delete", e.root), SideOf(e, e.root))
    <3> DEFINE v == q.kid[o][p]
    <3>1. v \notin q.red /\ q.kid[o][v] \in q.red /\ q.kid[o][p] = v
          /\ RaiseBrother(q, p, v, s) = e
      BY <1>0, <2>2
    <3> HIDE DEF v
    <3>. QED BY <1>0, <2>2, <3>1, RaiseBrotherIs
  <2>4. Kept(t, M, N, ord, e)
    BY <2>2, <2>3, KeptTwice
  <2>5. PICK x : Even(e, M, x, GapNode(e, "delete", e.root), SideOf(e, e.root))
    BY <2>3
  <2>6. Sound(e, "delete", e.root, D, M, N, ord, x)
    BY <1>1, <2>3, <2>4, <2>5, KeptIsSound
  <2>. QED BY <2>1, <2>6
<1>. QED BY <1>4, <1>5

-----------------------------------------------------------------------------
(* An insertion.                                                            *)

\* n, due at d, has its key, and what is in neither tree is unchanged.
Grown(t, u, M, n, d) ==
  /\ u \in TreeType /\ u.red \subseteq M \cup {n} /\ u.insert = t.insert
  /\ u.key[n] = Key(t.insert, d) /\ u.str[n] = Str(t.insert, d)
  /\ \A z \in Nodes \ {n} : u.key[z] = t.key[z] /\ u.str[z] = t.str[z]
  /\ \A z \in Nodes \ (M \cup {n}) :
       u.parent[z] = t.parent[z] /\ \A a \in Sides : u.kid[a][z] = t.kid[a][z]

\* k is the place of what is due at d.
PlaceOf(M, N, ord, D, d, k) ==
  k \in 1 .. N + 1 /\ \A z \in M : IF ord[z] < k THEN D[z] <= d ELSE d < D[z]

\* n may enter, due at d.
MayEnter(t, M, D, n, d) ==
  /\ n \in Nodes \ M /\ d \in Nat
  /\ t.insert = "value" => d < 2 * Half
  /\ t.insert = "string" => d < 8 * Half
  /\ t.insert = "timer" => Spread([D EXCEPT ![n] = d], M \cup {n})

LEMMA BaseGrows ==
  ASSUME NEW t, NEW D, NEW M, NEW N, NEW ord, Base(t, D, M, N, ord),
         NEW n, NEW d, MayEnter(t, M, D, n, d), NEW u, Grown(t, u, M, n, d),
         NEW k, PlaceOf(M, N, ord, D, d, k),
         \E e : Shape(u, M \cup {n}, N + 1, Opened(ord, n, k), e)
  PROVE  Base(u, [D EXCEPT ![n] = d], M \cup {n}, N + 1, Opened(ord, n, k))
<1> DEFINE E == [D EXCEPT ![n] = d]
           f == Opened(ord, n, k)
<1>1. /\ Ranked(M, N, ord) /\ Keyed(t, M, D) /\ Ordered(M, ord, D) /\ Blank(t, M)
      /\ D \in [Nodes -> Nat] /\ n \in Nodes /\ n \notin M /\ d \in Nat /\ M \subseteq Nodes
  BY DEF Base, Keyed, MayEnter, Shape, Ranked
<1>2. E \in [Nodes -> Nat] /\ E[n] = d /\ \A z \in M : E[z] = D[z] /\ z # n
  BY <1>1
<1> HIDE DEF E
<1>3. /\ f[n] = k /\ \A z \in M : f[z] = IF ord[z] >= k THEN ord[z] + 1 ELSE ord[z]
      /\ k \in Nat /\ \A z \in M : ord[z] \in Nat /\ D[z] \in Nat
  BY <1>1, <1>2 DEF Opened, Ranked, PlaceOf
<1> HIDE DEF f
<1>4. Ordered(M \cup {n}, f, E)
  <2>1. ASSUME NEW x \in M \cup {n}, NEW y \in M \cup {n}, f[x] < f[y] PROVE E[x] <= E[y]
    <3>1. CASE x \in M /\ y \in M
      <4>1. ord[x] < ord[y]
        BY <1>3, <2>1, <3>1
      <4>. QED BY <1>1, <1>2, <3>1, <4>1 DEF Ordered
    <3>2. CASE x \in M /\ y = n
      <4>1. ord[x] < k
        BY <1>3, <2>1, <3>2
      <4>. QED BY <1>2, <3>2, <4>1 DEF PlaceOf
    <3>3. CASE x = n /\ y \in M
      <4>1. ~(ord[y] < k)
        BY <1>3, <2>1, <3>3
      <4>2. d < D[y]
        BY <3>3, <4>1 DEF PlaceOf
      <4>. QED BY <1>1, <1>2, <1>3, <3>3, <4>2
    <3>4. CASE x = n /\ y = n
      BY <1>3, <2>1, <3>4
    <3>. QED BY <3>1, <3>2, <3>3, <3>4
  <2>. QED BY <2>1 DEF Ordered
<1>5. Keyed(u, M \cup {n}, E)
  <2>1. ASSUME NEW x \in M \cup {n}
        PROVE  /\ u.key[x] = Key(u.insert, E[x]) /\ u.str[x] = Str(u.insert, E[x])
               /\ u.insert = "value" => E[x] < 2 * Half
    <3>1. CASE x = n
      BY <1>2, <3>1 DEF Grown, MayEnter
    <3>2. CASE x \in M
      <4>1. u.insert = t.insert /\ u.key[x] = t.key[x] /\ u.str[x] = t.str[x]
        BY <1>1, <3>2 DEF Grown
      <4>2. /\ t.key[x] = Key(t.insert, D[x]) /\ t.str[x] = Str(t.insert, D[x])
            /\ t.insert = "value" => D[x] < 2 * Half
        BY <1>1, <3>2 DEF Keyed
      <4>. QED BY <1>2, <3>2, <4>1, <4>2
    <3>. QED BY <3>1, <3>2
  <2>2. u.insert \in Orders
    BY <1>1 DEF Grown, Keyed
  <2>. QED BY <1>2, <2>1, <2>2 DEF Keyed
<1>6. Blank(u, M \cup {n})
  <2>1. ASSUME NEW z \in Nodes \ (M \cup {n})
        PROVE  /\ \A s \in Sides : u.kid[s][z] = Null
               /\ u.parent[z] = Null /\ u.key[z] = 0 /\ z \notin u.red
    BY <1>1 DEF Blank, Grown
  <2>. QED BY <2>1, BlankIs DEF f
<1>7. u.insert = "timer" => Spread(E, M \cup {n})
  BY DEF Grown, MayEnter, E
<1>8. Base(u, E, M \cup {n}, N + 1, f)
  BY <1>4, <1>5, <1>6, <1>7 DEF Base, Grown, f
<1>. QED BY <1>8 DEF E, f

\* n, due at d, has entered at a place k that fits, which leaves the tree t with
\* the loop of q at c.
Entry(t, q, c, D, M, N, ord, n, d) ==
  \E k, f : /\ PlaceOf(M, N, ord, D, d, k)
            /\ Sound(t, q, c, [D EXCEPT ![n] = d], M \cup {n}, N + 1, Opened(ord, n, k), f)

LEMMA FirstIsSound ==
  ASSUME NEW t, NEW D, NEW M, NEW N, NEW ord, Base(t, D, M, N, ord), t.root = Nil,
         NEW n, NEW d, MayEnter(t, M, D, n, d),
         NEW u, Paint(AsRoot(Entered(t, n, d), n), {n}, {}) = u
  PROVE  Entry(u, "idle", Nil, D, M, N, ord, n, d)
<1> DEFINE b == [z \in Nodes \cup {Nil} |-> 0]
<1>1. PICK end : Shape(t, M, N, ord, end)
  BY DEF Base
<1>2. N = 0 /\ M \subseteq Nodes /\ Nil \notin M
  <2>1. M \subseteq Nodes /\ Nil \notin M
    BY <1>1, ShapeFacts
  <2>2. RootFits(t, M, N, end)
    BY <1>1 DEF Shape
  <2>. QED BY <2>1, <2>2 DEF RootFits
<1>3. t \in TreeType /\ n \in Nodes /\ d \in Nat /\ (t.insert = "string" => d < 8 * Half)
  BY DEF Base, MayEnter
<1>4. Rooted(t, u, n, d)
  BY <1>3, RootedIs
<1>5. u.root = n /\ \A s \in Sides : u.kid[s][n] = Nil
  BY <1>3, <1>4 DEF Rooted
<1>6. M = {} /\ \E e : Shape(u, {n}, 1, Opened(ord, n, 1), e)
  BY <1>1, <1>2, <1>3, <1>5, FirstIsShape
<1>7. PlaceOf(M, N, ord, D, d, 1)
  BY <1>2, <1>6 DEF PlaceOf
<1>8. u.red = {}
  BY <1>4, <1>6 DEF Rooted, Base
<1>9. Grown(t, u, M, n, d)
  BY <1>4, <1>6, <1>8 DEF Grown, Rooted
<1>10. M \cup {n} = {n} /\ N + 1 = 1
  BY <1>2, <1>6
<1>11. Base(u, [D EXCEPT ![n] = d], M \cup {n}, N + 1, Opened(ord, n, 1))
  BY <1>6, <1>7, <1>9, <1>10, BaseGrows
<1>12. Fits(u, "idle", Nil, M \cup {n})
  BY <1>8 DEF Fits, NoReds
<1>13. GapNode(u, "idle", Nil) = Nil /\ n # Nil
  BY <1>3, NilIsNone DEF GapNode
<1>14. Even(u, M \cup {n}, b, Nil, SideOf(u, Nil))
  <2>1. b \in [Nodes \cup {Nil} -> Nat] /\ b[Nil] = 0 /\ b[n] = 0
    BY <1>3
  <2>2. Own(u, Nil) = 0
    BY DEF Own
  <2> HIDE DEF b
  <2>3. ASSUME NEW z \in M \cup {n}, NEW a \in Sides
        PROVE  b[z] = Own(u, u.kid[a][z]) + b[u.kid[a][z]]
                      + (IF z = Nil /\ a = SideOf(u, Nil) THEN 1 ELSE 0)
    <3>1. z = n
      BY <1>10
    <3>. QED BY <1>5, <1>13, <2>1, <2>2, <3>1
  <2>. QED BY <2>1, <2>3 DEF Even
<1>15. Sound(u, "idle", Nil, [D EXCEPT ![n] = d], M \cup {n}, N + 1, Opened(ord, n, 1), b)
  BY <1>11, <1>12, <1>13, <1>14 DEF Sound
<1>. QED BY <1>7, <1>15 DEF Entry

\* What is due at d is in reach of the members.
LEMMA EntersInReach ==
  ASSUME NEW t, NEW M, NEW D, Keyed(t, M, D), M \subseteq Nodes,
         NEW n, NEW d, MayEnter(t, M, D, n, d)
  PROVE  InReach(t, M, D, d)
<1> DEFINE E == [D EXCEPT ![n] = d]
<1>1. n \in Nodes /\ n \notin M /\ d \in Nat /\ D \in [Nodes -> Nat]
  BY DEF MayEnter, Keyed
<1>2. E[n] = d /\ \A x \in M : E[x] = D[x]
  BY <1>1
<1> HIDE DEF E
<1>3. ASSUME t.insert = "timer" PROVE \A x \in M : d - D[x] < Half /\ D[x] - d < Half
  <2>1. Spread(E, M \cup {n})
    BY <1>3 DEF MayEnter, E
  <2>2. \A x \in M : E[n] - E[x] < Half /\ E[x] - E[n] < Half
    BY <2>1 DEF Spread
  <2>. QED BY <1>2, <2>2
<1>. QED BY <1>1, <1>3 DEF InReach, MayEnter

LEMMA HookedIsSound ==
  ASSUME NEW t, NEW D, NEW M, NEW N, NEW ord, NEW b, Sound(t, "idle", Nil, D, M, N, ord, b),
         t.root # Nil, NEW n, NEW d, MayEnter(t, M, D, n, d),
         NEW p, Bottom(t, d) = p, NEW s, Toward(t, d, p) = s,
         NEW u, Paint(AsKid(Entered(t, n, d), n, p, s), {}, {n}) = u
  PROVE  Entry(u, "insert", n, D, M, N, ord, n, d)
<1> DEFINE k == IF s = "left" THEN ord[p] ELSE ord[p] + 1
           f == [z \in Nodes \cup {Nil} |-> IF z = n THEN 0 ELSE b[z]]
<1>1. /\ Base(t, D, M, N, ord) /\ Keyed(t, M, D) /\ Ordered(M, ord, D) /\ t \in TreeType
      /\ t.red \subseteq M /\ NoReds(t, M) /\ t.root \notin t.red
      /\ Even(t, M, b, Nil, SideOf(t, Nil))
  BY DEF Sound, Base, Fits, GapNode
<1>2. PICK end : Shape(t, M, N, ord, end)
  BY <1>1 DEF Base
<1>3. M \subseteq Nodes /\ Nil \notin M /\ N \in Nat
  BY <1>2, ShapeFacts
<1>4. /\ n \in Nodes /\ n \notin M /\ n # Nil /\ d \in Nat
      /\ (t.insert = "string" => d < 8 * Half)
  BY NilIsNone DEF MayEnter
<1>5. InReach(t, M, D, d)
  BY <1>1, <1>3, EntersInReach
<1>6. /\ p \in M /\ s \in Sides /\ t.kid[s][p] = Nil
      /\ \A z \in M : IF ord[z] < k THEN D[z] <= d ELSE d < D[z]
  BY <1>1, <1>2, <1>5, BottomIs
<1>7. PlaceOf(M, N, ord, D, d, k)
  <2>1. ord[p] \in 1..N
    BY <1>2, <1>6, ShapeFacts
  <2>2. k \in 1 .. N + 1
    BY <1>3, <2>1
  <2>. QED BY <1>6, <2>2 DEF PlaceOf
<1>8. Hooked(t, u, n, d, p, s)
  BY <1>1, <1>3, <1>4, <1>6, HookedIs
<1>9. Joined(t, u, M, n, p, s)
  BY <1>3, <1>4, <1>8 DEF Joined, Hooked
<1>10. \E e : Shape(u, M \cup {n}, N + 1, Opened(ord, n, k), e)
  BY <1>2, <1>4, <1>6, <1>9, JoinKeepsShape
<1>11. Grown(t, u, M, n, d)
  <2>1. u.red \subseteq M \cup {n}
    BY <1>1, <1>8 DEF Hooked
  <2>2. \A z \in Nodes \ (M \cup {n}) :
          u.parent[z] = t.parent[z] /\ \A a \in Sides : u.kid[a][z] = t.kid[a][z]
    BY <1>6, <1>8 DEF Hooked
  <2>. QED BY <1>8, <2>1, <2>2 DEF Grown, Hooked
<1> HIDE DEF k
<1>12. Base(u, [D EXCEPT ![n] = d], M \cup {n}, N + 1, Opened(ord, n, k))
  BY <1>1, <1>7, <1>10, <1>11, BaseGrows
<1>13. /\ u.red = t.red \cup {n} /\ u.root = t.root
       /\ \A a \in Sides, z \in Nodes \cup {Nil} :
            u.kid[a][z] = IF z = n THEN Nil ELSE IF a = s /\ z = p THEN n ELSE t.kid[a][z]
  BY <1>8 DEF Hooked
<1>14. t.root \in M
  BY <1>2 DEF Shape, RootFits
<1>15. Fits(u, "insert", n, M \cup {n})
  <2>1. ASSUME NEW z \in M \cup {n}, NEW a \in Sides, z \in u.red, u.kid[a][z] \in u.red,
               u.kid[a][z] # n
        PROVE  FALSE
    <3>1. Nil \notin u.red
      BY <1>1, <1>3, <1>4, <1>13
    <3>2. z # n /\ z \in M
      BY <1>3, <1>4, <1>13, <2>1, <3>1
    <3>3. u.kid[a][z] = t.kid[a][z]
      BY <1>3, <1>13, <2>1, <3>2
    <3>. QED BY <1>1, <1>13, <2>1, <3>2, <3>3 DEF NoReds
  <2>2. Reds(u, M \cup {n}, n, Nil)
    BY <2>1 DEF Reds
  <2>3. u.root \notin u.red
    BY <1>1, <1>4, <1>13, <1>14
  <2>. QED BY <1>13, <2>2, <2>3 DEF Fits
<1>16. b \in [Nodes \cup {Nil} -> Nat] /\ b[Nil] = 0
  BY <1>1 DEF Even
<1>17. f \in [Nodes \cup {Nil} -> Nat] /\ f[n] = 0 /\ f[Nil] = 0
       /\ \A z \in M : f[z] = b[z]
  BY <1>3, <1>4, <1>16
<1> HIDE DEF f
<1>18. ASSUME NEW z \in M \cup {n}, NEW a \in Sides
       PROVE  f[z] = Own(u, u.kid[a][z]) + f[u.kid[a][z]]
                     + (IF z = Nil /\ a = SideOf(u, n) THEN 1 ELSE 0)
  <2>0. z # Nil /\ Own(u, Nil) = 0 /\ Own(t, Nil) = 0
    BY <1>3, <1>4 DEF Own
  <2>1. CASE z = n
    <3>1. u.kid[a][z] = Nil
      BY <1>4, <1>13, <2>1
    <3>. QED BY <1>17, <2>0, <2>1, <3>1
  <2>2. CASE z \in M /\ a = s /\ z = p
    <3>1. u.kid[a][z] = n /\ t.kid[a][z] = Nil
      BY <1>3, <1>4, <1>6, <1>13, <2>2
    <3>2. b[z] = Own(t, t.kid[a][z]) + b[t.kid[a][z]]
                 + (IF z = Nil /\ a = SideOf(t, Nil) THEN 1 ELSE 0)
      BY <1>1, <2>2 DEF Even
    <3>3. Own(u, n) = 0
      BY <1>13 DEF Own
    <3>. QED BY <1>16, <1>17, <2>0, <2>2, <3>1, <3>2, <3>3
  <2>3. CASE z \in M /\ ~(a = s /\ z = p)
    <3> DEFINE q == t.kid[a][z]
    <3>1. u.kid[a][z] = q
      BY <1>3, <1>4, <1>13, <2>3
    <3>2. q = Nil \/ q \in M
      BY <1>2, <2>3, DownTo
    <3>3. b[z] = Own(t, q) + b[q] + (IF z = Nil /\ a = SideOf(t, Nil) THEN 1 ELSE 0)
      BY <1>1, <2>3 DEF Even
    <3> HIDE DEF q
    <3>4. Own(u, q) = Own(t, q) /\ f[q] = b[q]
      BY <1>4, <1>13, <1>16, <1>17, <3>2 DEF Own
    <3>. QED BY <1>17, <2>0, <2>3, <3>1, <3>3, <3>4
  <2>. QED BY <2>1, <2>2, <2>3
<1>19. Even(u, M \cup {n}, f, GapNode(u, "insert", n), SideOf(u, n))
  <2>1. GapNode(u, "insert", n) = Nil
    BY DEF GapNode
  <2>. QED BY <1>17, <1>18, <2>1 DEF Even
<1>20. Sound(u, "insert", n, [D EXCEPT ![n] = d], M \cup {n}, N + 1, Opened(ord, n, k), f)
  BY <1>12, <1>15, <1>19 DEF Sound
<1>. QED BY <1>7, <1>20 DEF Entry

-----------------------------------------------------------------------------
(* A deletion.                                                              *)

\* What is now where k was, and where what is now at z was.
Moved(k, n, x, y) == IF k = x THEN y ELSE IF k = n THEN x ELSE k
Origin(z, n, x) == IF z = x THEN n ELSE z

\* n is out, x in its place and y in that of x.
Gone(t, u, M, n, x, y) ==
  /\ u.root = Moved(t.root, n, x, y)
  /\ \A z \in M \ {n}, a \in Sides :
       u.kid[a][z] = Moved(t.kid[a][Origin(z, n, x)], n, x, y)
  /\ \A z \in M \ {n} : z \in u.red <=> Origin(z, n, x) \in t.red /\ ~(z = y /\ x = t.root)

\* x, that has one kid y at most, goes from its place.
Leaves(t, M, b, n, x, y) ==
  /\ n \in M /\ x \in M /\ y \in M \cup {Nil} /\ y # n /\ y # x
  /\ b[x] = 0 /\ b[y] = 0 /\ (y = Nil \/ y \in t.red) /\ (x \in t.red => y = Nil)
  /\ \E a \in Sides : y = t.kid[a][x]
  /\ x # n => x # t.root

LEMMA LeavesIs ==
  ASSUME NEW t \in TreeType, NEW M, NEW N, NEW ord, NEW end, Shape(t, M, N, ord, end),
         NEW b, NEW r, Even(t, M, b, Nil, r), NoReds(t, M),
         NEW n \in M, NEW x, Subst(t, n) = x, NEW y, Temp(t, n) = y
  PROVE  Leaves(t, M, b, n, x, y)
<1>1. /\ x \in M /\ y \in M \cup {Nil} /\ y # n /\ y # x /\ (x # n => x # t.root)
  BY SubstIs
<1>2. PICK a \in Sides : t.kid[Other(a)][x] = Nil /\ y = t.kid[a][x]
  BY SubstIs
<1>3. Nil \notin M /\ M \subseteq Nodes
  BY ShapeFacts
<1>4. b \in [Nodes \cup {Nil} -> Nat] /\ b[Nil] = 0
  BY DEF Even
<1>5. b[x] = 0
  <2>1. b[x] = Own(t, Nil) + b[Nil] + (IF x = Nil /\ Other(a) = r THEN 1 ELSE 0)
    BY <1>1, <1>2, SideFacts DEF Even
  <2>2. Own(t, Nil) = 0 /\ x # Nil
    BY <1>1, <1>3 DEF Own
  <2>. QED BY <1>4, <2>1, <2>2
<1>6. b[y] = 0 /\ Own(t, y) = 0
  <2>1. b[x] = Own(t, y) + b[y] + (IF x = Nil /\ a = r THEN 1 ELSE 0)
    BY <1>1, <1>2 DEF Even
  <2>2. b[y] \in Nat /\ Own(t, y) \in Nat /\ x # Nil
    BY <1>1, <1>3, <1>4 DEF Own
  <2>. QED BY <1>5, <2>1, <2>2
<1>7. y = Nil \/ y \in t.red
  BY <1>6 DEF Own
<1>8. x \in t.red => y = Nil
  BY <1>1, <1>2, <1>7 DEF NoReds
<1>. QED BY <1>1, <1>2, <1>5, <1>6, <1>7, <1>8 DEF Leaves

\* The node below which y hangs now.
GapPlace(t, n, x) == IF t.parent[x] = n THEN x ELSE t.parent[x]

\* x's link is where y hangs.
LEMMA GapPlaceIs ==
  ASSUME NEW t \in TreeType, NEW M, NEW N, NEW ord, NEW end, Shape(t, M, N, ord, end),
         NEW b, NEW n, NEW x, NEW y, Leaves(t, M, b, n, x, y),
         NEW u, Gone(t, u, M, n, x, y), x # t.root,
         NEW g, GapPlace(t, n, x) = g, NEW s, SideOf(t, x) = s
  PROVE  /\ g \in M \ {n} /\ s \in Sides /\ u.kid[s][g] = y
         /\ \A z \in M \ {n}, a \in Sides : t.kid[a][Origin(z, n, x)] = x <=> z = g /\ a = s
<1> DEFINE p == t.parent[x]
<1>1. n \in M /\ x \in M
  BY DEF Leaves
<1>2. p \in M /\ p # x /\ s \in Sides /\ t.kid[s][p] = x
  BY <1>1, UpTo
<1>3. x # Nil
  BY <1>1, ShapeFacts
<1>4. \A z \in M, a \in Sides : t.kid[a][z] = x => z = p /\ a = s
  BY <1>2, <1>3, LinkIs
<1>5. g = IF p = n THEN x ELSE p
  BY DEF GapPlace
<1> HIDE DEF p
<1>6. g \in M \ {n}
  BY <1>1, <1>2, <1>5
<1>7. \A z \in M \ {n} : Origin(z, n, x) \in M /\ (Origin(z, n, x) = p <=> z = g)
  BY <1>1, <1>2, <1>5 DEF Origin
<1>8. u.kid[s][g] = y
  BY <1>2, <1>6, <1>7 DEF Gone, Moved
<1>9. \A z \in M \ {n}, a \in Sides : t.kid[a][Origin(z, n, x)] = x <=> z = g /\ a = s
  BY <1>2, <1>4, <1>7
<1>. QED BY <1>2, <1>6, <1>8, <1>9

LEMMA GoneIsEven ==
  ASSUME NEW t \in TreeType, NEW M, NEW N, NEW ord, NEW end, Shape(t, M, N, ord, end),
         NEW b, NEW r, Even(t, M, b, Nil, r),
         NEW n, NEW x, NEW y, Leaves(t, M, b, n, x, y),
         NEW u, Gone(t, u, M, n, x, y)
  PROVE  \E d : Even(u, M \ {n}, d,
                     IF x \in t.red \/ x = t.root THEN Nil ELSE GapPlace(t, n, x), SideOf(t, x))
<1> DEFINE d == [z \in Nodes \cup {Nil} |-> IF z = x THEN b[n] ELSE b[z]]
           g == IF x \in t.red \/ x = t.root THEN Nil ELSE GapPlace(t, n, x)
           s == SideOf(t, x)
<1>1. /\ n \in M /\ x \in M /\ y \in M \cup {Nil} /\ y # n /\ y # x
      /\ b[x] = 0 /\ b[y] = 0 /\ (y = Nil \/ y \in t.red) /\ (x # n => x # t.root)
  BY DEF Leaves
<1>2. M \subseteq Nodes /\ Nil \notin M
  BY ShapeFacts
<1>3. /\ b \in [Nodes \cup {Nil} -> Nat] /\ b[Nil] = 0
      /\ \A z \in M, a \in Sides :
           b[z] = Own(t, t.kid[a][z]) + b[t.kid[a][z]] + (IF z = Nil /\ a = r THEN 1 ELSE 0)
  BY DEF Even
<1>4. d \in [Nodes \cup {Nil} -> Nat] /\ d[Nil] = 0 /\ d[x] = b[n]
      /\ \A z \in Nodes \cup {Nil} : z # x => d[z] = b[z]
  BY <1>1, <1>2, <1>3
<1> HIDE DEF d
<1>5. \A z \in M \ {n} : z # Nil /\ (z = g /\ ~(x \in t.red) => x # t.root)
  BY <1>2
<1>6. x \in t.red => \A z \in M \ {n} : z # g
  BY <1>2
<1>7. ASSUME NEW z \in M \ {n}, NEW a \in Sides
      PROVE  d[z] = Own(u, u.kid[a][z]) + d[u.kid[a][z]] + (IF z = g /\ a = s THEN 1 ELSE 0)
  <2> DEFINE o == Origin(z, n, x)
             k == t.kid[a][o]
  <2>1. o \in M /\ o # x /\ d[z] = b[o]
    BY <1>1, <1>2, <1>4 DEF Origin
  <2>2. u.kid[a][z] = IF k = x THEN y ELSE IF k = n THEN x ELSE k
    BY DEF Gone, Moved
  <2> HIDE DEF o
  <2>3. b[o] = Own(t, k) + b[k] + (IF o = Nil /\ a = r THEN 1 ELSE 0)
    BY <1>3, <2>1
  <2>4. k = Nil \/ k \in M
    BY <1>2, <2>1, LinkIs
  <2>5. y # Nil => k # y
    <3>1. ASSUME y # Nil, k = y PROVE FALSE
      <4>1. PICK c \in Sides : y = t.kid[c][x]
        BY DEF Leaves
      <4>2. t.parent[y] = x
        BY <1>1, <3>1, <4>1, KidIs
      <4>3. t.parent[y] = o
        BY <2>1, <3>1, KidIs
      <4>. QED BY <2>1, <4>2, <4>3
    <3>. QED BY <3>1
  <2>6. o # Nil
    BY <1>2, <2>1
  <2>7. k = x => x # t.root
    BY <1>1, <1>2, <2>1, KidIs
  <2>8. k = x <=> x # t.root /\ z = GapPlace(t, n, x) /\ a = s
    <3>1. CASE x = t.root
      BY <2>7, <3>1
    <3>2. CASE x # t.root
      BY <3>2, GapPlaceIs DEF o
    <3>. QED BY <3>1, <3>2
  <2> HIDE DEF k, s
  <2>9. Own(t, k) \in Nat /\ b[k] \in Nat
    BY <1>2, <1>3, <2>4 DEF Own
  <2>10. b[o] = Own(t, k) + b[k]
    BY <2>3, <2>6, <2>9
  <2>11. CASE k = x
    <3>1. Own(u, y) = 0 /\ d[y] = 0
      <4>1. y # Nil => y \in u.red
        BY <1>1, <2>7, <2>11 DEF Gone, Origin
      <4>. QED BY <1>1, <1>2, <1>4, <4>1 DEF Own
    <3>2. Own(t, x) = IF x \in t.red THEN 0 ELSE 1
      BY <1>1, <1>2 DEF Own
    <3>3. (z = g /\ a = s) <=> x \notin t.red
      BY <1>5, <1>6, <2>8, <2>11
    <3>. HIDE DEF g
    <3>. QED BY <1>1, <2>1, <2>2, <2>10, <2>11, <3>1, <3>2, <3>3
  <2>12. CASE k # x
    <3>1. ~(z = g /\ a = s)
      BY <1>5, <2>8, <2>12
    <3>. HIDE DEF g
    <3>2. CASE k = n
      <4>1. x # n /\ x \in M \ {n} /\ x # y
        BY <1>1, <2>12, <3>2
      <4>2. x \in u.red <=> n \in t.red
        BY <4>1 DEF Gone, Origin
      <4>3. Own(u, x) = Own(t, n)
        BY <1>1, <1>2, <4>2 DEF Own
      <4>4. u.kid[a][z] = x
        BY <2>2, <2>12, <3>2
      <4>. QED BY <1>4, <2>1, <2>9, <2>10, <3>1, <3>2, <4>3, <4>4
    <3>3. CASE k # n
      <4>1. u.kid[a][z] = k
        BY <2>2, <2>12, <3>3
      <4>2. d[k] = b[k]
        BY <1>2, <1>4, <2>4, <2>12
      <4>3. k # Nil => (k \in u.red <=> k \in t.red)
        BY <2>4, <2>5, <2>12, <3>3 DEF Gone, Origin
      <4>4. Own(u, k) = Own(t, k)
        BY <4>3 DEF Own
      <4>. QED BY <2>1, <2>9, <2>10, <3>1, <4>1, <4>2, <4>4
    <3>. QED BY <3>2, <3>3
  <2>. QED BY <2>11, <2>12
<1>8. Even(u, M \ {n}, d, g, s)
  BY <1>4, <1>7 DEF Even
<1>. QED BY <1>8

\* Red nodes stay apart, but for y below its new parent.
LEMMA GoneIsApart ==
  ASSUME NEW t \in TreeType, NEW M, NEW N, NEW ord, NEW end, Shape(t, M, N, ord, end),
         NoReds(t, M), t.root \notin t.red, t.red \subseteq M,
         NEW b, NEW n, NEW x, NEW y, Leaves(t, M, b, n, x, y),
         NEW u, Gone(t, u, M, n, x, y), u.red \subseteq M \ {n}
  PROVE  /\ Reds(u, M \ {n}, y, y) /\ u.root \notin u.red
         /\ x \in t.red \/ x = t.root => NoReds(u, M \ {n})
<1>1. /\ n \in M /\ x \in M /\ y \in M \cup {Nil} /\ y # n /\ y # x
      /\ (x # n => x # t.root) /\ (x \in t.red => y = Nil)
  BY DEF Leaves
<1>2. M \subseteq Nodes /\ Nil \notin M
  BY ShapeFacts
<1>3. ASSUME NEW z \in M \ {n}, NEW a \in Sides, z \in u.red, u.kid[a][z] \in u.red
      PROVE  u.kid[a][z] = y /\ x \notin t.red /\ x # t.root
  <2> DEFINE o == Origin(z, n, x)
             k == t.kid[a][o]
  <2>1. o \in M /\ o \in t.red
    BY <1>1, <1>3 DEF Origin, Gone
  <2>2. u.kid[a][z] = IF k = x THEN y ELSE IF k = n THEN x ELSE k
    BY DEF Gone, Moved
  <2> HIDE DEF o
  <2>3. k \notin t.red
    BY <2>1 DEF NoReds
  <2>4. k = x => x # t.root
    BY <1>1, <1>2, <2>1, KidIs
  <2> HIDE DEF k
  <2>5. CASE k = x
    <3>1. y \in u.red
      BY <1>3, <2>2, <2>5
    <3>2. y # Nil
      BY <1>2, <3>1
    <3>. QED BY <1>1, <2>2, <2>4, <2>5, <3>2
  <2>6. CASE k # x /\ k = n
    <3>1. x \in u.red /\ x \in M \ {n}
      BY <1>1, <1>3, <2>2, <2>6
    <3>. QED BY <2>3, <2>6, <3>1 DEF Gone, Origin
  <2>7. CASE k # x /\ k # n
    <3>1. k \in u.red /\ k \in M \ {n}
      BY <1>3, <2>2, <2>7
    <3>. QED BY <2>3, <2>7, <3>1 DEF Gone, Origin
  <2>. QED BY <2>5, <2>6, <2>7
<1>4. u.root \notin u.red
  <2>1. ASSUME u.root \in u.red PROVE FALSE
    <3>1. u.root \in M \ {n}
      BY <2>1
    <3>2. u.root = IF t.root = x THEN y ELSE IF t.root = n THEN x ELSE t.root
      BY DEF Gone, Moved
    <3>3. CASE t.root = x
      BY <2>1, <3>1, <3>2, <3>3 DEF Gone
    <3>4. CASE t.root # x /\ t.root = n
      BY <2>1, <3>1, <3>2, <3>4 DEF Gone, Origin
    <3>5. CASE t.root # x /\ t.root # n
      BY <2>1, <3>1, <3>2, <3>5 DEF Gone, Origin
    <3>. QED BY <3>3, <3>4, <3>5
  <2>. QED BY <2>1
<1>. QED BY <1>3, <1>4 DEF Reds, NoReds

\* n's fields are cleared, and what was in neither tree is unchanged.
Lessened(t, u, M, n) ==
  /\ u \in TreeType /\ u.red \subseteq M \ {n} /\ u.insert = t.insert
  /\ u.key[n] = 0 /\ u.parent[n] = Null /\ \A a \in Sides : u.kid[a][n] = Null
  /\ \A z \in Nodes \ {n} : u.key[z] = t.key[z] /\ u.str[z] = t.str[z]
  /\ \A z \in Nodes \ M : u.parent[z] = t.parent[z] /\ \A a \in Sides : u.kid[a][z] = t.kid[a][z]

LEMMA BaseShrinks ==
  ASSUME NEW t, NEW D, NEW M, NEW N, NEW ord, Base(t, D, M, N, ord),
         NEW n \in M, NEW u, Lessened(t, u, M, n),
         \E e : Shape(u, M \ {n}, N - 1, Closed(ord, ord[n]), e)
  PROVE  Base(u, [D EXCEPT ![n] = 0], M \ {n}, N - 1, Closed(ord, ord[n]))
<1> DEFINE E == [D EXCEPT ![n] = 0]
           f == Closed(ord, ord[n])
<1>1. /\ Ranked(M, N, ord) /\ Keyed(t, M, D) /\ Ordered(M, ord, D) /\ Blank(t, M)
      /\ D \in [Nodes -> Nat] /\ n \in Nodes /\ M \subseteq Nodes
  BY DEF Base, Keyed, Shape, Ranked
<1>2. E \in [Nodes -> Nat] /\ \A z \in M \ {n} : E[z] = D[z]
  BY <1>1
<1> HIDE DEF E
<1>3. /\ \A z \in M : f[z] = IF ord[z] > ord[n] THEN ord[z] - 1 ELSE ord[z]
      /\ \A z \in M : ord[z] \in Int
      /\ \A z \in M \ {n} : ord[z] # ord[n]
  BY <1>1 DEF Closed, Ranked
<1> HIDE DEF f
<1>4. Ordered(M \ {n}, f, E)
  <2>1. ASSUME NEW x \in M \ {n}, NEW y \in M \ {n}, f[x] < f[y] PROVE E[x] <= E[y]
    <3>1. ord[x] < ord[y]
      BY <1>3, <2>1
    <3>. QED BY <1>1, <1>2, <3>1 DEF Ordered
  <2>. QED BY <2>1 DEF Ordered
<1>5. Keyed(u, M \ {n}, E)
  BY <1>1, <1>2 DEF Keyed, Lessened
<1>6. Blank(u, M \ {n})
  <2>1. ASSUME NEW z \in Nodes \ (M \ {n})
        PROVE  /\ \A s \in Sides : u.kid[s][z] = Null
               /\ u.parent[z] = Null /\ u.key[z] = 0 /\ z \notin u.red
    <3>1. CASE z = n
      BY <3>1 DEF Lessened
    <3>2. CASE z # n
      BY <1>1, <3>2 DEF Lessened, Blank
    <3>. QED BY <3>1, <3>2
  <2>. QED BY <2>1, BlankIs DEF f
<1>7. u.insert = "timer" => Spread(E, M \ {n})
  <2>1. u.insert = "timer" => Spread(D, M)
    BY DEF Base, Lessened
  <2>. QED BY <1>2, <2>1 DEF Spread
<1>8. Base(u, E, M \ {n}, N - 1, f)
  BY <1>4, <1>5, <1>6, <1>7 DEF Base, Lessened, f
<1>. QED BY <1>8 DEF E, f

\* The node and the side that lack a black node are those by which the loop
\* finds its node.
LEMMA GapIs ==
  ASSUME NEW t, NEW M, NEW N, NEW ord, NEW end, Shape(t, M, N, ord, end),
         NEW b, NEW p \in M, NEW s \in Sides, Even(t, M, b, p, s),
         NEW c, t.kid[s][p] = c, c = Nil => t.parent[Nil] = p
  PROVE  GapNode(t, "delete", c) = p /\ SideOf(t, c) = s /\ (c \in M \/ c = Nil)
<1>1. M \subseteq Nodes /\ Nil \notin M
  BY ShapeFacts
<1>2. CASE c # Nil
  <2>1. c \in M /\ t.parent[c] = p /\ c # t.root /\ SideOf(t, c) = s
    BY <1>2, KidIs
  <2>. QED BY <2>1 DEF GapNode
<1>3. CASE c = Nil
  <2>1. t.root # Nil
    <3>1. RootFits(t, M, N, end) /\ Ranked(M, N, ord)
      BY DEF Shape
    <3>. QED BY <1>1, <3>1 DEF RootFits, Ranked
  <2>2. ASSUME t.kid[Other(s)][p] = Nil PROVE FALSE
    <3>1. b[p] = Own(t, Nil) + b[Nil] + 0
      BY <2>2, SideFacts DEF Even
    <3>2. b[p] = Own(t, Nil) + b[Nil] + 1
      BY <1>3 DEF Even
    <3>3. b[Nil] = 0 /\ Own(t, Nil) = 0
      BY DEF Even, Own
    <3>. QED BY <3>1, <3>2, <3>3
  <2>3. SideOf(t, Nil) = s
    BY <1>3, <2>2, SideFacts DEF SideOf
  <2>. QED BY <1>3, <2>1, <2>3 DEF GapNode
<1>. QED BY <1>2, <1>3

LEMMA GoneIsSound ==
  ASSUME NEW t, NEW D, NEW M, NEW N, NEW ord, NEW b, Sound(t, "idle", Nil, D, M, N, ord, b),
         NEW n, NEW x, NEW y, Leaves(t, M, b, n, x, y),
         NEW u, Gone(t, u, M, n, x, y), Lessened(t, u, M, n),
         \E e : Shape(u, M \ {n}, N - 1, Closed(ord, ord[n]), e),
         NEW E, [D EXCEPT ![n] = 0] = E, NEW f, Closed(ord, ord[n]) = f
  PROVE  IF x \in t.red \/ x = t.root
         THEN \E d : Sound(u, "idle", Nil, E, M \ {n}, N - 1, f, d)
         ELSE (y = Nil => u.parent[Nil] = GapPlace(t, n, x))
                => \E d : Sound(u, "delete", y, E, M \ {n}, N - 1, f, d)
<1>1. /\ Base(t, D, M, N, ord) /\ t \in TreeType
      /\ t.red \subseteq M /\ NoReds(t, M) /\ t.root \notin t.red
      /\ Even(t, M, b, Nil, SideOf(t, Nil)) /\ n \in M
  BY DEF Sound, Base, Fits, GapNode, Leaves
<1>2. PICK end : Shape(t, M, N, ord, end)
  BY <1>1 DEF Base
<1>3. Base(u, E, M \ {n}, N - 1, f)
  BY <1>1, BaseShrinks
<1>4. /\ Reds(u, M \ {n}, y, y) /\ u.root \notin u.red
      /\ x \in t.red \/ x = t.root => NoReds(u, M \ {n})
  BY <1>1, <1>2, GoneIsApart DEF Lessened
<1>5. PICK d : Even(u, M \ {n}, d,
                    IF x \in t.red \/ x = t.root THEN Nil ELSE GapPlace(t, n, x), SideOf(t, x))
  BY <1>1, <1>2, GoneIsEven
<1>0. Nil \notin M \ {n}
  BY <1>2, ShapeFacts
<1>6. CASE x \in t.red \/ x = t.root
  <2>1. Even(u, M \ {n}, d, Nil, SideOf(t, x))
    BY <1>5, <1>6
  <2>2. GapNode(u, "idle", Nil) = Nil
    BY DEF GapNode
  <2>3. Even(u, M \ {n}, d, GapNode(u, "idle", Nil), SideOf(u, Nil))
    BY <1>0, <2>1, <2>2, NoGap
  <2>4. Fits(u, "idle", Nil, M \ {n})
    BY <1>4, <1>6 DEF Fits
  <2>5. Sound(u, "idle", Nil, E, M \ {n}, N - 1, f, d)
    BY <1>3, <2>3, <2>4 DEF Sound
  <2>. QED BY <1>6, <2>5
<1>7. CASE x \notin t.red /\ x # t.root
  <2> DEFINE g == GapPlace(t, n, x)
             s == SideOf(t, x)
  <2>1. Even(u, M \ {n}, d, g, s)
    BY <1>5, <1>7
  <2>2. g \in M \ {n} /\ s \in Sides /\ u.kid[s][g] = y
    BY <1>1, <1>2, <1>7, GapPlaceIs
  <2> HIDE DEF g, s
  <2>3. ASSUME y = Nil => u.parent[Nil] = g PROVE Sound(u, "delete", y, E, M \ {n}, N - 1, f, d)
    <3>0. PICK e : Shape(u, M \ {n}, N - 1, f, e)
      OBVIOUS
    <3>1. GapNode(u, "delete", y) = g /\ SideOf(u, y) = s /\ (y \in M \ {n} \/ y = Nil)
      BY <2>1, <2>2, <2>3, <3>0, GapIs
    <3>2. Even(u, M \ {n}, d, GapNode(u, "delete", y), SideOf(u, y))
      BY <2>1, <3>1
    <3>3. Fits(u, "delete", y, M \ {n})
      BY <1>4, <2>2, <2>3, <3>1 DEF Fits
    <3>. QED BY <1>3, <3>2, <3>3 DEF Sound
  <2>. QED BY <1>7, <2>3 DEF g
<1>. QED BY <1>6, <1>7

GoneTree(t, u, M, N, ord, n, x, y) ==
  /\ Gone(t, u, M, n, x, y) /\ Lessened(t, u, M, n)
  /\ \E e : Shape(u, M \ {n}, N - 1, Closed(ord, ord[n]), e)
  /\ y = Nil /\ x # t.root => u.parent[Nil] = GapPlace(t, n, x)

\* The tree without n, when n goes itself.
LEMMA CutSelfIsGone ==
  ASSUME NEW t \in TreeType, NEW M, NEW N, NEW ord, NEW end, Shape(t, M, N, ord, end),
         t.red \subseteq M,
         NEW n \in M, Subst(t, n) = n, NEW y, Temp(t, n) = y, NEW v, CutSelf(t, v, M, n, y),
         NEW h, Recoloured(v, h, IF n = t.root THEN v.red \ {y} ELSE v.red),
         NEW u, ClearedTo(h, u, n)
  PROVE  GoneTree(t, u, M, N, ord, n, n, y)
<1>1. M \subseteq Nodes /\ Nil \notin M /\ n \in Nodes /\ n # Nil
  BY ShapeFacts
<1>2. /\ v \in TreeType /\ v.red = t.red /\ v.root = IF n = t.root THEN y ELSE t.root
      /\ \A z \in M, a \in Sides : v.kid[a][z] = IF t.kid[a][z] = n THEN y ELSE t.kid[a][z]
      /\ \A z \in (Nodes \cup {Nil}) \ M, a \in Sides : v.kid[a][z] = t.kid[a][z]
      /\ \A z \in Nodes \cup {Nil} :
           z # v.root => v.parent[z] = IF z = y THEN t.parent[n] ELSE t.parent[z]
      /\ \A z \in Nodes \ M : v.parent[z] = t.parent[z]
      /\ v.key = t.key /\ v.str = t.str /\ v.insert = t.insert
  BY DEF CutSelf
<1>3. /\ h.red = (IF n = t.root THEN v.red \ {y} ELSE v.red) /\ h.root = v.root
      /\ h.kid = v.kid /\ h.parent = v.parent /\ h.key = v.key /\ h.str = v.str
      /\ h.insert = v.insert
  BY DEF Recoloured
<1>4. /\ u \in TreeType /\ u.red = h.red \ {n} /\ u.root = h.root /\ u.insert = h.insert
      /\ u.key[n] = 0 /\ u.parent[n] = Null
      /\ \A z \in Nodes \ {n} : u.key[z] = h.key[z] /\ u.str[z] = h.str[z]
      /\ \A z \in (Nodes \cup {Nil}) \ {n} : u.parent[z] = h.parent[z]
      /\ \A a \in Sides, z \in Nodes \cup {Nil} :
           u.kid[a][z] = IF z = n THEN Null ELSE h.kid[a][z]
  BY DEF ClearedTo
<1>5. u.root = Moved(t.root, n, n, y)
  BY <1>2, <1>3, <1>4 DEF Moved
<1>6. \A z \in M \ {n}, a \in Sides :
        u.kid[a][z] = Moved(t.kid[a][Origin(z, n, n)], n, n, y)
  BY <1>1, <1>2, <1>3, <1>4 DEF Moved, Origin
<1>7. \A z \in M \ {n} : z \in u.red <=> Origin(z, n, n) \in t.red /\ ~(z = y /\ n = t.root)
  BY <1>2, <1>3, <1>4 DEF Origin
<1>8. Lessened(t, u, M, n)
  <2>1. u.red \subseteq M \ {n}
    BY <1>2, <1>3, <1>4
  <2>2. \A a \in Sides : u.kid[a][n] = Null
    BY <1>1, <1>4
  <2>3. \A z \in Nodes \ M : u.parent[z] = t.parent[z] /\ \A a \in Sides : u.kid[a][z] = t.kid[a][z]
    BY <1>2, <1>3, <1>4
  <2>4. /\ \A z \in Nodes \ {n} : u.key[z] = t.key[z] /\ u.str[z] = t.str[z]
        /\ u.insert = t.insert
    BY <1>2, <1>3, <1>4
  <2>. QED BY <1>4, <2>1, <2>2, <2>3, <2>4 DEF Lessened
<1>9. \E e : Shape(u, M \ {n}, N - 1, Closed(ord, ord[n]), e)
  <2>1. PICK e : Shape(v, M \ {n}, N - 1, Closed(ord, ord[n]), e)
    BY CutSelfKeepsShape
  <2>2. SameLinks(v, u, M \ {n})
    BY <1>1, <1>3, <1>4 DEF SameLinks
  <2>. QED BY <2>1, <2>2, SameLinksShape
<1>10. ASSUME y = Nil, n # t.root PROVE u.parent[Nil] = GapPlace(t, n, n)
  <2>1. t.root # Nil
    <3>1. RootFits(t, M, N, end) /\ Ranked(M, N, ord)
      BY DEF Shape
    <3>. QED BY <1>1, <3>1 DEF RootFits, Ranked
  <2>2. v.parent[Nil] = t.parent[n]
    BY <1>2, <1>10, <2>1
  <2>3. u.parent[Nil] = v.parent[Nil]
    BY <1>1, <1>3, <1>4
  <2>4. t.parent[n] # n
    BY <1>10, UpTo
  <2>. QED BY <2>2, <2>3, <2>4 DEF GapPlace
<1>. QED BY <1>5, <1>6, <1>7, <1>8, <1>9, <1>10 DEF Gone, GoneTree

\* The tree without n, when x took its place.
LEMMA UnlinkedIsGone ==
  ASSUME NEW t \in TreeType, NEW M, NEW N, NEW ord, NEW end, Shape(t, M, N, ord, end),
         t.red \subseteq M,
         NEW n \in M, NEW x, Subst(t, n) = x, NEW y, Temp(t, n) = y, x # n,
         NEW v, Unlinked(t, v, M, n, x, y), NEW u, ClearedTo(v, u, n)
  PROVE  GoneTree(t, u, M, N, ord, n, x, y)
<1>1. M \subseteq Nodes /\ Nil \notin M /\ n \in Nodes /\ n # Nil
  BY ShapeFacts
<1>0. /\ x \in M /\ y \in M \cup {Nil} /\ y # n /\ y # x /\ x # t.root
      /\ \A a \in Sides : t.kid[a][n] # Nil
  BY SubstIs
<1>2. /\ v \in TreeType
      /\ v.red = (IF n \in t.red THEN t.red \cup {x} ELSE t.red \ {x})
      /\ v.root = (IF n = t.root THEN x ELSE t.root)
      /\ \A z \in M \ {n, x}, a \in Sides :
           v.kid[a][z] = IF t.kid[a][z] = n THEN x ELSE IF t.kid[a][z] = x THEN y ELSE t.kid[a][z]
      /\ \A a \in Sides : v.kid[a][x] = IF t.kid[a][n] = x THEN y ELSE t.kid[a][n]
      /\ \A z \in (Nodes \cup {Nil}) \ M, a \in Sides : v.kid[a][z] = t.kid[a][z]
      /\ \A z \in Nodes \ {x} :
           v.parent[z] = IF \E a \in Sides : v.kid[a][x] = z THEN x
                         ELSE IF z = y THEN t.parent[x] ELSE t.parent[z]
      /\ y = Nil => v.parent[Nil] = IF t.parent[x] = n THEN x ELSE t.parent[x]
      /\ v.key = t.key /\ v.str = t.str /\ v.insert = t.insert
  BY DEF Unlinked
<1>4. /\ u \in TreeType /\ u.red = v.red \ {n} /\ u.root = v.root /\ u.insert = v.insert
      /\ u.key[n] = 0 /\ u.parent[n] = Null
      /\ \A z \in Nodes \ {n} : u.key[z] = v.key[z] /\ u.str[z] = v.str[z]
      /\ \A z \in (Nodes \cup {Nil}) \ {n} : u.parent[z] = v.parent[z]
      /\ \A a \in Sides, z \in Nodes \cup {Nil} :
           u.kid[a][z] = IF z = n THEN Null ELSE v.kid[a][z]
  BY DEF ClearedTo
<1>5. u.root = Moved(t.root, n, x, y)
  BY <1>0, <1>2, <1>4 DEF Moved
<1>6. ASSUME NEW z \in M \ {n}, NEW a \in Sides
      PROVE  u.kid[a][z] = Moved(t.kid[a][Origin(z, n, x)], n, x, y)
  <2>0. u.kid[a][z] = v.kid[a][z]
    BY <1>1, <1>4
  <2>1. CASE z = x
    <3>1. t.kid[a][n] # n
      BY <1>0, KidIs
    <3>2. v.kid[a][x] = IF t.kid[a][n] = x THEN y ELSE t.kid[a][n]
      BY <1>2
    <3>. QED BY <2>0, <2>1, <3>1, <3>2 DEF Moved, Origin
  <2>2. CASE z # x
    <3>1. v.kid[a][z] = IF t.kid[a][z] = n THEN x ELSE IF t.kid[a][z] = x THEN y ELSE t.kid[a][z]
      BY <1>2, <2>2
    <3>. QED BY <2>0, <2>2, <3>1 DEF Moved, Origin
  <2>. QED BY <2>1, <2>2
<1>7. \A z \in M \ {n} : z \in u.red <=> Origin(z, n, x) \in t.red /\ ~(z = y /\ x = t.root)
  BY <1>0, <1>2, <1>4 DEF Origin
<1>8. Lessened(t, u, M, n)
  <2>1. u.red \subseteq M \ {n}
    BY <1>0, <1>2, <1>4
  <2>2. \A a \in Sides : u.kid[a][n] = Null
    BY <1>1, <1>4
  <2>3. ASSUME NEW z \in Nodes \ M
        PROVE  u.parent[z] = t.parent[z] /\ \A a \in Sides : u.kid[a][z] = t.kid[a][z]
    <3>1. u.parent[z] = v.parent[z] /\ \A a \in Sides : u.kid[a][z] = t.kid[a][z]
      BY <1>2, <1>4
    <3>2. ASSUME NEW a \in Sides, v.kid[a][x] = z PROVE FALSE
      <4>1. z = y \/ z = t.kid[a][n]
        BY <1>2, <3>2
      <4>2. t.kid[a][n] \in M
        BY <1>0, LinkIs
      <4>. QED BY <1>0, <4>1, <4>2, NilIsNone
    <3>3. z # x /\ z # y
      BY <1>0, NilIsNone
    <3>4. v.parent[z] = t.parent[z]
      BY <1>2, <3>2, <3>3
    <3>. QED BY <3>1, <3>4
  <2>4. /\ \A z \in Nodes \ {n} : u.key[z] = t.key[z] /\ u.str[z] = t.str[z]
        /\ u.insert = t.insert
    BY <1>2, <1>4
  <2>. QED BY <1>4, <2>1, <2>2, <2>3, <2>4 DEF Lessened
<1>9. \E e : Shape(u, M \ {n}, N - 1, Closed(ord, ord[n]), e)
  <2>1. PICK e : Shape(v, M \ {n}, N - 1, Closed(ord, ord[n]), e)
    BY UnlinkedKeepsShape
  <2>2. SameLinks(v, u, M \ {n})
    BY <1>1, <1>4 DEF SameLinks
  <2>. QED BY <2>1, <2>2, SameLinksShape
<1>10. y = Nil => u.parent[Nil] = GapPlace(t, n, x)
  BY <1>1, <1>2, <1>4 DEF GapPlace
<1>. QED BY <1>5, <1>6, <1>7, <1>8, <1>9, <1>10 DEF Gone, GoneTree

\* A call that returns forgets the sentinel's parent.
LEMMA ForgottenIsGone ==
  ASSUME NEW t, NEW M, NEW N, NEW f, NEW n, NEW x, NEW y, M \subseteq Nodes,
         NEW u, Gone(t, u, M, n, x, y), Lessened(t, u, M, n), NEW e, Shape(u, M \ {n}, N, f, e),
         n \in Nodes, NEW v, Forgotten(u, v)
  PROVE  Gone(t, v, M, n, x, y) /\ Lessened(t, v, M, n) /\ Shape(v, M \ {n}, N, f, e)
<1>1. /\ v \in TreeType /\ v.red = u.red /\ v.root = u.root /\ v.kid = u.kid
      /\ \A z \in Nodes : v.parent[z] = u.parent[z]
      /\ v.key = u.key /\ v.str = u.str /\ v.insert = u.insert
  BY DEF Forgotten
<1>2. Gone(t, v, M, n, x, y)
  BY <1>1 DEF Gone
<1>3. Lessened(t, v, M, n)
  BY <1>1 DEF Lessened
<1>4. SameLinks(u, v, M \ {n})
  BY <1>1 DEF SameLinks
<1>. QED BY <1>2, <1>3, <1>4, SameLinksShape

\* The state that art_rbtree_delete leaves to its loop, or returns with.
DeletesTo(t, n, x, y, u, p, c) ==
  IF x = t.root
  THEN Cleared(Paint([t EXCEPT !.root = y], {y}, {}), n) = u /\ p = "idle" /\ c = Nil
  ELSE IF x \in t.red
  THEN Returned(Cleared(Unlink(t, n), n)) = u /\ p = "idle" /\ c = Nil
  ELSE Cleared(Unlink(t, n), n) = u /\ p = "delete" /\ c = y

LEMMA DeleteIsSound ==
  ASSUME NEW t, NEW D, NEW M, NEW N, NEW ord, NEW b, Sound(t, "idle", Nil, D, M, N, ord, b),
         NEW n \in M, NEW x, Subst(t, n) = x, NEW y, Temp(t, n) = y,
         NEW E, [D EXCEPT ![n] = 0] = E, NEW f, Closed(ord, ord[n]) = f, NEW u, NEW p, NEW c,
         DeletesTo(t, n, x, y, u, p, c)
  PROVE  \E d : Sound(u, p, c, E, M \ {n}, N - 1, f, d)
<1>1. /\ Base(t, D, M, N, ord) /\ t \in TreeType
      /\ t.red \subseteq M /\ NoReds(t, M) /\ t.root \notin t.red
      /\ Even(t, M, b, Nil, SideOf(t, Nil))
  BY DEF Sound, Base, Fits, GapNode
<1>2. PICK end : Shape(t, M, N, ord, end)
  BY <1>1 DEF Base
<1>3. M \subseteq Nodes /\ n \in Nodes
  BY <1>2, ShapeFacts
<1>4. Leaves(t, M, b, n, x, y)
  BY <1>1, <1>2, LeavesIs
<1>5. CASE x = t.root
  <2> DEFINE v == [t EXCEPT !.root = y]
             h == Paint(v, {y}, {})
  <2>1. x = n /\ n = t.root /\ CutSelf(t, v, M, n, y)
    <3>1. x = t.root => n = t.root /\ x = n /\ CutSelf(t, [t EXCEPT !.root = y], M, n, y)
      BY <1>1, <1>2, RootGoesIs
    <3>. QED BY <1>5, <3>1
  <2>2. Cleared(h, n) = u /\ p = "idle" /\ c = Nil
    BY <1>5 DEF DeletesTo
  <2> HIDE DEF v
  <2>3. v \in TreeType
    BY <2>1 DEF CutSelf
  <2>4. Recoloured(v, h, v.red \ {y})
    <3>1. Recoloured(v, h, (v.red \ {y}) \cup {})
      BY <2>3, PaintIs
    <3>2. (v.red \ {y}) \cup {} = v.red \ {y}
      OBVIOUS
    <3>. QED BY <3>1, <3>2
  <2> HIDE DEF h
  <2>5. ClearedTo(h, u, n)
    <3>1. h \in TreeType
      BY <2>4 DEF Recoloured
    <3>. QED BY <1>3, <2>2, <3>1, ClearedIs
  <2>6. Recoloured(v, h, IF n = t.root THEN v.red \ {y} ELSE v.red)
    BY <2>1, <2>4
  <2>7. Subst(t, n) = n
    BY <2>1
  <2>8. GoneTree(t, u, M, N, ord, n, n, y)
    BY <1>1, <1>2, <2>1, <2>5, <2>6, <2>7, CutSelfIsGone
  <2>9. /\ Gone(t, u, M, n, x, y) /\ Lessened(t, u, M, n)
        /\ \E e : Shape(u, M \ {n}, N - 1, f, e)
    BY <2>1, <2>8 DEF GoneTree
  <2>10. \E d : Sound(u, "idle", Nil, E, M \ {n}, N - 1, f, d)
    BY <1>4, <1>5, <2>9, GoneIsSound
  <2>. QED BY <2>2, <2>10
<1>6. CASE x # t.root
  <2> DEFINE v == Unlink(t, n)
             w == Cleared(v, n)
  <2>1. /\ v \in TreeType
        /\ x = n => CutSelf(t, v, M, n, y)
        /\ x # n => Unlinked(t, v, M, n, x, y)
    <3>1. CASE x = n
      <4>1. n = Subst(t, n) /\ n # t.root /\ y = Temp(t, n)
        BY <1>6, <3>1
      <4>2. CutSelf(t, v, M, n, y)
        BY <1>1, <1>2, <4>1, UnlinkSelfIs
      <4>. QED BY <3>1, <4>2 DEF CutSelf
    <3>2. CASE x # n
      <4>1. Unlinked(t, v, M, n, x, y)
        BY <1>1, <1>2, <3>2, UnlinkIs
      <4>. QED BY <3>2, <4>1 DEF Unlinked
    <3>. QED BY <3>1, <3>2
  <2> HIDE DEF v
  <2>2. ClearedTo(v, w, n)
    BY <1>3, <2>1, ClearedIs
  <2> HIDE DEF w
  <2>3. /\ Gone(t, w, M, n, x, y) /\ Lessened(t, w, M, n)
        /\ \E e : Shape(w, M \ {n}, N - 1, f, e)
        /\ y = Nil => w.parent[Nil] = GapPlace(t, n, x)
    <3>1. CASE x = n
      <4>1. Recoloured(v, v, IF n = t.root THEN v.red \ {y} ELSE v.red)
        BY <1>6, <2>1, <3>1 DEF Recoloured
      <4>2. Subst(t, n) = n
        BY <3>1
      <4>3. GoneTree(t, w, M, N, ord, n, n, y)
        <5>1. CutSelf(t, v, M, n, y)
          BY <2>1, <3>1
        <5>. QED BY <1>1, <1>2, <2>2, <4>1, <4>2, <5>1, CutSelfIsGone
      <4>. QED BY <1>6, <3>1, <4>3 DEF GoneTree
    <3>2. CASE x # n
      <4>1. Unlinked(t, v, M, n, x, y)
        BY <2>1, <3>2
      <4>2. GoneTree(t, w, M, N, ord, n, x, y)
        BY <1>1, <1>2, <2>2, <3>2, <4>1, UnlinkedIsGone
      <4>. QED BY <1>6, <4>2 DEF GoneTree
    <3>. QED BY <3>1, <3>2
  <2>4. CASE x \in t.red
    <3>1. Returned(w) = u /\ p = "idle" /\ c = Nil
      BY <1>6, <2>4 DEF w, v, DeletesTo
    <3>2. Forgotten(w, u)
      BY <2>3, <3>1, ReturnedIs DEF Lessened
    <3>3. PICK e : Shape(w, M \ {n}, N - 1, f, e)
      BY <2>3
    <3>4. Gone(t, u, M, n, x, y) /\ Lessened(t, u, M, n) /\ Shape(u, M \ {n}, N - 1, f, e)
      BY <1>3, <2>3, <3>2, <3>3, ForgottenIsGone
    <3>5. \E d : Sound(u, "idle", Nil, E, M \ {n}, N - 1, f, d)
      BY <1>4, <2>4, <3>4, GoneIsSound
    <3>. QED BY <3>1, <3>5
  <2>5. CASE x \notin t.red
    <3>1. w = u /\ p = "delete" /\ c = y
      BY <1>6, <2>5 DEF w, v, DeletesTo
    <3>2. \E d : Sound(w, "delete", y, E, M \ {n}, N - 1, f, d)
      BY <1>4, <1>6, <2>3, <2>5, GoneIsSound
    <3>. QED BY <3>1, <3>2
  <2>. QED BY <2>4, <2>5
<1>. QED BY <1>5, <1>6

-----------------------------------------------------------------------------
(* The steps.                                                               *)

LEMMA InitIsSound ==
  ASSUME Init
  PROVE  \E M, N, ord, b : Sound(tree, pc, at, due, M, N, ord, b)
<1> DEFINE zero == [z \in Nodes |-> 0]
           b == [z \in Nodes \cup {Nil} |-> 0]
           end == [s \in Sides |-> zero]
<1>1. PICK insert \in Orders :
        tree = [root |-> Nil, insert |-> insert,
                key |-> zero, str |-> [n \in Nodes |-> <<0, 0>>],
                kid |-> [s \in Sides |-> [n \in Nodes \cup {Nil} |-> Null]],
                parent |-> [n \in Nodes \cup {Nil} |-> Null],
                red |-> {}]
  BY DEF Init
<1>2. pc = "idle" /\ at = Nil /\ due = zero
  BY DEF Init
<1>3. /\ tree.root = Nil /\ tree.insert = insert /\ tree.key = zero
      /\ tree.str = [n \in Nodes |-> <<0, 0>>]
      /\ tree.kid = [s \in Sides |-> [n \in Nodes \cup {Nil} |-> Null]]
      /\ tree.parent = [n \in Nodes \cup {Nil} |-> Null] /\ tree.red = {}
  BY <1>1
<1>4. tree \in TreeType
  <2>1. zero \in [Nodes -> 0 .. 2 * Half - 1]
    BY RBTreeAssumption
  <2>2. tree.str \in [Nodes -> {0, 1} \X {0, 1}]
    BY <1>3
  <2>3. tree.kid \in [Sides -> [Nodes \cup {Nil} -> Nodes \cup {Nil, Null}]]
    BY <1>3
  <2>4. tree.parent \in [Nodes \cup {Nil} -> Nodes \cup {Nil, Null}]
    BY <1>3
  <2> HIDE DEF zero
  <2>. QED BY <1>1, <1>3, <2>1, <2>2, <2>3, <2>4 DEF TreeType
<1>5. zero \in [Nodes -> Int] /\ zero \in [Nodes -> Nat] /\ end \in [Sides -> [Nodes -> Int]]
  OBVIOUS
<1>6. Blank(tree, {})
  <2>1. /\ \A s \in Sides, n \in Nodes : tree.kid[s][n] = Null
        /\ \A n \in Nodes : tree.parent[n] = Null /\ tree.key[n] = 0
    BY <1>3
  <2>. QED BY <1>3, <2>1, SideFacts DEF Blank, Members
<1> HIDE DEF zero, end
<1>7. Shape(tree, {}, 0, zero, end)
  BY <1>3, <1>5 DEF Shape, Ranked, Spans, RootFits
<1>8. Base(tree, due, {}, 0, zero)
  BY <1>1, <1>2, <1>3, <1>4, <1>5, <1>6, <1>7 DEF Base, Keyed, Ordered, Spread
<1>9. Fits(tree, "idle", Nil, {})
  BY <1>3 DEF Fits, NoReds
<1>10. Even(tree, {}, b, GapNode(tree, "idle", Nil), SideOf(tree, Nil))
  BY DEF Even
<1>11. Sound(tree, pc, at, due, {}, 0, zero, b)
  BY <1>2, <1>8, <1>9, <1>10 DEF Sound
<1>. QED BY <1>11

\* n enters at its place.
Placed(M, N, ord, n, d) ==
  \E k, f : /\ PlaceOf(M, N, ord, due, d, k)
            /\ Sound(tree', pc', at', due', M \cup {n}, N + 1, Opened(ord, n, k), f)

LEMMA InsertStep ==
  ASSUME NEW M, NEW N, NEW ord, NEW b, Sound(tree, pc, at, due, M, N, ord, b),
         NEW n \in Nodes, NEW d \in DueTimes[tree.insert][n], Insert(n, d)
  PROVE  /\ pc = "idle" /\ n \in Nodes \ M /\ due' = [due EXCEPT ![n] = d] /\ d \in Nat
         /\ Placed(M, N, ord, n, d)
<1> DEFINE p == Bottom(tree, d)
           s == Toward(tree, d, p)
           new == Entered(tree, n, d)
<1>1. /\ pc = "idle" /\ n \notin Members(tree) /\ due' = [due EXCEPT ![n] = d]
      /\ tree.insert = "timer" => Spread(due', Members(tree) \cup {n})
  BY DEF Insert
<1>2. at = Nil /\ Sound(tree, "idle", Nil, due, M, N, ord, b) /\ Base(tree, due, M, N, ord)
  BY <1>1 DEF Sound, Fits
<1>3. M = Members(tree) /\ tree.insert \in Orders
  BY <1>2 DEF Base, Blank, Keyed
<1>4. /\ d \in Nat /\ (tree.insert = "value" => d < 2 * Half)
      /\ (tree.insert = "string" => d < 8 * Half)
  <2>1. DueTimes[tree.insert][n] \subseteq Nat
    BY <1>3, RBTreeAssumption
  <2>2. tree.insert = "value" => d \in 0 .. 2 * Half - 1
    BY RBTreeAssumption
  <2>3. tree.insert = "string" => d \in 0 .. 8 * Half - 1
    BY RBTreeAssumption
  <2>4. Half \in Nat
    BY RBTreeAssumption
  <2>. QED BY <2>1, <2>2, <2>3, <2>4
<1>5. MayEnter(tree, M, due, n, d)
  BY <1>1, <1>3, <1>4 DEF MayEnter
<1>6. CASE tree.root = Nil
  <2>1. Paint(AsRoot(Entered(tree, n, d), n), {n}, {}) = tree' /\ pc' = "idle" /\ at' = Nil
    BY <1>1, <1>2, <1>6 DEF Insert
  <2>2. Entry(tree', "idle", Nil, due, M, N, ord, n, d)
    BY <1>2, <1>5, <1>6, <2>1, FirstIsSound
  <2>. QED BY <1>1, <1>3, <1>4, <2>1, <2>2 DEF Entry, Placed
<1>7. CASE tree.root # Nil
  <2>1. Paint(AsKid(new, n, p, s), {}, {n}) = tree' /\ pc' = "insert" /\ at' = n
    BY <1>7 DEF Insert
  <2>2. Bottom(tree, d) = p /\ Toward(tree, d, p) = s
    OBVIOUS
  <2> HIDE DEF p, s
  <2>3. Entry(tree', "insert", n, due, M, N, ord, n, d)
    BY <1>2, <1>5, <1>7, <2>1, <2>2, HookedIsSound
  <2>. QED BY <1>1, <1>3, <1>4, <2>1, <2>3 DEF Entry, Placed
<1>. QED BY <1>6, <1>7

LEMMA DeleteStep ==
  ASSUME NEW M, NEW N, NEW ord, NEW b, Sound(tree, pc, at, due, M, N, ord, b),
         NEW n \in Nodes, Delete(n)
  PROVE  /\ pc = "idle" /\ n \in M /\ due' = [due EXCEPT ![n] = 0]
         /\ \E f : Sound(tree', pc', at', due', M \ {n}, N - 1, Closed(ord, ord[n]), f)
<1> DEFINE x == Subst(tree, n)
           y == Temp(tree, n)
           E == [due EXCEPT ![n] = 0]
           g == Closed(ord, ord[n])
<1>1. pc = "idle" /\ n \in Members(tree) /\ due' = E
  BY DEF Delete
<1>2. at = Nil /\ Sound(tree, "idle", Nil, due, M, N, ord, b) /\ Base(tree, due, M, N, ord)
  BY <1>1 DEF Sound, Fits
<1>3. n \in M
  BY <1>1, <1>2 DEF Base, Blank
<1>4. DeletesTo(tree, n, x, y, tree', pc', at')
  BY <1>1, <1>2 DEF Delete, DeletesTo
<1>5. Subst(tree, n) = x /\ Temp(tree, n) = y /\ E = [due EXCEPT ![n] = 0]
      /\ Closed(ord, ord[n]) = g
  OBVIOUS
<1> HIDE DEF x, y, E, g
<1>6. \E f : Sound(tree', pc', at', E, M \ {n}, N - 1, g, f)
  BY <1>2, <1>3, <1>4, <1>5, DeleteIsSound
<1>. QED BY <1>1, <1>3, <1>5, <1>6

LEMMA LoopStep ==
  ASSUME NEW M, NEW N, NEW ord, NEW b, Sound(tree, pc, at, due, M, N, ord, b),
         InsertFixup \/ InsertDone \/ DeleteFixup \/ DeleteDone
  PROVE  due' = due /\ \E f : Sound(tree', pc', at', due', M, N, ord, f)
<1>1. CASE InsertFixup
  <2> DEFINE p == tree.parent[at]
             g == tree.parent[p]
             o == Other(SideOf(tree, p))
  <2>1. /\ pc = "insert" /\ TwoReds(tree, at) /\ pc' = "insert" /\ due' = due
        /\ InsertFixed(tree, at, p, g, o, tree', at')
    BY <1>1, Zenon DEF InsertFixup, InsertFixed
  <2>2. Sound(tree, "insert", at, due, M, N, ord, b)
    BY <2>1
  <2>3. Elders(tree, at, p, g, o)
    BY DEF Elders
  <2> HIDE DEF p, g, o
  <2>4. \E f : Sound(tree', "insert", at', due, M, N, ord, f)
    BY <2>1, <2>2, <2>3, InsertFixupIsSound
  <2>. QED BY <2>1, <2>4
<1>2. CASE InsertDone
  <2>1. /\ pc = "insert" /\ ~TwoReds(tree, at) /\ due' = due /\ pc' = "idle" /\ at' = Nil
        /\ tree' = Returned(Paint(tree, {tree.root}, {}))
    BY <1>2 DEF InsertDone
  <2>2. Sound(tree, "insert", at, due, M, N, ord, b)
    BY <2>1
  <2>3. Sound(tree', "idle", Nil, due, M, N, ord, b)
    BY <2>1, <2>2, InsertDoneIsSound
  <2>. QED BY <2>1, <2>3
<1>3. CASE DeleteFixup
  <2> DEFINE s == SideOf(tree, at)
             o == Other(s)
             p == tree.parent[at]
             h == WithBlackBrother(tree, p, s)
             w == h.kid[o][p]
             q == WithRedFar(h, w, s)
             e == RaiseBrother(q, p, q.kid[o][p], s)
  <2>1. /\ pc = "delete" /\ LacksBlack(tree, at) /\ pc' = "delete" /\ due' = due
        /\ FixesTo(h, s, o, p, w, e, tree', at')
    BY <1>3, Zenon DEF DeleteFixup, Finish, FixesTo
  <2>2. FixesBy(tree, at, s, o, p, h, w, q, e)
    BY Zenon DEF FixesBy
  <2>3. Sound(tree, "delete", at, due, M, N, ord, b)
    BY <2>1
  <2> HIDE DEF s, o, p, h, w, q, e
  <2>4. \E f : Sound(tree', "delete", at', due, M, N, ord, f)
    BY <2>1, <2>2, <2>3, DeleteFixupIsSound
  <2>5. PICK f : Sound(tree', "delete", at', due, M, N, ord, f)
    BY <2>1, <2>4, Zenon
  <2>6. Sound(tree', pc', at', due', M, N, ord, f)
    BY <2>1, <2>5, Zenon
  <2>. QED BY <2>1, <2>6, Zenon
<1>4. CASE DeleteDone
  <2>1. /\ pc = "delete" /\ ~LacksBlack(tree, at) /\ due' = due /\ pc' = "idle" /\ at' = Nil
        /\ tree' = Returned(Paint(tree, {at}, {}))
    BY <1>4 DEF DeleteDone
  <2>2. Sound(tree, "delete", at, due, M, N, ord, b)
    BY <2>1
  <2>3. Sound(tree', "idle", Nil, due, M, N, ord, b)
    BY <2>1, <2>2, DeleteDoneIsSound
  <2>. QED BY <2>1, <2>3
<1>. QED BY <1>1, <1>2, <1>3, <1>4

LEMMA IInvInitially == Init => IInv
BY InitIsSound DEF IInv

LEMMA IInvInductive == IInv /\ [Next]_vars => IInv'
<1> SUFFICES ASSUME IInv, [Next]_vars PROVE IInv'
  OBVIOUS
<1>1. PICK M, N, ord, b : Sound(tree, pc, at, due, M, N, ord, b)
  BY DEF IInv
<1>2. ASSUME NEW n \in Nodes, NEW d \in DueTimes[tree.insert][n], Insert(n, d) PROVE IInv'
  <2>1. Placed(M, N, ord, n, d)
    BY <1>1, <1>2, InsertStep
  <2>. QED BY <2>1 DEF IInv, Placed
<1>3. ASSUME NEW n \in Nodes, Delete(n) PROVE IInv'
  <2>1. \E f : Sound(tree', pc', at', due', M \ {n}, N - 1, Closed(ord, ord[n]), f)
    BY <1>1, <1>3, DeleteStep
  <2>. QED BY <2>1 DEF IInv
<1>4. ASSUME InsertFixup \/ InsertDone \/ DeleteFixup \/ DeleteDone PROVE IInv'
  <2>1. \E f : Sound(tree', pc', at', due', M, N, ord, f)
    BY <1>1, <1>4, LoopStep
  <2>. QED BY <2>1 DEF IInv
<1>5. ASSUME UNCHANGED vars PROVE IInv'
  <2>1. Sound(tree', pc', at', due', M, N, ord, b)
    BY <1>1, <1>5 DEF vars
  <2>. QED BY <2>1 DEF IInv
<1>. QED BY <1>2, <1>3, <1>4, <1>5 DEF Next

\* The tree is sound in every reachable state.
THEOREM SpecIsSound == Spec => []IInv
BY IInvInitially, IInvInductive, PTL DEF Spec

-----------------------------------------------------------------------------
(* What a sound tree is.                                                    *)

LEMMA WholeOrder ==
  ASSUME NEW t \in TreeType, NEW M, NEW N, NEW ord, NEW end, Shape(t, M, N, ord, end)
  PROVE  InOrder(t, t.root) = Part(M, ord, 1, N)
<1>1. Ranked(M, N, ord) /\ N \in Nat
  BY DEF Shape, Ranked
<1>2. CASE N = 0
  <2>1. InOrder(t, t.root) = <<>>
    BY <1>2, InOrderIs DEF Shape, RootFits
  <2>2. Part(M, ord, 1, N) = <<>>
    <3>1. Part(M, ord, 1, N) \in Seq(M) /\ Len(Part(M, ord, 1, N)) = 0
      BY <1>1, <1>2, PartType
    <3>. QED BY <3>1, EmptySeq
  <2>. QED BY <2>1, <2>2
<1>3. CASE N # 0
  BY <1>3, InOrderIs DEF Shape, RootFits
<1>. QED BY <1>2, <1>3

\* Every node of the tree stands once in its order.
LEMMA PartHolds ==
  ASSUME NEW M, NEW N, NEW ord, Ranked(M, N, ord), NEW q, Part(M, ord, 1, N) = q
  PROVE  /\ q \in Seq(M) /\ Len(q) = N /\ DOMAIN q = 1..N /\ N \in Nat
         /\ \A i \in 1..N : q[i] = NodeAt(M, ord, i) /\ q[i] \in M /\ ord[q[i]] = i
         /\ {q[i] : i \in DOMAIN q} = M
<1>1. N \in Nat /\ \A x \in M : ord[x] \in 1..N
  BY DEF Ranked
<1>2. q \in Seq(M) /\ Len(q) = N
  BY <1>1, PartType
<1>3. DOMAIN q = 1..N
  BY <1>2
<1>4. \A i \in 1..N : q[i] = NodeAt(M, ord, i)
  BY <1>1 DEF Part
<1>5. /\ \A i \in 1..N : NodeAt(M, ord, i) \in M /\ ord[NodeAt(M, ord, i)] = i
      /\ \A x \in M : NodeAt(M, ord, ord[x]) = x
  BY NodeAtIs
<1>6. {q[i] : i \in DOMAIN q} = M
  <2>1. ASSUME NEW x \in M PROVE \E i \in 1..N : q[i] = x
    BY <1>1, <1>4, <1>5
  <2>. QED BY <1>3, <1>4, <1>5, <2>1
<1>. QED BY <1>1, <1>2, <1>3, <1>4, <1>5, <1>6

LEMMA SoundTypes ==
  ASSUME NEW M, NEW N, NEW ord, NEW b, Sound(tree, pc, at, due, M, N, ord, b)
  PROVE  TypeOK
<1>1. /\ tree \in TreeType /\ M = Members(tree) /\ Fits(tree, pc, at, M)
      /\ pc \in {"idle", "insert", "delete"} /\ Blank(tree, M) /\ tree.red \subseteq M
      /\ due \in [Nodes -> Nat]
  BY DEF Sound, Base, Blank, Keyed
<1>2. at \in M \cup {Nil} /\ (pc = "idle" => at = Nil)
  BY <1>1 DEF Fits
<1>3. /\ tree.root \in Nodes \cup {Nil} /\ tree.insert \in Orders
      /\ tree.key \in [Nodes -> 0 .. 2 * Half - 1]
      /\ tree.str \in [Nodes -> {0, 1} \X {0, 1}]
      /\ tree.kid \in [Sides -> [Nodes \cup {Nil} -> Nodes \cup {Nil} \cup {Null}]]
      /\ tree.parent \in [Nodes \cup {Nil} -> Nodes \cup {Nil} \cup {Null}]
      /\ tree.red \subseteq Nodes \cup {Nil}
  <2>1. Nodes \cup {Nil} \cup {Null} = Nodes \cup {Nil, Null}
    OBVIOUS
  <2>. QED BY <1>1, <2>1 DEF TreeType
<1>4. \A n \in Nodes \ M : /\ tree.kid["right"][n] = Null /\ tree.parent[n] = Null
                           /\ tree.key[n] = 0 /\ n \notin tree.red
  BY <1>1, SideFacts DEF Blank
<1>5. Nodes \cup {Nil} = Nodes \cup {Nil} \cup {}
  OBVIOUS
<1>. QED BY <1>1, <1>2, <1>3, <1>4, <1>5 DEF TypeOK

LEMMA SoundIsLinked ==
  ASSUME NEW M, NEW N, NEW ord, NEW b, Sound(tree, pc, at, due, M, N, ord, b)
  PROVE  Linked
<1>1. tree \in TreeType /\ M = Members(tree) /\ Fits(tree, pc, at, M)
  BY DEF Sound, Base, Blank
<1>2. PICK end : Shape(tree, M, N, ord, end)
  BY DEF Sound, Base
<1>3. TypeOK
  BY SoundTypes
<1>4. /\ Len(InOrder(tree, tree.root)) = Cardinality(M)
      /\ {InOrder(tree, tree.root)[i] : i \in DOMAIN InOrder(tree, tree.root)} = M
  <2>1. Ranked(M, N, ord)
    BY <1>2 DEF Shape
  <2>2. Part(M, ord, 1, N) = InOrder(tree, tree.root)
    BY <1>1, <1>2, WholeOrder
  <2>3. N = Cardinality(M)
    BY <2>1, DepthIsEnough
  <2>. HIDE DEF InOrder
  <2>. QED BY <2>1, <2>2, <2>3, PartHolds
<1>5. ASSUME NEW x \in M, NEW s \in Sides, tree.kid[s][x] # Nil
      PROVE  tree.kid[s][x] \in M /\ tree.parent[tree.kid[s][x]] = x
  BY <1>2, <1>5, KidIs
<1>6. pc = "delete" /\ at = Nil /\ tree.root # Nil =>
        tree.parent[Nil] \in M /\ \E s \in Sides : tree.kid[s][tree.parent[Nil]] = Nil
  BY <1>1 DEF Fits
<1>. QED BY <1>1, <1>3, <1>4, <1>5, <1>6 DEF Linked

LEMMA SoundHasBrother ==
  ASSUME NEW M, NEW N, NEW ord, NEW b, Sound(tree, pc, at, due, M, N, ord, b)
  PROVE  BrotherExists
<1>1. SUFFICES ASSUME pc = "delete", LacksBlack(tree, at)
               PROVE  tree.kid[Other(SideOf(tree, at))][tree.parent[at]] \in Members(tree)
  BY DEF BrotherExists
<1> DEFINE p == tree.parent[at]
           s == SideOf(tree, at)
           w == tree.kid[Other(s)][p]
<1>2. Sound(tree, "delete", at, due, M, N, ord, b)
  BY <1>1
<1>3. Lacking(tree, M, N, ord, b, at, p, s) /\ M = Members(tree)
  BY <1>1, <1>2, LackingIs DEF Sound, Base, Blank
<1>4. tree.kid[Other(s)][p] = w
  OBVIOUS
<1> HIDE DEF p, s, w
<1>5. w \in M
  BY <1>3, <1>4, BrotherIs
<1>. QED BY <1>3, <1>5 DEF p, s, w

LEMMA SoundHasNeighbours ==
  ASSUME NEW M, NEW N, NEW ord, NEW b, Sound(tree, pc, at, due, M, N, ord, b)
  PROVE  Neighbours
<1>1. tree \in TreeType
  BY DEF Sound, Base
<1>2. PICK end : Shape(tree, M, N, ord, end)
  BY DEF Sound, Base
<1> DEFINE q == InOrder(tree, tree.root)
<1>3. Part(M, ord, 1, N) = q /\ Ranked(M, N, ord)
  BY <1>1, <1>2, WholeOrder DEF Shape
<1> HIDE DEF q
<1>4. /\ Len(q) = N /\ DOMAIN q = 1..N /\ N \in Nat
      /\ \A i \in 1..N : q[i] = NodeAt(M, ord, i) /\ q[i] \in M /\ ord[q[i]] = i
  BY <1>3, PartHolds
<1>5. \A x \in M : NodeAt(M, ord, ord[x]) = x
  BY <1>3, NodeAtIs
<1>6. ASSUME NEW i \in DOMAIN q, NEW left, Len(InOrder(tree, tree.kid["left"][q[i]])) = left
      PROVE  /\ Suc(tree, q[i]) = IF i = Len(q) THEN Null ELSE q[i + 1]
             /\ i = 1 => Pre(tree, q[i]) = Null
             /\ i > 1 => \E j \in 1 .. i - 1 : Pre(tree, q[i]) = q[j]
             /\ i > 1 /\ left <= 1 => Pre(tree, q[i]) = q[i - 1]
  <2> DEFINE x == q[i]
             k == tree.kid["left"][x]
             e == end["left"][x]
  <2>1. i \in 1..N /\ x \in M /\ ord[x] = i
    BY <1>4
  <2>2. e \in Int /\ 1 <= e /\ e <= i
    BY <1>2, <2>1, ShapeFacts
  <2>3. left = i - e
    <3>1. CASE k = Nil
      <4>1. e = i
        BY <1>2, <2>1, <3>1, DownTo, SideFacts
      <4>2. InOrder(tree, k) = <<>>
        BY <1>1, <1>2, <3>1, InOrderIs
      <4>. QED BY <1>6, <2>2, <4>1, <4>2
    <3>2. CASE k # Nil
      <4>1. k \in M /\ end["left"][k] = e /\ end["right"][k] = i - 1
        BY <1>2, <2>1, <3>2, KidIs, SideFacts
      <4>. HIDE DEF x, k, e
      <4>2. e <= i - 1
        BY <1>2, <4>1, ShapeFacts
      <4>3. InOrder(tree, k) = Part(M, ord, e, i - 1)
        BY <1>1, <1>2, <4>1, InOrderIs
      <4>4. Len(Part(M, ord, e, i - 1)) = i - 1 - e + 1
        BY <1>3, <1>4, <2>1, <2>2, <4>2, PartType
      <4>5. left = i - 1 - e + 1
        BY <1>6, <4>3, <4>4 DEF k, x
      <4>. QED BY <2>1, <2>2, <4>5
    <3>. QED BY <3>1, <3>2
  <2> HIDE DEF k, x, e
  <2>4. Suc(tree, x) = IF i = Len(q) THEN Null ELSE q[i + 1]
    <3>1. CASE i = N
      BY <1>2, <1>4, <2>1, <3>1, SucIs
    <3>2. CASE i # N
      <4>1. Suc(tree, x) \in M /\ ord[Suc(tree, x)] = i + 1
        BY <1>2, <2>1, <3>2, SucIs
      <4>2. Suc(tree, x) = NodeAt(M, ord, i + 1)
        BY <1>5, <4>1
      <4>. QED BY <1>4, <2>1, <3>2, <4>2
    <3>. QED BY <3>1, <3>2
  <2>5. Pre(tree, x) = IF i = 1 THEN Null ELSE IF left = 0 THEN q[i - 1] ELSE q[i - left]
    <3>1. CASE i = 1
      BY <1>2, <2>1, <3>1, PreIs
    <3>2. CASE i # 1
      <4>1. Pre(tree, x) \in M /\ ord[Pre(tree, x)] = IF e = i THEN i - 1 ELSE e
        BY <1>2, <2>1, <3>2, PreIs DEF e
      <4>2. Pre(tree, x) = NodeAt(M, ord, IF e = i THEN i - 1 ELSE e)
        BY <1>5, <4>1
      <4>. QED BY <1>4, <2>1, <2>2, <2>3, <3>2, <4>2
    <3>. QED BY <3>1, <3>2
  <2>6. CASE i = 1
    BY <2>4, <2>5, <2>6 DEF x
  <2>7. CASE i # 1
    <3> DEFINE j == IF left = 0 THEN i - 1 ELSE i - left
    <3>1. j \in 1 .. i - 1 /\ (left <= 1 => j = i - 1)
      BY <2>1, <2>2, <2>3, <2>7, <1>4
    <3>2. Pre(tree, x) = q[j]
      BY <2>5, <2>7
    <3> HIDE DEF j
    <3>. QED BY <2>4, <2>7, <3>1, <3>2 DEF x
  <2>. QED BY <2>6, <2>7
<1>. QED BY <1>6 DEF Neighbours, q

LEMMA SoundLookupFinds ==
  ASSUME NEW M, NEW N, NEW ord, NEW b, Sound(tree, pc, at, due, M, N, ord, b)
  PROVE  LookupFinds
<1>1. M = Members(tree) /\ Keyed(tree, M, due) /\ Ordered(M, ord, due)
  BY DEF Sound, Base, Blank
<1>2. PICK end : Shape(tree, M, N, ord, end)
  BY DEF Sound, Base
<1>3. ASSUME tree.insert = "string", NEW n \in Nodes, NEW d \in DueTimes["string"][n]
      PROVE  IF \E m \in M : due[m] = d THEN Lookup(tree, d) \in M /\ due[Lookup(tree, d)] = d
             ELSE Lookup(tree, d) = Nil
  <2>1. d \in Nat
    BY RBTreeAssumption DEF Orders
  <2>. QED BY <1>1, <1>2, <1>3, <2>1, LookupIs
<1>. QED BY <1>1, <1>3 DEF LookupFinds

-----------------------------------------------------------------------------
(* The black nodes above.                                                   *)

\* A number for each node that its parent's gives, as Blacks defines one.
Above(t, M, up, f) ==
  f = [x \in M |-> up[x] + (IF x = t.root THEN 0 ELSE f[t.parent[x]])]

\* There is only one such.
LEMMA AboveIsUnique ==
  ASSUME NEW t, NEW M, NEW N, NEW ord, NEW end, Shape(t, M, N, ord, end),
         NEW up, NEW f, Above(t, M, up, f), NEW g, Above(t, M, up, g), NEW x \in M
  PROVE  f[x] = g[x]
<1> DEFINE span(y) == end["right"][y] - end["left"][y]
           T == {i \in 0..N : \E y \in M : f[y] # g[y] /\ span(y) = N - i}
<1>1. /\ N \in Nat /\ \A y \in M : span(y) \in 0..N
  BY ShapeFacts
<1>2. \A y \in M : y # t.root => t.parent[y] \in M /\ span(y) < span(t.parent[y])
  BY UpTo
<1> HIDE DEF span
<1>3. /\ \A y \in M : f[y] = up[y] + (IF y = t.root THEN 0 ELSE f[t.parent[y]])
      /\ \A y \in M : g[y] = up[y] + (IF y = t.root THEN 0 ELSE g[t.parent[y]])
  BY DEF Above
<1>4. ASSUME NEW i \in T, \A j \in T : i <= j PROVE FALSE
  <2>1. PICK y \in M : f[y] # g[y] /\ span(y) = N - i
    OBVIOUS
  <2>2. y # t.root /\ f[t.parent[y]] # g[t.parent[y]]
    BY <1>3, <2>1
  <2>3. t.parent[y] \in M /\ span(y) < span(t.parent[y])
    BY <1>2, <2>2
  <2>4. N - span(t.parent[y]) \in 0..N /\ span(t.parent[y]) \in 0..N /\ span(y) \in 0..N
    BY <1>1, <2>3
  <2>5. N - span(t.parent[y]) \in T
    <3>1. span(t.parent[y]) = N - (N - span(t.parent[y]))
      BY <1>1, <2>4
    <3>. QED BY <2>2, <2>3, <2>4, <3>1
  <2>6. N - span(t.parent[y]) < i
    BY <1>1, <2>1, <2>3, <2>4
  <2>7. i \in 0..N
    OBVIOUS
  <2>8. i <= N - span(t.parent[y])
    BY <1>4, <2>5
  <2>. HIDE DEF T
  <2>. QED BY <1>1, <2>4, <2>6, <2>7, <2>8
<1>5. T = {}
  <2>1. T \subseteq Nat
    BY <1>1
  <2> HIDE DEF T
  <2>. QED BY <1>4, <2>1, LeastNat
<1>6. N - span(x) \in 0..N /\ span(x) = N - (N - span(x))
  BY <1>1
<1>. QED BY <1>5, <1>6

\* The gap's edge is the one to the deletion's node.
LEMMA GapEdge ==
  ASSUME NEW t, NEW M, NEW N, NEW ord, NEW end, Shape(t, M, N, ord, end),
         NEW p, NEW c, Fits(t, p, c, M), NEW x \in M, NEW a \in Sides
  PROVE  x = GapNode(t, p, c) /\ a = SideOf(t, c)
           <=> /\ p = "delete" /\ c # t.root /\ t.kid[a][x] = c
               /\ c = Nil => t.parent[Nil] = x /\ SideOf(t, Nil) = a
<1>1. Nil \notin M /\ x # Nil
  BY ShapeFacts
<1>2. CASE p = "delete" /\ c # t.root
  <2>1. Fits(t, "delete", c, M)
    BY <1>2
  <2>2. GapNode(t, p, c) = t.parent[c]
    BY <1>2 DEF GapNode
  <2>3. t.parent[c] \in M /\ t.kid[SideOf(t, c)][t.parent[c]] = c
    BY <1>2, <2>1, GapAt
  <2>4. ASSUME c # Nil, t.kid[a][x] = c PROVE t.parent[c] = x /\ SideOf(t, c) = a
    BY <2>4, KidIs
  <2>. QED BY <1>2, <2>2, <2>3, <2>4
<1>3. CASE ~(p = "delete" /\ c # t.root)
  BY <1>1, <1>3 DEF GapNode
<1>. QED BY <1>2, <1>3

IsBlacks(f) ==
  f = [x \in Members(tree) |-> Owed(x) + (IF x \in tree.red THEN 0 ELSE 1)
                                + (IF x = tree.root THEN 0 ELSE f[tree.parent[x]])]

\* The black nodes above and at x and those below it are the same number for
\* all nodes, with the one that is lacking.
LEMMA BlacksAre ==
  ASSUME NEW M, NEW N, NEW ord, NEW b, Sound(tree, pc, at, due, M, N, ord, b),
         tree.root # Nil
  PROVE  \E C \in Int : \A x \in M : Blacks[x] = C - b[x]
<1> DEFINE up == [x \in M |-> Owed(x) + (IF x \in tree.red THEN 0 ELSE 1)]
           C == up[tree.root] + b[tree.root]
           f == [x \in M |-> C - b[x]]
           g == CHOOSE h : IsBlacks(h)
           gap == GapNode(tree, pc, at)
           r == SideOf(tree, at)
<1>1. PICK end : Shape(tree, M, N, ord, end)
  BY DEF Sound, Base
<1>2. M = Members(tree) /\ Fits(tree, pc, at, M) /\ Even(tree, M, b, gap, r)
  BY DEF Sound, Base, Blank
<1>3. M \subseteq Nodes /\ Nil \notin M /\ tree.root \in M
  BY <1>1, ShapeFacts DEF Shape, RootFits
<1>4. /\ b \in [Nodes \cup {Nil} -> Nat] /\ b[Nil] = 0
      /\ \A z \in M, a \in Sides :
           b[z] = Own(tree, tree.kid[a][z]) + b[tree.kid[a][z]] + (IF z = gap /\ a = r THEN 1 ELSE 0)
  BY <1>2 DEF Even
<1>5. up \in [M -> Int] /\ C \in Int
  BY <1>3, <1>4 DEF Owed
<1>6. ASSUME NEW x \in M, x # tree.root PROVE b[tree.parent[x]] = up[x] + b[x]
  <2> DEFINE p == tree.parent[x]
             a == SideOf(tree, x)
  <2>1. p \in M /\ a \in Sides /\ tree.kid[a][p] = x
    BY <1>1, <1>6, UpTo
  <2> HIDE DEF p, a, gap, r
  <2>2. b[p] = Own(tree, x) + b[x] + (IF p = gap /\ a = r THEN 1 ELSE 0)
    BY <1>4, <2>1
  <2>3. p = gap /\ a = r <=> pc = "delete" /\ x = at
    <3>1. p = gap /\ a = r
            <=> /\ pc = "delete" /\ at # tree.root /\ tree.kid[a][p] = at
                /\ at = Nil => tree.parent[Nil] = p /\ SideOf(tree, Nil) = a
      BY <1>1, <1>2, <2>1, GapEdge DEF gap, r
    <3>. QED BY <1>3, <1>6, <2>1, <3>1
  <2>4. up[x] = Own(tree, x) + (IF p = gap /\ a = r THEN 1 ELSE 0)
    BY <1>3, <2>3 DEF Own, Owed
  <2>5. b[x] \in Nat /\ Own(tree, x) \in Nat
    BY <1>3, <1>4 DEF Own
  <2>. QED BY <2>2, <2>4, <2>5 DEF p
<1> HIDE DEF up
<1>7. Above(tree, M, up, f)
  <2>1. ASSUME NEW x \in M PROVE f[x] = up[x] + (IF x = tree.root THEN 0 ELSE f[tree.parent[x]])
    <3>1. b[x] \in Nat /\ up[x] \in Int
      BY <1>3, <1>4, <1>5
    <3>2. CASE x = tree.root
      BY <1>3, <1>5, <3>1, <3>2
    <3>3. CASE x # tree.root
      <4>1. tree.parent[x] \in M
        BY <1>1, <3>3, UpTo
      <4>2. f[x] = C - b[x] /\ f[tree.parent[x]] = C - b[tree.parent[x]]
        BY <4>1
      <4>. QED BY <1>5, <1>6, <3>1, <3>3, <4>2
    <3>. QED BY <3>2, <3>3
  <2>2. f = [x \in M |-> f[x]]
    OBVIOUS
  <2> HIDE DEF f
  <2>. QED BY <2>1, <2>2 DEF Above
<1>8. \A h : IsBlacks(h) <=> Above(tree, M, up, h)
  BY <1>2 DEF IsBlacks, Above, up
<1>9. Blacks = g /\ Above(tree, M, up, g)
  <2>1. Blacks = g
    BY DEF Blacks, IsBlacks
  <2>2. IsBlacks(f)
    BY <1>7, <1>8
  <2> HIDE DEF f
  <2>3. IsBlacks(g)
    BY <2>2
  <2>. QED BY <1>8, <2>1, <2>3
<1>10. \A x \in M : Blacks[x] = f[x]
  <2> HIDE DEF f, g
  <2>. QED BY <1>1, <1>7, <1>9, AboveIsUnique
<1>. QED BY <1>5, <1>10

LEMMA SoundIsBalanced ==
  ASSUME NEW M, NEW N, NEW ord, NEW b, Sound(tree, pc, at, due, M, N, ord, b)
  PROVE  Balanced
<1>1. /\ M = Members(tree) /\ Fits(tree, pc, at, M) /\ tree.red \subseteq M
      /\ pc \in {"idle", "insert", "delete"}
      /\ Even(tree, M, b, GapNode(tree, pc, at), SideOf(tree, at))
  BY DEF Sound, Base, Blank
<1>2. PICK end : Shape(tree, M, N, ord, end)
  BY DEF Sound, Base
<1>3. M \subseteq Nodes /\ Nil \notin M
  BY <1>2, ShapeFacts
<1>4. pc = "idle" => tree.root \notin tree.red
  BY <1>1 DEF Fits
<1>5. ASSUME NEW x \in M \ {tree.root}, {x, tree.parent[x]} \subseteq tree.red
      PROVE  (pc = "insert" /\ at = x) \/ (pc = "delete" /\ at \in {x, tree.parent[x]})
  <2> DEFINE p == tree.parent[x]
             a == SideOf(tree, x)
  <2>1. p \in M /\ a \in Sides /\ tree.kid[a][p] = x
    BY <1>2, UpTo
  <2>2. p \in tree.red /\ x \in tree.red
    BY <1>5
  <2>3. p # Nil
    BY <1>3, <2>1
  <2> HIDE DEF p, a
  <2>4. pc # "idle"
    BY <1>1, <2>1, <2>2 DEF Fits, NoReds
  <2>5. CASE pc = "insert"
    <3>1. Reds(tree, M, at, Nil)
      BY <1>1, <2>5 DEF Fits
    <3>. QED BY <2>1, <2>2, <2>3, <2>5, <3>1 DEF Reds
  <2>6. CASE pc = "delete"
    <3>1. Reds(tree, M, at, at)
      BY <1>1, <2>6 DEF Fits
    <3>2. x = at \/ p = at
      BY <2>1, <2>2, <3>1 DEF Reds
    <3>. QED BY <2>6, <3>2 DEF p
  <2>. QED BY <1>1, <2>4, <2>5, <2>6
<1>6. ASSUME NEW E, E = {e \in M \X Sides : tree.kid[e[2]][e[1]] = Nil},
             NEW S, S = {Blacks[e[1]] + (IF tree.parent[Nil] = e[1] /\ SideOf(tree, Nil) = e[2]
                                         THEN Owed(Nil) ELSE 0) : e \in E}
      PROVE  Cardinality(S) <= 1
  <2>1. CASE tree.root = Nil
    <3>1. M = {}
      BY <1>2, <1>3, <2>1 DEF Shape, RootFits, Ranked
    <3>2. E = {}
      BY <1>6, <3>1
    <3>3. S = {}
      BY <1>6, <3>2
    <3>. QED BY <3>3, FS_EmptySet
  <2>2. CASE tree.root # Nil
    <3>1. PICK C \in Int : \A x \in M : Blacks[x] = C - b[x]
      BY <2>2, BlacksAre
    <3>2. ASSUME NEW x \in M, NEW a \in Sides, tree.kid[a][x] = Nil
          PROVE  Blacks[x] + (IF tree.parent[Nil] = x /\ SideOf(tree, Nil) = a
                              THEN Owed(Nil) ELSE 0) = C
      <4> DEFINE edge == x = GapNode(tree, pc, at) /\ a = SideOf(tree, at)
      <4>1. b[x] = IF edge THEN 1 ELSE 0
        BY <1>1, <3>2 DEF Even, Own
      <4>2. edge <=> /\ pc = "delete" /\ at = Nil
                     /\ tree.parent[Nil] = x /\ SideOf(tree, Nil) = a
        <5>1. edge <=> /\ pc = "delete" /\ at # tree.root /\ tree.kid[a][x] = at
                       /\ at = Nil => tree.parent[Nil] = x /\ SideOf(tree, Nil) = a
          BY <1>1, <1>2, GapEdge
        <5> HIDE DEF edge
        <5>. QED BY <2>2, <3>2, <5>1
      <4> HIDE DEF edge
      <4>. QED BY <3>1, <4>1, <4>2 DEF Owed
    <3>3. \A e \in E : e[1] \in M /\ e[2] \in Sides /\ tree.kid[e[2]][e[1]] = Nil
      BY <1>6
    <3>4. S \subseteq {C}
      BY <1>6, <3>2, <3>3
    <3>5. IsFiniteSet({C}) /\ Cardinality({C}) = 1
      BY FS_Singleton
    <3>. QED BY <3>4, <3>5, FS_Subset
  <2>. QED BY <2>1, <2>2
<1>7. Nil \notin tree.red
  BY <1>1, <1>3
<1>. QED BY <1>1, <1>4, <1>5, <1>6, <1>7 DEF Balanced

-----------------------------------------------------------------------------
(* The tree as the sequence of SortedSeq.                                   *)

\* r is q with e put in after place i.
Spliced(q, e, i, r) ==
  /\ i \in 0 .. Len(q) /\ Len(r) = Len(q) + 1
  /\ \A j \in 1 .. Len(q) + 1 :
       r[j] = IF j <= i THEN q[j] ELSE IF j = i + 1 THEN e ELSE q[j - 1]

LEMMA SpliceIs ==
  ASSUME NEW S, NEW q \in Seq(S), NEW e \in S, NEW i, NEW r \in Seq(S), Spliced(q, e, i, r)
  PROVE  SubSeq(q, 1, i) \o <<e>> \o SubSeq(q, i + 1, Len(q)) = r
<1>0. /\ i \in 0 .. Len(q) /\ Len(r) = Len(q) + 1
      /\ \A j \in 1 .. Len(q) + 1 :
           r[j] = IF j <= i THEN q[j] ELSE IF j = i + 1 THEN e ELSE q[j - 1]
  BY DEF Spliced
<1> DEFINE L == Len(q)
           a == SubSeq(q, 1, i)
           m == <<e>>
           c == SubSeq(q, i + 1, L)
           am == a \o m
           w == am \o c
<1>1. L \in Nat /\ i \in 0..L /\ \A j \in 1..L : q[j] \in S
  BY <1>0
<1>2. a \in Seq(S) /\ Len(a) = i /\ \A j \in 1..i : a[j] = q[j]
  <2>1. \A j \in 1..i : q[j] \in S
    BY <1>1
  <2>2. /\ a \in Seq(S) /\ Len(a) = IF 1 <= i THEN i - 1 + 1 ELSE 0
        /\ \A j \in 1 .. i - 1 + 1 : a[j] = q[1 + j - 1]
    BY <1>1, <2>1, SubSeqProperties
  <2> HIDE DEF a
  <2>. QED BY <1>1, <2>2
<1>3. c \in Seq(S) /\ Len(c) = L - i /\ \A j \in 1 .. L - i : c[j] = q[i + j]
  <2>1. \A j \in i + 1 .. L : q[j] \in S
    BY <1>1
  <2>2. /\ c \in Seq(S) /\ Len(c) = IF i + 1 <= L THEN L - (i + 1) + 1 ELSE 0
        /\ \A j \in 1 .. L - (i + 1) + 1 : c[j] = q[i + 1 + j - 1]
    BY <1>1, <2>1, SubSeqProperties
  <2> HIDE DEF c
  <2>. QED BY <1>1, <2>2
<1>4. m \in Seq(S) /\ Len(m) = 1 /\ m[1] = e
  OBVIOUS
<1> HIDE DEF a, m, c, L
<1>5. /\ am \in Seq(S) /\ Len(am) = i + 1
      /\ \A j \in 1 .. i + 1 : am[j] = IF j <= i THEN q[j] ELSE e
  <2>1. /\ am \in Seq(S) /\ Len(am) = Len(a) + Len(m)
        /\ \A j \in 1 .. Len(a) + Len(m) : am[j] = IF j <= Len(a) THEN a[j] ELSE m[j - Len(a)]
    BY <1>2, <1>4, ConcatProperties
  <2> HIDE DEF am
  <2>2. Len(a) = i /\ Len(a) + Len(m) = i + 1
    BY <1>1, <1>2, <1>4
  <2>3. \A j \in 1 .. i + 1 : am[j] = IF j <= i THEN a[j] ELSE m[j - i]
    BY <2>1, <2>2
  <2>. QED BY <1>1, <1>2, <1>4, <2>1, <2>2, <2>3
<1> HIDE DEF am
<1>6. /\ w \in Seq(S) /\ Len(w) = L + 1
      /\ \A j \in 1 .. L + 1 : w[j] = IF j <= i + 1 THEN am[j] ELSE c[j - (i + 1)]
  <2>1. /\ w \in Seq(S) /\ Len(w) = Len(am) + Len(c)
        /\ \A j \in 1 .. Len(am) + Len(c) : w[j] = IF j <= Len(am) THEN am[j] ELSE c[j - Len(am)]
    BY <1>3, <1>5, ConcatProperties
  <2> HIDE DEF w
  <2>2. Len(am) = i + 1 /\ Len(am) + Len(c) = L + 1
    BY <1>1, <1>3, <1>5
  <2>. QED BY <2>1, <2>2
<1> HIDE DEF w
<1>7. ASSUME NEW j \in 1 .. L + 1 PROVE w[j] = r[j]
  <2>1. r[j] = IF j <= i THEN q[j] ELSE IF j = i + 1 THEN e ELSE q[j - 1]
    BY <1>0 DEF L
  <2>2. CASE j <= i + 1
    BY <1>1, <1>5, <1>6, <2>1, <2>2
  <2>3. CASE j > i + 1
    <3> DEFINE l == j - (i + 1)
    <3>1. w[j] = c[l] /\ l \in 1 .. L - i /\ i + l = j - 1
      BY <1>1, <1>6, <2>3
    <3> HIDE DEF l
    <3>2. c[l] = q[i + l]
      BY <1>3, <3>1
    <3>3. r[j] = q[j - 1]
      BY <1>1, <2>1, <2>3
    <3>. QED BY <3>1, <3>2, <3>3
  <2>. QED BY <1>1, <2>2, <2>3
<1>8. w = r
  BY <1>0, <1>6, <1>7, SeqEqual DEF L
<1>. QED BY <1>8 DEF w, am, a, m, c, L

LEMMA CutIs ==
  ASSUME NEW S, NEW q \in Seq(S), NEW i \in 1 .. Len(q),
         NEW r \in Seq(S), Len(r) = Len(q) - 1,
         \A j \in 1 .. Len(q) - 1 : r[j] = IF j < i THEN q[j] ELSE q[j + 1]
  PROVE  SubSeq(q, 1, i - 1) \o SubSeq(q, i + 1, Len(q)) = r
<1> DEFINE L == Len(q)
           a == SubSeq(q, 1, i - 1)
           c == SubSeq(q, i + 1, L)
           w == a \o c
<1>1. L \in Nat /\ i \in 1..L /\ \A j \in 1..L : q[j] \in S
  OBVIOUS
<1>2. a \in Seq(S) /\ Len(a) = i - 1 /\ \A j \in 1 .. i - 1 : a[j] = q[j]
  <2>1. \A j \in 1 .. i - 1 : q[j] \in S
    BY <1>1
  <2>2. /\ a \in Seq(S) /\ Len(a) = IF 1 <= i - 1 THEN i - 1 - 1 + 1 ELSE 0
        /\ \A j \in 1 .. i - 1 - 1 + 1 : a[j] = q[1 + j - 1]
    BY <1>1, <2>1, SubSeqProperties
  <2> HIDE DEF a
  <2>. QED BY <1>1, <2>2
<1>3. c \in Seq(S) /\ Len(c) = L - i /\ \A j \in 1 .. L - i : c[j] = q[i + j]
  <2>1. \A j \in i + 1 .. L : q[j] \in S
    BY <1>1
  <2>2. /\ c \in Seq(S) /\ Len(c) = IF i + 1 <= L THEN L - (i + 1) + 1 ELSE 0
        /\ \A j \in 1 .. L - (i + 1) + 1 : c[j] = q[i + 1 + j - 1]
    BY <1>1, <2>1, SubSeqProperties
  <2> HIDE DEF c
  <2>. QED BY <1>1, <2>2
<1> HIDE DEF a, c, L
<1>4. /\ w \in Seq(S) /\ Len(w) = L - 1
      /\ \A j \in 1 .. L - 1 : w[j] = IF j <= i - 1 THEN a[j] ELSE c[j - (i - 1)]
  <2>1. /\ w \in Seq(S) /\ Len(w) = Len(a) + Len(c)
        /\ \A j \in 1 .. Len(a) + Len(c) : w[j] = IF j <= Len(a) THEN a[j] ELSE c[j - Len(a)]
    BY <1>2, <1>3, ConcatProperties
  <2> HIDE DEF w
  <2>2. Len(a) = i - 1 /\ Len(a) + Len(c) = L - 1
    BY <1>1, <1>2, <1>3
  <2>. QED BY <2>1, <2>2
<1> HIDE DEF w
<1>5. ASSUME NEW j \in 1 .. L - 1 PROVE w[j] = r[j]
  <2>1. r[j] = IF j < i THEN q[j] ELSE q[j + 1]
    BY DEF L
  <2>2. CASE j < i
    BY <1>1, <1>2, <1>4, <2>1, <2>2
  <2>3. CASE j >= i
    <3> DEFINE l == j - (i - 1)
    <3>1. w[j] = c[l] /\ l \in 1 .. L - i /\ i + l = j + 1
      BY <1>1, <1>4, <2>3
    <3> HIDE DEF l
    <3>2. c[l] = q[i + l]
      BY <1>3, <3>1
    <3>3. r[j] = q[j + 1]
      BY <1>1, <2>1, <2>3
    <3>. QED BY <3>1, <3>2, <3>3
  <2>. QED BY <1>1, <2>2, <2>3
<1>6. w = r
  BY <1>4, <1>5, SeqEqual DEF L
<1>. QED BY <1>6 DEF w, a, c, L

\* The members and the times they are due, in order.
Rows == [node : Nodes, due : Nat]
Row(M, N, ord, D) ==
  [i \in 1..N |-> [node |-> NodeAt(M, ord, i), due |-> D[NodeAt(M, ord, i)]]]

\* The same, read off the tree.
Listed(t, D) ==
  LET q == InOrder(t, t.root) IN [i \in DOMAIN q |-> [node |-> q[i], due |-> D[q[i]]]]

LEMMA ListedIs ==
  ASSUME NEW t, NEW D, NEW M, NEW N, NEW ord, Base(t, D, M, N, ord)
  PROVE  Listed(t, D) = Row(M, N, ord, D)
<1> DEFINE q == InOrder(t, t.root)
<1>1. PICK end : Shape(t, M, N, ord, end)
  BY DEF Base
<1>2. Part(M, ord, 1, N) = q /\ Ranked(M, N, ord)
  BY <1>1, WholeOrder DEF Base, Shape
<1> HIDE DEF q
<1>3. DOMAIN q = 1..N /\ \A i \in 1..N : q[i] = NodeAt(M, ord, i)
  BY <1>2, PartHolds
<1>4. Listed(t, D) = [i \in DOMAIN q |-> [node |-> q[i], due |-> D[q[i]]]]
  BY DEF Listed, q
<1>. QED BY <1>3, <1>4 DEF Row

LEMMA RowIs ==
  ASSUME NEW M, NEW N, NEW ord, Ranked(M, N, ord), NEW D \in [Nodes -> Nat],
         NEW x, Row(M, N, ord, D) = x
  PROVE  /\ N \in Nat /\ x \in Seq(Rows) /\ Len(x) = N /\ DOMAIN x = 1..N
         /\ \A i \in 1..N : x[i].node = NodeAt(M, ord, i) /\ x[i].due = D[NodeAt(M, ord, i)]
         /\ {x[i].node : i \in DOMAIN x} = M
<1>1. N \in Nat /\ M \subseteq Nodes /\ \A z \in M : ord[z] \in 1..N
  BY DEF Ranked
<1>2. /\ \A i \in 1..N : NodeAt(M, ord, i) \in M
      /\ \A z \in M : NodeAt(M, ord, ord[z]) = z
  BY NodeAtIs
<1>3. /\ DOMAIN x = 1..N
      /\ \A i \in 1..N :
           /\ x[i] = [node |-> NodeAt(M, ord, i), due |-> D[NodeAt(M, ord, i)]]
           /\ x[i] \in Rows
  BY <1>1, <1>2 DEF Row, Rows
<1>4. x = [i \in 1..N |-> x[i]]
  BY DEF Row
<1>5. x \in Seq(Rows) /\ Len(x) = N
  BY <1>1, <1>3, <1>4
<1>6. {x[i].node : i \in DOMAIN x} = M
  <2>1. ASSUME NEW z \in M PROVE \E i \in 1..N : x[i].node = z
    BY <1>1, <1>2, <1>3
  <2>. QED BY <1>2, <1>3, <2>1
<1>. QED BY <1>1, <1>3, <1>5, <1>6

\* n, due at d, enters x, or leaves it.
Enters(x, y, n, d) ==
  \E i \in 0 .. Len(x) :
    /\ \A j \in 1 .. i : x[j].due <= d
    /\ \A j \in i + 1 .. Len(x) : d < x[j].due
    /\ y = SubSeq(x, 1, i) \o <<[node |-> n, due |-> d]>> \o SubSeq(x, i + 1, Len(x))
Quits(x, y, n) ==
  \E i \in DOMAIN x :
    /\ x[i].node = n
    /\ y = SubSeq(x, 1, i - 1) \o SubSeq(x, i + 1, Len(x))

LEMMA RowOpens ==
  ASSUME NEW M, NEW N, NEW ord, Ranked(M, N, ord), NEW D \in [Nodes -> Nat],
         NEW n \in Nodes \ M, NEW d \in Nat, NEW k, PlaceOf(M, N, ord, D, d, k),
         NEW x, Row(M, N, ord, D) = x,
         NEW y, Row(M \cup {n}, N + 1, Opened(ord, n, k), [D EXCEPT ![n] = d]) = y
  PROVE  Enters(x, y, n, d)
<1> DEFINE G == M \cup {n}
           f == Opened(ord, n, k)
           E == [D EXCEPT ![n] = d]
           e == [node |-> n, due |-> d]
           i == k - 1
<1>1. /\ k \in 1 .. N + 1 /\ N \in Nat /\ M \subseteq Nodes /\ ord \in [Nodes -> Int]
      /\ \A z \in M : IF ord[z] < k THEN D[z] <= d ELSE d < D[z]
  BY DEF PlaceOf, Ranked
<1>2. Ranked(G, N + 1, f)
  BY <1>1, OpenedIsRanked
<1>3. E \in [Nodes -> Nat] /\ E[n] = d /\ \A z \in M : E[z] = D[z]
  BY <1>1
<1>4. \A z \in Nodes : f[z] = IF z = n THEN k ELSE IF ord[z] >= k THEN ord[z] + 1 ELSE ord[z]
  BY DEF Opened
<1>5. /\ x \in Seq(Rows) /\ Len(x) = N
      /\ \A j \in 1..N : x[j].node = NodeAt(M, ord, j) /\ x[j].due = D[NodeAt(M, ord, j)]
  BY RowIs
<1>6. y \in Seq(Rows) /\ Len(y) = N + 1
  <2> HIDE DEF E, f, G
  <2>1. Row(G, N + 1, f, E) = y
    BY DEF E, f, G
  <2>. QED BY <1>2, <1>3, <2>1, RowIs
<1>7. /\ \A j \in 1..N : NodeAt(M, ord, j) \in M /\ ord[NodeAt(M, ord, j)] = j
      /\ \A z \in G : NodeAt(G, f, f[z]) = z
  <2>1. \A j \in 1..N : NodeAt(M, ord, j) \in M /\ ord[NodeAt(M, ord, j)] = j
    BY NodeAtIs
  <2> HIDE DEF G, f
  <2>2. \A z \in G : NodeAt(G, f, f[z]) = z
    BY <1>2, NodeAtIs
  <2>. QED BY <2>1, <2>2
<1>8. \A j \in 1 .. N + 1 : y[j] = [node |-> NodeAt(G, f, j), due |-> E[NodeAt(G, f, j)]]
  BY <1>1 DEF Row
<1>9. \A j \in 1..N : x[j] = [node |-> NodeAt(M, ord, j), due |-> D[NodeAt(M, ord, j)]]
  BY <1>1 DEF Row
<1> HIDE DEF f, E
<1>10. ASSUME NEW j \in 1 .. N + 1
       PROVE  y[j] = IF j <= i THEN x[j] ELSE IF j = i + 1 THEN e ELSE x[j - 1]
  <2>1. CASE j < k
    <3> DEFINE z == NodeAt(M, ord, j)
    <3>1. j \in 1..N /\ z \in M /\ ord[z] = j
      BY <1>1, <1>7, <2>1
    <3> HIDE DEF z
    <3>2. f[z] = j
      BY <1>1, <1>4, <2>1, <3>1
    <3>3. NodeAt(G, f, j) = z
      BY <1>7, <3>1, <3>2
    <3>4. y[j] = [node |-> z, due |-> D[z]]
      BY <1>3, <1>8, <3>1, <3>3
    <3>5. x[j] = [node |-> z, due |-> D[z]]
      BY <1>9, <3>1 DEF z
    <3>. QED BY <1>1, <2>1, <3>4, <3>5
  <2>2. CASE j = k
    <3>1. f[n] = k
      BY <1>4
    <3>2. NodeAt(G, f, k) = n
      BY <1>7, <3>1
    <3>. QED BY <1>1, <1>3, <1>8, <2>2, <3>2
  <2>3. CASE j > k
    <3> DEFINE z == NodeAt(M, ord, j - 1)
    <3>1. j - 1 \in 1..N /\ z \in M /\ ord[z] = j - 1
      BY <1>1, <1>7, <2>3
    <3> HIDE DEF z
    <3>2. f[z] = j
      BY <1>1, <1>4, <2>3, <3>1
    <3>3. NodeAt(G, f, j) = z
      BY <1>7, <3>1, <3>2
    <3>4. y[j] = [node |-> z, due |-> D[z]]
      BY <1>3, <1>8, <3>1, <3>3
    <3>5. x[j - 1] = [node |-> z, due |-> D[z]]
      BY <1>9, <3>1 DEF z
    <3>. QED BY <1>1, <2>3, <3>4, <3>5
  <2>. QED BY <1>1, <2>1, <2>2, <2>3
<1>11. i \in 0 .. Len(x) /\ i + 1 = k
  BY <1>1, <1>5
<1>12. e \in Rows
  BY DEF Rows
<1> HIDE DEF i, e, G
<1>13. SubSeq(x, 1, i) \o <<e>> \o SubSeq(x, i + 1, Len(x)) = y
  <2>1. Spliced(x, e, i, y)
    BY <1>5, <1>6, <1>10, <1>11 DEF Spliced
  <2>. QED BY <1>5, <1>6, <1>12, <2>1, SpliceIs
<1>14. \A j \in 1 .. i : x[j].due <= d
  <2>1. ASSUME NEW j \in 1 .. i PROVE x[j].due <= d
    <3>1. j \in 1..N /\ j < k
      BY <1>1, <1>5, <1>11
    <3>. QED BY <1>1, <1>5, <1>7, <3>1
  <2>. QED BY <2>1
<1>15. \A j \in i + 1 .. Len(x) : d < x[j].due
  <2>1. ASSUME NEW j \in i + 1 .. Len(x) PROVE d < x[j].due
    <3>1. j \in 1..N /\ ~(j < k)
      BY <1>1, <1>5, <1>11
    <3>. QED BY <1>1, <1>5, <1>7, <3>1
  <2>. QED BY <2>1
<1>. QED BY <1>11, <1>13, <1>14, <1>15 DEF e, Enters

LEMMA RowCloses ==
  ASSUME NEW M, NEW N, NEW ord, Ranked(M, N, ord), NEW D \in [Nodes -> Nat], NEW n \in M,
         NEW x, Row(M, N, ord, D) = x,
         NEW y, Row(M \ {n}, N - 1, Closed(ord, ord[n]), [D EXCEPT ![n] = 0]) = y
  PROVE  Quits(x, y, n)
<1> DEFINE G == M \ {n}
           k == ord[n]
           f == Closed(ord, k)
           E == [D EXCEPT ![n] = 0]
<1>1. N \in Nat /\ k \in 1..N /\ M \subseteq Nodes /\ ord \in [Nodes -> Int]
  BY DEF Ranked
<1>2. Ranked(G, N - 1, f) /\ N - 1 \in Nat
  BY ClosedIsRanked
<1>3. E \in [Nodes -> Nat] /\ \A z \in G : E[z] = D[z]
  BY <1>1
<1>4. \A z \in Nodes : f[z] = IF ord[z] > k THEN ord[z] - 1 ELSE ord[z]
  BY DEF Closed
<1>5. x \in Seq(Rows) /\ Len(x) = N /\ DOMAIN x = 1..N
  BY RowIs
<1>6. y \in Seq(Rows) /\ Len(y) = N - 1
  <2> HIDE DEF E, f, G
  <2>1. Row(G, N - 1, f, E) = y
    BY DEF E, f, G
  <2>. QED BY <1>2, <1>3, <2>1, RowIs
<1>7. /\ \A j \in 1..N : NodeAt(M, ord, j) \in M /\ ord[NodeAt(M, ord, j)] = j
      /\ NodeAt(M, ord, k) = n
      /\ \A z \in G : NodeAt(G, f, f[z]) = z
  <2>1. /\ \A j \in 1..N : NodeAt(M, ord, j) \in M /\ ord[NodeAt(M, ord, j)] = j
        /\ NodeAt(M, ord, k) = n
    BY NodeAtIs
  <2> HIDE DEF G, f
  <2>2. \A z \in G : NodeAt(G, f, f[z]) = z
    BY <1>2, NodeAtIs
  <2>. QED BY <2>1, <2>2
<1>8. \A j \in 1 .. N - 1 : y[j] = [node |-> NodeAt(G, f, j), due |-> E[NodeAt(G, f, j)]]
  BY <1>1 DEF Row
<1>9. \A j \in 1..N : x[j] = [node |-> NodeAt(M, ord, j), due |-> D[NodeAt(M, ord, j)]]
  BY <1>1 DEF Row
<1> HIDE DEF f, E, k
<1>10. ASSUME NEW j \in 1 .. N - 1 PROVE y[j] = IF j < k THEN x[j] ELSE x[j + 1]
  <2>1. CASE j < k
    <3> DEFINE z == NodeAt(M, ord, j)
    <3>1. j \in 1..N /\ z \in M /\ ord[z] = j /\ z # n
      BY <1>1, <1>7, <2>1 DEF k
    <3> HIDE DEF z
    <3>2. f[z] = j
      BY <1>1, <1>4, <2>1, <3>1
    <3>3. NodeAt(G, f, j) = z
      BY <1>7, <3>1, <3>2
    <3>4. y[j] = [node |-> z, due |-> D[z]]
      BY <1>3, <1>8, <3>1, <3>3
    <3>5. x[j] = [node |-> z, due |-> D[z]]
      BY <1>9, <3>1 DEF z
    <3>. QED BY <2>1, <3>4, <3>5
  <2>2. CASE j >= k
    <3> DEFINE z == NodeAt(M, ord, j + 1)
    <3>1. j + 1 \in 1..N /\ z \in M /\ ord[z] = j + 1 /\ z # n
      BY <1>1, <1>7, <2>2 DEF k
    <3> HIDE DEF z
    <3>2. f[z] = j
      BY <1>1, <1>4, <2>2, <3>1
    <3>3. NodeAt(G, f, j) = z
      BY <1>7, <3>1, <3>2
    <3>4. y[j] = [node |-> z, due |-> D[z]]
      BY <1>3, <1>8, <3>1, <3>3
    <3>5. x[j + 1] = [node |-> z, due |-> D[z]]
      BY <1>9, <3>1 DEF z
    <3>. QED BY <1>1, <2>2, <3>4, <3>5
  <2>. QED BY <1>1, <2>1, <2>2
<1> HIDE DEF G
<1>11. SubSeq(x, 1, k - 1) \o SubSeq(x, k + 1, Len(x)) = y
  BY <1>1, <1>5, <1>6, <1>10, CutIs
<1>12. k \in DOMAIN x /\ x[k].node = n
  BY <1>1, <1>5, <1>7, <1>9
<1>. QED BY <1>11, <1>12 DEF Quits

-----------------------------------------------------------------------------
(* The theorems.                                                            *)

\* Linked: in every reachable state, in the middle of a rebalancing too, the
\* walk in order meets each node of the tree once, the links down and up agree,
\* and a node outside the tree has no links, key or colour.
THEOREM NodesLinked == Spec => []Linked
<1>1. IInv => Linked
  BY SoundIsLinked DEF IInv
<1>. QED BY <1>1, SpecIsSound, PTL

\* Balanced: between the calls the root is black, no red node has a red parent
\* and every way from the root to the sentinel has as many black nodes; in the
\* loops of art_rbtree_insert and art_rbtree_delete that holds but for the node
\* they work at.
THEOREM StaysBalanced == Spec => []Balanced
<1>1. IInv => Balanced
  BY SoundIsBalanced DEF IInv
<1>. QED BY <1>1, SpecIsSound, PTL

\* BrotherExists: the loop of art_rbtree_delete never reads the sentinel's kids
\* as a brother's.
THEOREM BrotherIsNode == Spec => []BrotherExists
<1>1. IInv => BrotherExists
  BY SoundHasBrother DEF IInv
<1>. QED BY <1>1, SpecIsSound, PTL

\* Neighbours: art_rbtree_suc walks through all nodes in order; art_rbtree_pre
\* goes to the node before where the left subtree has at most one node, and to
\* an earlier one everywhere else.
THEOREM NeighboursReturned == Spec => []Neighbours
<1>1. IInv => Neighbours
  BY SoundHasNeighbours DEF IInv
<1>. QED BY <1>1, SpecIsSound, PTL

\* LookupFinds: art_str_rbtree_lookup finds a string exactly if it is there.
THEOREM StringsFound == Spec => []LookupFinds
<1>1. IInv => LookupFinds
  BY SoundLookupFinds DEF IInv
<1>. QED BY <1>1, SpecIsSound, PTL

\* A call's effect on the sequence, and that of a loop.
LEMMA InsertLists ==
  ASSUME NEW M, NEW N, NEW ord, NEW b, Sound(tree, pc, at, due, M, N, ord, b),
         NEW n \in Nodes, NEW d \in DueTimes[tree.insert][n], Insert(n, d),
         NEW x, Listed(tree, due) = x, NEW y, Listed(tree', due') = y
  PROVE  /\ n \in Nodes \ {x[i].node : i \in DOMAIN x}
         /\ n \in {y[i].node : i \in DOMAIN y}
         /\ Enters(x, y, n, d)
<1>1. /\ n \in Nodes \ M /\ due' = [due EXCEPT ![n] = d] /\ d \in Nat
      /\ Placed(M, N, ord, n, d)
  BY InsertStep
<1>2. PICK k, f : /\ PlaceOf(M, N, ord, due, d, k)
                  /\ Sound(tree', pc', at', due', M \cup {n}, N + 1, Opened(ord, n, k), f)
  BY <1>1 DEF Placed
<1> DEFINE G == M \cup {n}
           g == Opened(ord, n, k)
<1>3. Base(tree, due, M, N, ord) /\ Ranked(M, N, ord) /\ due \in [Nodes -> Nat]
  BY DEF Sound, Base, Shape, Keyed
<1> HIDE DEF G, g
<1>4. Base(tree', due', G, N + 1, g) /\ Ranked(G, N + 1, g) /\ due' \in [Nodes -> Nat]
  BY <1>2 DEF Sound, Base, Shape, Keyed, G, g
<1>5. Row(M, N, ord, due) = x
  BY <1>3, ListedIs
<1>6. Row(G, N + 1, g, due') = y
  BY <1>4, ListedIs
<1>7. {x[i].node : i \in DOMAIN x} = M
  BY <1>3, <1>5, RowIs
<1>8. {y[i].node : i \in DOMAIN y} = G
  BY <1>4, <1>6, RowIs
<1>9. Row(M \cup {n}, N + 1, Opened(ord, n, k), [due EXCEPT ![n] = d]) = y
  BY <1>1, <1>6 DEF G, g
<1>10. Enters(x, y, n, d)
  BY <1>1, <1>2, <1>3, <1>5, <1>9, RowOpens
<1>. QED BY <1>1, <1>7, <1>8, <1>10 DEF G

LEMMA DeleteLists ==
  ASSUME NEW M, NEW N, NEW ord, NEW b, Sound(tree, pc, at, due, M, N, ord, b),
         NEW n \in Nodes, Delete(n),
         NEW x, Listed(tree, due) = x, NEW y, Listed(tree', due') = y
  PROVE  /\ n \in {x[i].node : i \in DOMAIN x}
         /\ n \notin {y[i].node : i \in DOMAIN y}
         /\ Quits(x, y, n)
<1>1. n \in M /\ due' = [due EXCEPT ![n] = 0]
  BY DeleteStep
<1>2. PICK f : Sound(tree', pc', at', due', M \ {n}, N - 1, Closed(ord, ord[n]), f)
  BY DeleteStep
<1> DEFINE G == M \ {n}
           g == Closed(ord, ord[n])
<1>3. Base(tree, due, M, N, ord) /\ Ranked(M, N, ord) /\ due \in [Nodes -> Nat]
  BY DEF Sound, Base, Shape, Keyed
<1> HIDE DEF G, g
<1>4. Base(tree', due', G, N - 1, g) /\ Ranked(G, N - 1, g) /\ due' \in [Nodes -> Nat]
  BY <1>2 DEF Sound, Base, Shape, Keyed, G, g
<1>5. Row(M, N, ord, due) = x
  BY <1>3, ListedIs
<1>6. Row(G, N - 1, g, due') = y
  BY <1>4, ListedIs
<1>7. {x[i].node : i \in DOMAIN x} = M
  BY <1>3, <1>5, RowIs
<1>8. {y[i].node : i \in DOMAIN y} = G
  BY <1>4, <1>6, RowIs
<1>9. Row(M \ {n}, N - 1, Closed(ord, ord[n]), [due EXCEPT ![n] = 0]) = y
  BY <1>1, <1>6 DEF G, g
<1>10. Quits(x, y, n)
  BY <1>1, <1>3, <1>5, <1>9, RowCloses
<1>. QED BY <1>1, <1>7, <1>8, <1>10 DEF G

LEMMA LoopLists ==
  ASSUME NEW M, NEW N, NEW ord, NEW b, Sound(tree, pc, at, due, M, N, ord, b),
         InsertFixup \/ InsertDone \/ DeleteFixup \/ DeleteDone
  PROVE  Listed(tree', due') = Listed(tree, due)
<1>1. PICK f : Sound(tree', pc', at', due', M, N, ord, f)
  BY LoopStep
<1>2. due' = due
  BY LoopStep
<1>3. Base(tree, due, M, N, ord) /\ Base(tree', due', M, N, ord)
  BY <1>1 DEF Sound
<1>4. Listed(tree, due) = Row(M, N, ord, due) /\ Listed(tree', due') = Row(M, N, ord, due')
  BY <1>3, ListedIs
<1>. QED BY <1>2, <1>4

\* ImplementsSortedSeq: the calls do to the tree in order what SortedSeq allows:
\* a node enters after all that are due no later and before all that are due
\* later, one leaves, and rebalancing changes nothing.
THEOREM ImplementsItsOrder == Spec => ImplementsSortedSeq
<1> DEFINE elements == LET q == InOrder(tree, tree.root)
                       IN  [i \in DOMAIN q |-> [node |-> q[i], due |-> due[q[i]]]]
<1>1. Init => Sorted!Init
  <2> SUFFICES ASSUME Init PROVE Sorted!Init
    OBVIOUS
  <2>1. tree \in TreeType /\ tree.root = Nil
    <3>1. PICK M, N, ord, b : Sound(tree, pc, at, due, M, N, ord, b)
      BY InitIsSound
    <3>2. tree.root = Nil
      BY DEF Init
    <3>. QED BY <3>1, <3>2 DEF Sound, Base
  <2>2. PICK M, N, ord, b, end : Shape(tree, M, N, ord, end)
    BY InitIsSound DEF Sound, Base
  <2>3. InOrder(tree, tree.root) = <<>>
    BY <2>1, <2>2, InOrderIs
  <2>. QED BY <2>3 DEF Sorted!Init
<1>2. IInv /\ [Next]_vars => [Sorted!Next]_elements
  <2> SUFFICES ASSUME IInv, [Next]_vars PROVE [Sorted!Next]_elements
    OBVIOUS
  <2>1. PICK M, N, ord, b : Sound(tree, pc, at, due, M, N, ord, b)
    BY DEF IInv
  <2>2. elements = Listed(tree, due) /\ elements' = Listed(tree', due')
    BY DEF Listed
  <2> DEFINE x == Listed(tree, due)
             y == Listed(tree', due')
  <2>3. ASSUME NEW n \in Nodes, NEW d \in DueTimes[tree.insert][n], Insert(n, d)
        PROVE  Sorted!Next
    <3>1. Listed(tree, due) = x /\ Listed(tree', due') = y
      OBVIOUS
    <3>2. d \in UNION {DueTimes[o][m] : o \in Orders, m \in Nodes}
      BY <2>1 DEF Sound, Base, Keyed
    <3> HIDE DEF x, y
    <3>3. /\ n \in Nodes \ {x[i].node : i \in DOMAIN x}
          /\ n \in {y[i].node : i \in DOMAIN y}
          /\ Enters(x, y, n, d)
      BY <2>1, <2>3, <3>1, InsertLists
    <3>4. /\ Sorted!Members = {x[i].node : i \in DOMAIN x}
          /\ Sorted!Members' = {y[i].node : i \in DOMAIN y}
      BY <2>2, <3>1 DEF Sorted!Members
    <3>5. Sorted!Insert(n, d)
      BY <2>2, <3>1, <3>3 DEF Enters, Sorted!Insert
    <3>. QED BY <3>2, <3>3, <3>4, <3>5 DEF Sorted!Next
  <2>4. ASSUME NEW n \in Nodes, Delete(n) PROVE Sorted!Next
    <3>1. Listed(tree, due) = x /\ Listed(tree', due') = y
      OBVIOUS
    <3> HIDE DEF x, y
    <3>3. /\ n \in {x[i].node : i \in DOMAIN x}
          /\ n \notin {y[i].node : i \in DOMAIN y}
          /\ Quits(x, y, n)
      BY <2>1, <2>4, <3>1, DeleteLists
    <3>4. /\ Sorted!Members = {x[i].node : i \in DOMAIN x}
          /\ Sorted!Members' = {y[i].node : i \in DOMAIN y}
      BY <2>2, <3>1 DEF Sorted!Members
    <3>5. Sorted!Delete(n)
      BY <2>2, <3>1, <3>3 DEF Quits, Sorted!Delete
    <3>. QED BY <3>3, <3>4, <3>5 DEF Sorted!Next
  <2>5. ASSUME InsertFixup \/ InsertDone \/ DeleteFixup \/ DeleteDone
        PROVE  elements' = elements
    BY <2>1, <2>2, <2>5, LoopLists
  <2>6. CASE UNCHANGED vars
    BY <2>6 DEF vars
  <2>. QED BY <2>3, <2>4, <2>5, <2>6 DEF Next
<1>. QED BY IInvInitially, IInvInductive, <1>1, <1>2, PTL
         DEF Spec, ImplementsSortedSeq, Sorted!Spec

-----------------------------------------------------------------------------
(* The loops end.                                                           *)

LEMMA SizeIs ==
  ASSUME NEW t \in TreeType, NEW M, NEW N, NEW ord, NEW end, Shape(t, M, N, ord, end)
  PROVE  /\ Size(t, Nil) = 0
         /\ \A x \in M : Size(t, x) = end["right"][x] - end["left"][x] + 1
<1>1. InOrder(t, Nil) = <<>>
  BY InOrderIs
<1>2. Ranked(M, N, ord)
  BY DEF Shape
<1>3. ASSUME NEW x \in M PROVE Size(t, x) = end["right"][x] - end["left"][x] + 1
  <2> DEFINE a == end["left"][x]
             b == end["right"][x]
  <2>1. InOrder(t, x) = Part(M, ord, a, b)
    BY InOrderIs
  <2>2. a \in Int /\ b \in Int /\ 1 <= a /\ a <= b + 1 /\ b <= N
    BY ShapeFacts
  <2> HIDE DEF a, b
  <2>3. Len(Part(M, ord, a, b)) = b - a + 1
    BY <1>2, <2>2, PartType
  <2>. QED BY <2>1, <2>3 DEF Size, a, b
<1>. QED BY <1>1, <1>3 DEF Size

\* From a node to its parent, in a tree with the same links.
LEMMA ParentIsGreater ==
  ASSUME NEW t \in TreeType, NEW M, NEW N, NEW ord, NEW end, Shape(t, M, N, ord, end),
         NEW c \in M \cup {Nil}, NEW p \in M, NEW s \in Sides, t.kid[s][p] = c,
         NEW u \in TreeType, SameLinks(t, u, M)
  PROVE  Size(t, c) \in Nat /\ Size(u, p) \in Nat /\ Size(u, p) > Size(t, c)
<1>1. Shape(u, M, N, ord, end)
  BY SameLinksShape
<1>2. Size(u, p) = end["right"][p] - end["left"][p] + 1
  BY <1>1, SizeIs
<1>3. /\ end["left"][p] \in Int /\ end["right"][p] \in Int /\ end["left"][p] <= end["right"][p]
  BY ShapeFacts
<1>4. CASE c = Nil
  <2>1. Size(t, c) = 0
    BY <1>4, SizeIs
  <2>. QED BY <1>2, <1>3, <2>1
<1>5. CASE c # Nil
  <2>1. KidFound(t, M, ord, end, s, p, c)
    BY KidIsFound
  <2>2. c \in M /\ end["right"][c] - end["left"][c] < end["right"][p] - end["left"][p]
    BY <1>5, <2>1 DEF KidFound
  <2>3. Size(t, c) = end["right"][c] - end["left"][c] + 1
    BY <2>2, SizeIs
  <2>4. end["left"][c] \in Int /\ end["right"][c] \in Int /\ end["left"][c] <= end["right"][c]
    BY <2>2, ShapeFacts
  <2>. QED BY <1>2, <1>3, <2>2, <2>3, <2>4
<1>. QED BY <1>4, <1>5

LEMMA PaintKeepsLinks ==
  ASSUME NEW t \in TreeType, NEW M, NEW B, NEW R \in SUBSET (Nodes \cup {Nil}),
         NEW u, Paint(t, B, R) = u
  PROVE  u \in TreeType /\ SameLinks(t, u, M) /\ u.red = (t.red \ B) \cup R
<1>1. Recoloured(t, u, (t.red \ B) \cup R)
  BY PaintIs
<1>. QED BY <1>1 DEF Recoloured, SameLinks

\* An insertion's loop goes on only after case A, from c to its grandparent.
LEMMA InsertFixupClimbs ==
  ASSUME NEW t, NEW D, NEW M, NEW N, NEW ord, NEW b, NEW c,
         Sound(t, "insert", c, D, M, N, ord, b), TwoReds(t, c),
         NEW p, NEW g, NEW o, Elders(t, c, p, g, o), NEW u, NEW d,
         InsertFixed(t, c, p, g, o, u, d), TwoReds(u, d)
  PROVE  Size(u, d) > Size(t, c)
<1> DEFINE q == t.kid[o][g]
           s == SideOf(t, p)
<1>1. /\ Base(t, D, M, N, ord) /\ Fits(t, "insert", c, M) /\ Even(t, M, b, Nil, SideOf(t, c))
      /\ t \in TreeType /\ t.red \subseteq M
  BY DEF Sound, Base, GapNode
<1>2. PICK end : Shape(t, M, N, ord, end)
  BY <1>1 DEF Base
<1>3. M \subseteq Nodes /\ Nil \notin M
  BY <1>2, ShapeFacts
<1>4. RedPair(t, M, c, p, g, s, SideOf(t, c))
  <2>1. RedPair(t, M, c, t.parent[c], t.parent[t.parent[c]], SideOf(t, t.parent[c]), SideOf(t, c))
    BY <1>1, <1>2, RedPairIs
  <2>. QED BY <1>1, <2>1 DEF Elders
<1>q. q = t.kid[o][g]
  OBVIOUS
<1> HIDE DEF q, s
<1>5. /\ c \in M /\ p \in M /\ g \in M /\ s \in Sides /\ t.kid[s][g] = p
      /\ SideOf(t, c) \in Sides /\ t.kid[SideOf(t, c)][p] = c
  BY <1>4 DEF RedPair
<1>6. CASE q \in t.red
  <2>1. Paint(t, {p, q}, {g}) = u /\ d = g
    BY <1>6 DEF InsertFixed, q
  <2>2. {g} \in SUBSET (Nodes \cup {Nil})
    BY <1>3, <1>5
  <2>3. u \in TreeType /\ SameLinks(t, u, M)
    BY <1>1, <2>1, <2>2, PaintKeepsLinks
  <2>4. SameLinks(t, t, M)
    BY DEF SameLinks
  <2>5. Size(t, c) \in Nat /\ Size(t, p) \in Nat /\ Size(t, p) > Size(t, c)
    BY <1>1, <1>2, <1>5, <2>4, ParentIsGreater
  <2>6. Size(u, g) \in Nat /\ Size(u, g) > Size(t, p)
    BY <1>1, <1>2, <1>5, <2>3, ParentIsGreater
  <2>. QED BY <2>1, <2>5, <2>6
<1>7. CASE q \notin t.red
  <2>1. u = RaiseParent(t, c) /\ d = IF c = t.kid[o][p] THEN p ELSE c
    BY <1>7 DEF InsertFixed, q
  <2>2. /\ t.kid[Other(SideOf(t, t.parent[c]))][t.parent[t.parent[c]]] \notin t.red
        /\ d = IF c = t.kid[Other(SideOf(t, t.parent[c]))][t.parent[c]] THEN t.parent[c] ELSE c
    <3>1. t.parent[c] = p /\ t.parent[p] = g /\ Other(SideOf(t, p)) = o
      BY DEF Elders
    <3>2. t.kid[o][g] \notin t.red
      BY <1>7, <1>q, Zenon
    <3>. QED BY <2>1, <3>1, <3>2, Zenon
  <2>3. /\ Kept(t, M, N, ord, u) /\ NoReds(u, M) /\ d \in u.red
    BY <1>1, <1>2, <2>1, <2>2, RaiseParentIs
  <2>4. d \in M
    BY <1>5, <2>1
  <2>5. PICK e : Shape(u, M, N, ord, e)
    BY <2>3 DEF Kept
  <2>6. d # u.root /\ u.parent[d] \in u.red
    BY DEF TwoReds
  <2>7. u.parent[d] \in M /\ SideOf(u, d) \in Sides /\ u.kid[SideOf(u, d)][u.parent[d]] = d
    BY <2>4, <2>5, <2>6, UpTo
  <2>. QED BY <2>3, <2>6, <2>7 DEF NoReds
<1>. QED BY <1>6, <1>7

\* A deletion's loop goes on only after case 2, from c to its parent, which it
\* does not if case 1 has made that one red.
LEMMA DeleteFixupClimbs ==
  ASSUME NEW t, NEW D, NEW M, NEW N, NEW ord, NEW b, NEW c,
         Sound(t, "delete", c, D, M, N, ord, b), LacksBlack(t, c),
         NEW s, NEW o, NEW p, NEW h, NEW w, NEW q, NEW e,
         FixesBy(t, c, s, o, p, h, w, q, e),
         NEW u, NEW d, FixesTo(h, s, o, p, w, e, u, d), LacksBlack(u, d)
  PROVE  Size(u, d) > Size(t, c)
<1> DEFINE v == t.kid[o][p]
<1>1. /\ SideOf(t, c) = s /\ Other(s) = o /\ t.parent[c] = p /\ h.kid[o][p] = w
      /\ IF v \in t.red THEN Rotate(Paint(t, {v}, {p}), p, s) = h ELSE t = h
  BY DEF FixesBy, WithBlackBrother
<1>2. Lacking(t, M, N, ord, b, c, p, s)
  BY <1>1, LackingIs
<1>3. /\ t \in TreeType /\ p \in M /\ s \in Sides /\ t.kid[s][p] = c
  BY <1>2 DEF Lacking
<1>4. PICK end : Shape(t, M, N, ord, end)
  BY <1>2 DEF Lacking
<1>5. c \in M \cup {Nil}
  BY <1>3, <1>4, LinkIs
<1>6. d = p /\ Paint(h, {}, {w}) = u
  <2>1. e = u /\ e.root = d => FALSE
    BY DEF LacksBlack
  <2>. QED BY <2>1 DEF FixesTo
<1> HIDE DEF v
<1>7. Lacking(h, M, N, ord, b, c, p, s)
  <2>1. CASE v \in t.red
    <3>1. t.kid[Other(s)][p] = v /\ Rotate(Paint(t, {v}, {p}), p, s) = h
      BY <1>1, <2>1 DEF v
    <3>. QED BY <1>2, <2>1, <3>1, RaiseRed
  <2>2. CASE v \notin t.red
    BY <1>1, <1>2, <2>2
  <2>. QED BY <2>1, <2>2
<1>8. u \in TreeType /\ SameLinks(h, u, M) /\ u.red = h.red \cup {w}
  <2>1. h \in TreeType /\ \E x : Shape(h, M, N, ord, x)
    BY <1>7 DEF Lacking
  <2>2. w \in Nodes \cup {Nil}
    <3>1. M \subseteq Nodes
      BY <1>4, ShapeFacts
    <3>2. o \in Sides
      BY <1>1, <1>3, SideFacts
    <3>3. w \in M \cup {Nil}
      BY <1>1, <1>3, <2>1, <3>2, LinkIs
    <3>. QED BY <3>1, <3>3
  <2>3. {w} \in SUBSET (Nodes \cup {Nil})
    BY <2>2
  <2>4. h \in TreeType /\ Paint(h, {}, {w}) = u
    BY <1>6, <2>1
  <2>5. u \in TreeType /\ SameLinks(h, u, M) /\ u.red = (h.red \ {}) \cup {w}
    BY <2>3, <2>4, PaintKeepsLinks
  <2>. QED BY <2>5
<1>9. t = h
  <2>1. p \notin u.red
    BY <1>6 DEF LacksBlack
  <2>2. CASE v \in t.red
    <3>1. t.kid[Other(s)][p] = v /\ Rotate(Paint(t, {v}, {p}), p, s) = h
      BY <1>1, <2>2 DEF v
    <3>2. p \in h.red
      BY <1>2, <2>2, <3>1, RaiseRed
    <3>. QED BY <1>8, <2>1, <3>2
  <2>3. CASE v \notin t.red
    BY <1>1, <2>3
  <2>. QED BY <2>2, <2>3
<1>10. SameLinks(t, u, M)
  BY <1>8, <1>9
<1>. QED BY <1>3, <1>4, <1>5, <1>6, <1>8, <1>10, ParentIsGreater

\* Each round of the insertion and of the deletion loop that is not the last
\* one goes on from a node with more nodes below it than the one before.
THEOREM LoopsTerminate == Spec => LoopsEnd
<1> DEFINE Climbs == Size(tree', at') > Size(tree, at)
<1>1. ASSUME IInv, InsertFixup, TwoReds(tree', at') PROVE Climbs
  <2> DEFINE p == tree.parent[at]
             g == tree.parent[p]
             o == Other(SideOf(tree, p))
  <2>1. PICK M, N, ord, b : Sound(tree, pc, at, due, M, N, ord, b)
    BY <1>1 DEF IInv
  <2>2. /\ pc = "insert" /\ TwoReds(tree, at)
        /\ InsertFixed(tree, at, p, g, o, tree', at')
    BY <1>1, Zenon DEF InsertFixup, InsertFixed
  <2>3. Sound(tree, "insert", at, due, M, N, ord, b)
    BY <2>1, <2>2
  <2>4. Elders(tree, at, p, g, o)
    BY DEF Elders
  <2> HIDE DEF p, g, o
  <2>. QED BY <1>1, <2>2, <2>3, <2>4, InsertFixupClimbs
<1>2. ASSUME IInv, DeleteFixup, LacksBlack(tree', at') PROVE Climbs
  <2> DEFINE s == SideOf(tree, at)
             o == Other(s)
             p == tree.parent[at]
             h == WithBlackBrother(tree, p, s)
             w == h.kid[o][p]
             q == WithRedFar(h, w, s)
             e == RaiseBrother(q, p, q.kid[o][p], s)
  <2>1. PICK M, N, ord, b : Sound(tree, pc, at, due, M, N, ord, b)
    BY <1>2 DEF IInv
  <2>2. /\ pc = "delete" /\ LacksBlack(tree, at)
        /\ FixesTo(h, s, o, p, w, e, tree', at')
    BY <1>2, Zenon DEF DeleteFixup, Finish, FixesTo
  <2>3. FixesBy(tree, at, s, o, p, h, w, q, e)
    BY Zenon DEF FixesBy
  <2>4. Sound(tree, "delete", at, due, M, N, ord, b)
    BY <2>1, <2>2
  <2> HIDE DEF s, o, p, h, w, q, e
  <2>. QED BY <1>2, <2>2, <2>3, <2>4, DeleteFixupClimbs
<1> HIDE DEF Climbs
<1>3. IInv => /\ InsertFixup /\ TwoReds(tree', at') => Climbs
              /\ DeleteFixup /\ LacksBlack(tree', at') => Climbs
  BY <1>1, <1>2
<1>. QED BY <1>3, SpecIsSound, PTL DEF LoopsEnd, Climbs

=============================================================================
