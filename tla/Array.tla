------------------------------- MODULE Array -------------------------------
(***************************************************************************)
(* The array of ark_core/art_data (art_array.c).  A full array gets a new  *)
(* region and moves there, unless the region happens to lie right behind   *)
(* the old one: then it keeps both.  A cell holds one element; the caller  *)
(* stores the number of each element in it, at once, so that what it finds *)
(* there later can be told.                                                *)
(***************************************************************************)
EXTENDS Cells, Sequences

CONSTANTS
  ElementCounts,   \* the n art_array_creat is called with
  PushCounts       \* the n art_array_npush is called with

ASSUME ArrayAssumption ==
  ElementCounts \subseteq Nat \ {0} /\ PushCounts \subseteq Nat \ {0}

VARIABLE
  array   \* elts (NULL before art_array_creat), nalloc, used; mem, what every
          \* cell of an array holds

ArrayInit ==
  array = [elts |-> NULL, nalloc |-> 0, used |-> 0, mem |-> [c \in Cell |-> 0]]

\* art_array_creat.  Without memory for the array itself, which it does not
\* have zeroed, it returns NULL and changes nothing; without memory for the
\* elements it dies.
ArrayCreate(n) ==
  /\ array.elts = NULL
  /\ \/ \E a \in Alloc(pool, n, "array") :
          /\ pool' = a.pool
          /\ array' = [array EXCEPT !.elts = a.lo, !.nalloc = n]
          /\ UNCHANGED crashed
     \/ Crash /\ UNCHANGED <<pool, array>>

\* The region behind counted as though it replaced the old one, or the
\* elements left where they were (for the mutant runs).
RoomierAnyway(a, lo, m) ==
  IF a.elts + a.nalloc = lo THEN [a EXCEPT !.nalloc = (m + 2) * @]
  ELSE [a EXCEPT !.elts = lo, !.nalloc = m * @,
                 !.mem = [c \in Cell |-> IF c \in lo .. lo + a.nalloc - 1
                                         THEN @[a.elts + (c - lo)] ELSE @[c]]]

MovedEmpty(a, lo, m) ==
  IF a.elts + a.nalloc = lo THEN [a EXCEPT !.nalloc = (m + 1) * @]
  ELSE [a EXCEPT !.elts = lo, !.nalloc = m * @]

\* m times the room at lo: behind the old region, or instead of it.
Roomier(a, lo, m) ==
  IF a.elts + a.nalloc = lo THEN [a EXCEPT !.nalloc = (m + 1) * @]
  ELSE [a EXCEPT !.elts = lo, !.nalloc = m * @,
                 !.mem = [c \in Cell |-> IF c \in lo .. lo + a.nalloc - 1
                                         THEN @[a.elts + (c - lo)] ELSE @[c]]]

\* The array with n more elements, stored by the caller.
Extended(a, n) ==
  LET new == a.elts + a.used .. a.elts + a.used + n - 1
  IN  [a EXCEPT !.used = @ + n,
                !.mem = [c \in Cell |-> IF c \in new THEN c - a.elts + 1 ELSE @[c]]]

Fits(a, n) == a.used + n <= a.nalloc

\* The least m from 2 on for which the new region alone would do.
Multiple(a, n) ==
  CHOOSE m \in 2 .. n + 2 : /\ a.used + n <= a.nalloc * m
                            /\ \A k \in 2 .. m - 1 : a.used + n > a.nalloc * k

\* art_array_npush, and art_array_push for n = 1; it dies without memory for
\* the room it needs.
ArrayPush(n) ==
  /\ array.elts # NULL
  /\ \/ /\ Fits(array, n)
        /\ array' = Extended(array, n)
        /\ UNCHANGED <<pool, crashed>>
     \/ /\ ~Fits(array, n)
        /\ LET m == Multiple(array, n) IN
           \E a \in Alloc(pool, array.nalloc * m, "array") :
             /\ pool' = a.pool
             /\ array' = Extended(Roomier(array, a.lo, m), n)
        /\ UNCHANGED crashed
     \/ ~Fits(array, n) /\ Crash /\ UNCHANGED <<pool, array>>

ArrayNext ==
  \/ \E n \in ElementCounts : ArrayCreate(n)
  \/ \E n \in PushCounts : ArrayPush(n)

-----------------------------------------------------------------------------
(* Properties *)

\* The array's elements, and the room up to nalloc, lie in memory that it got
\* from the pool, also after it grew into a region behind its own.
ArrayInItsMemory ==
  array.elts # NULL =>
    /\ array.used <= array.nalloc
    /\ array.elts .. array.elts + array.nalloc - 1 \subseteq Used("array")

\* The elements are a row that only grows at its end: none is lost or changed
\* when the array moves, or when it grows where it is.
Elements == INSTANCE Row WITH
  Counts <- PushCounts, elements <- [i \in 1..array.used |-> array.mem[array.elts + i - 1]]

ArrayIsRow == Elements!Spec

=============================================================================
