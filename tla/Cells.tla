------------------------------- MODULE Cells -------------------------------
(***************************************************************************)
(* The memory pool as its containers see it: a row of cells cut off one    *)
(* region after the other.  A region follows the one before at once or     *)
(* after a gap (of alignment, or because it lies in another block), is     *)
(* zero, and is never anyone else's, as Arena promises.  The containers    *)
(* ask for zeroed regions: when there is no memory, art_palloc zeroes      *)
(* through NULL before it can return it, and the program dies.             *)
(***************************************************************************)
EXTENDS Naturals

CONSTANTS
  MaxCells,   \* bound: cells in the pool
  MaxGaps     \* bound: gaps between regions

ASSUME CellsAssumption == MaxCells \in Nat /\ MaxGaps \in Nat

VARIABLES
  pool,      \* cells cut off, gaps among them, and (ghost) what each is for
  crashed    \* the program wrote or read through NULL

Cell == 1..MaxCells
NULL == 0

PoolInit ==
  /\ pool = [top |-> 0, gaps |-> 0, use |-> [c \in Cell |-> "none"]]
  /\ crashed = FALSE

\* What a zeroed allocation of n cells may return: the first cell of a region,
\* with the pool afterwards.
Alloc(p, n, use) ==
  LET Cut(gap) ==
        LET lo == p.top + gap + 1 IN
        [lo |-> lo,
         pool |-> [top |-> p.top + gap + n, gaps |-> p.gaps + gap,
                   use |-> [c \in Cell |-> IF c \in lo .. lo + n - 1 THEN use
                                           ELSE p.use[c]]]]
  IN  {Cut(gap) : gap \in {g \in {0, 1} : p.top + g + n <= MaxCells
                                          /\ p.gaps + g <= MaxGaps}}

\* The end of the program: there was no memory to zero, which may happen to
\* any allocation, or a pointer was NULL.
Crash == crashed' = TRUE

\* The cells that serve a use.
Used(use) == {c \in Cell : pool.use[c] = use}

=============================================================================
