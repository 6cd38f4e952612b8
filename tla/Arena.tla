------------------------------- MODULE Arena -------------------------------
(***************************************************************************)
(* What a memory pool promises to the code that allocates from it: a       *)
(* region that was handed out stays the caller's alone until that region   *)
(* is freed by name or the whole pool is reset or destroyed.               *)
(***************************************************************************)
EXTENDS Integers

CONSTANT Memory      \* the memories (blocks and large chunks) regions lie in

VARIABLE granted     \* the regions that callers may use now

Region == [blk : Memory, lo : Nat, hi : Nat]

Disjoint(r, s) == r.blk # s.blk \/ r.hi <= s.lo \/ s.hi <= r.lo

Apart(R) == \A r, s \in R : r # s => Disjoint(r, s)

Init == granted = {}

\* One call may hand out several regions, its own records among them.
Grant ==
  /\ granted \subseteq granted'
  /\ granted' \in SUBSET Region
  /\ Apart(granted')

FreeOne ==
  \E m \in Memory : granted' = {r \in granted : r.blk # m}

FreeAll == granted' = {}

Next == Grant \/ FreeOne \/ FreeAll

Spec == Init /\ [][Next]_granted

=============================================================================
