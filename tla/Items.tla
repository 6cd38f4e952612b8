------------------------------- MODULE Items -------------------------------
(***************************************************************************)
(* What the list of art_data promises its callers: the data in it are a    *)
(* sequence.  A push appends the datum it returns, which is not in the     *)
(* list yet; a deletion takes out the datum it is given and no other, and  *)
(* answers whether it was there.                                           *)
(***************************************************************************)
EXTENDS Naturals, Sequences

CONSTANT Data   \* what a push may return and a deletion be given

VARIABLES
  items,   \* the data in the list, in the order they were pushed
  call     \* the last call: push or delete, its datum, and what it answered

vars == <<items, call>>

Init ==
  /\ items = <<>>
  /\ call = [op |-> "none", d |-> 0, ok |-> FALSE]

Push(d) ==
  /\ \A i \in DOMAIN items : items[i] # d
  /\ items' = Append(items, d)
  /\ call' = [op |-> "push", d |-> d, ok |-> TRUE]

Delete(d) ==
  \E i \in DOMAIN items :
    /\ items[i] = d
    /\ items' = SubSeq(items, 1, i - 1) \o SubSeq(items, i + 1, Len(items))
    /\ call' = [op |-> "delete", d |-> d, ok |-> TRUE]

NotFound(d) ==
  /\ \A i \in DOMAIN items : items[i] # d
  /\ call' = [op |-> "delete", d |-> d, ok |-> FALSE]
  /\ UNCHANGED items

Next == \E d \in Data : Push(d) \/ Delete(d) \/ NotFound(d)

Spec == Init /\ [][Next]_vars

=============================================================================
