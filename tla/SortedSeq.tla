----------------------------- MODULE SortedSeq -----------------------------
(***************************************************************************)
(* What an ordered container promises: its elements stand in the order of  *)
(* their due times, those due at the same time in the order of insertion.  *)
(***************************************************************************)
EXTENDS Naturals, Sequences

CONSTANTS
  Nodes,   \* what it may contain
  Times    \* when an element may be due

VARIABLE seq   \* [node, due] records, earliest first

Init == seq = <<>>

Members == {seq[i].node : i \in DOMAIN seq}

\* After all that are due no later, before all that are due later.
Insert(n, d) ==
  \E i \in 0 .. Len(seq) :
    /\ \A j \in 1 .. i : seq[j].due <= d
    /\ \A j \in i + 1 .. Len(seq) : d < seq[j].due
    /\ seq' = SubSeq(seq, 1, i) \o <<[node |-> n, due |-> d]>> \o SubSeq(seq, i + 1, Len(seq))

Delete(n) ==
  \E i \in DOMAIN seq :
    /\ seq[i].node = n
    /\ seq' = SubSeq(seq, 1, i - 1) \o SubSeq(seq, i + 1, Len(seq))

Next ==
  \/ \E n \in Members \ Members' : Delete(n)
  \/ \E n \in (Members' \cap Nodes) \ Members, d \in Times : Insert(n, d)

Spec == Init /\ [][Next]_seq

=============================================================================
