------------------------------ MODULE MCRBTree ------------------------------
(* Keys of three bits.  By value, node n is due at n - 1.  As timers, the nodes
   1 to 4 are due at n + 2 or n + 6, so that every window of four times from 3
   to 10 holds each of them, and the keys overflow at 8; node 5 is due with
   node 1.  As strings, two nodes may hold the same one, and up to four have
   the same hash. *)
EXTENDS RBTree

Timer(n) == IF n = 5 THEN 1 ELSE n

MCDueTimes ==
  [value  |-> [n \in Nodes |-> {n - 1}],
   timer  |-> [n \in Nodes |-> IF n > 5 THEN {} ELSE {Timer(n) + 2, Timer(n) + 6}],
   string |-> [n \in Nodes |-> IF n > 5 THEN {} ELSE {n, n + 2}]]

=============================================================================
