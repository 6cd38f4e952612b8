------------------------------- MODULE Stream -------------------------------
(***************************************************************************)
(* What a window over a file promises its user: bytes move in order, none  *)
(* twice and none left out, and end only where the file does, unless a     *)
(* system call has failed.                                                 *)
(***************************************************************************)
EXTENDS Naturals

VARIABLES
  state,   \* "idle", or a file in use: "well", "ill" once a system call has
           \* failed, "broken" once the program was killed for an access
  limit,   \* how far the file can be moved through
  moved    \* the last move: offsets [from, to) of the file, and skew, how far
           \* the user's bytes are from those due there

vars == <<state, limit, moved>>

Nothing == [from |-> 0, to |-> 0, skew |-> 0]

Init == state = "idle" /\ limit = 0 /\ moved = Nothing

Begin ==
  /\ state = "idle"
  /\ state' \in {"well", "ill"} /\ limit' \in Nat /\ moved' = Nothing

\* The next bytes; none only at the end or when a system call has failed.
Move ==
  /\ state \in {"well", "ill"} /\ state' \in {state, "ill"}
  /\ moved'.from = moved.to /\ moved'.skew = 0
  /\ moved'.from <= moved'.to /\ moved'.to <= limit
  /\ moved'.to = moved'.from => moved'.to = limit \/ state' = "ill"
  /\ UNCHANGED limit

\* Killed: only after a failed system call or past the limit.
Break ==
  /\ state \in {"well", "ill"} /\ state' = "broken"
  /\ moved'.from = moved.to
  /\ state = "ill" \/ moved'.to > limit
  /\ UNCHANGED limit

\* A system call that moves nothing fails.
Fail == state = "well" /\ state' = "ill" /\ UNCHANGED <<limit, moved>>

Leave == state' = "idle" /\ limit' = 0 /\ moved' = Nothing

Next == Begin \/ Move \/ Break \/ Fail \/ Leave

Spec == Init /\ [][Next]_vars

=============================================================================
