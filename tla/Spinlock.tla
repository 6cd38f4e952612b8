------------------------------ MODULE Spinlock ------------------------------
(***************************************************************************)
(* The spin lock of ark_core/atomic (art_atomic.c, art_atomic.h), one      *)
(* action per access to the lock word: the plain read `*lock == 0`, the    *)
(* locked cmpxchgl, the exponential back-off between attempts, the         *)
(* sched_yield that ends a round of attempts, the two steps of the         *)
(* art_trylock macro, and the plain store of art_unlock.                   *)
(***************************************************************************)
EXTENDS Naturals

CONSTANTS
  Threads,   \* the threads that share the lock word
  Spin,      \* the `spin` argument: a round backs off while n < spin
  Smp        \* whether sysconf reports more than one processor on line

ASSUME SpinlockAssumption == Spin \in Nat /\ Smp \in BOOLEAN

VARIABLES
  lock,      \* the lock word, 0 when free
  pc,        \* where each thread is in the lock's code
  n          \* art_spinlock's back-off counter, 0 before the first back-off

vars == <<lock, pc, n>>

Spinning == {"test", "cas", "yield"}   \* inside art_spinlock
Trying   == {"trytest", "trycas"}      \* inside art_trylock
Labels   == {"idle", "held"} \cup Spinning \cup Trying

Init ==
  /\ lock = 0
  /\ pc = [t \in Threads |-> "idle"]
  /\ n = [t \in Threads |-> 0]

Goto(t, l) == pc' = [pc EXCEPT ![t] = l]

-----------------------------------------------------------------------------
(* art_spinlock.  A failed attempt of a round doubles n and tries again    *)
(* while n < Spin; a failed round yields the processor and starts afresh.  *)

Call(t) ==
  /\ pc[t] = "idle"
  /\ Goto(t, "test")
  /\ n' = [n EXCEPT ![t] = 0]
  /\ UNCHANGED lock

NextBackoff(k) == IF k = 0 THEN 1 ELSE 2 * k

\* `n <= spin` instead of `n < spin` (for the mutant runs).
BacksOffOnceMore(k) == Smp /\ k <= Spin

BacksOff(k) == Smp /\ k < Spin

Miss(t) ==
  /\ IF BacksOff(NextBackoff(n[t]))
     THEN Goto(t, "test") /\ n' = [n EXCEPT ![t] = NextBackoff(@)]
     ELSE Goto(t, "yield") /\ n' = [n EXCEPT ![t] = 0]
  /\ UNCHANGED lock

Test(t) ==
  /\ pc[t] = "test"
  /\ \/ lock = 0 /\ Goto(t, "cas") /\ UNCHANGED <<lock, n>>
     \/ lock # 0 /\ Miss(t)

\* cmpxchgl without the comparison, a plain exchange (for the mutant runs).
BlindSwap(old) == TRUE

\* The condition under which cmpxchgl stores: the word still holds `old`.
Swaps(old) == lock = old

Cas(t) ==
  /\ pc[t] = "cas"
  /\ \/ Swaps(0) /\ lock' = 1 /\ Goto(t, "held") /\ UNCHANGED n
     \/ ~Swaps(0) /\ Miss(t)

Yield(t) ==
  /\ pc[t] = "yield"
  /\ Goto(t, "test")
  /\ UNCHANGED <<lock, n>>

-----------------------------------------------------------------------------
(* art_trylock gives up, art_time_updata's early return, where art_spinlock *)
(* tries again.                                                            *)

TryCall(t) ==
  /\ pc[t] = "idle"
  /\ Goto(t, "trytest")
  /\ UNCHANGED <<lock, n>>

TryTest(t) ==
  /\ pc[t] = "trytest"
  /\ Goto(t, IF lock = 0 THEN "trycas" ELSE "idle")
  /\ UNCHANGED <<lock, n>>

TryCas(t) ==
  /\ pc[t] = "trycas"
  /\ \/ Swaps(0) /\ lock' = 1 /\ Goto(t, "held")
     \/ ~Swaps(0) /\ Goto(t, "idle") /\ UNCHANGED lock
  /\ UNCHANGED n

\* A return without art_unlock (for the mutant runs).
UnlockForgotten(t) ==
  /\ pc[t] = "held"
  /\ Goto(t, "idle")
  /\ UNCHANGED <<lock, n>>

Unlock(t) ==
  /\ pc[t] = "held"
  /\ lock' = 0
  /\ Goto(t, "idle")
  /\ UNCHANGED n

-----------------------------------------------------------------------------

\* The steps a thread owes once it is inside the lock's code or holds the
\* lock; whether it calls at all is the client's choice.
Step(t) == Test(t) \/ Cas(t) \/ Yield(t) \/ TryTest(t) \/ TryCas(t) \/ Unlock(t)

Next == \E t \in Threads : Call(t) \/ TryCall(t) \/ Step(t)

\* The scheduler runs every runnable thread, and no caller in the
\* repository waits for anything while it holds the lock.
Fairness == \A t \in Threads : WF_vars(Step(t))

Spec == Init /\ [][Next]_vars /\ Fairness

-----------------------------------------------------------------------------
(* Properties *)

\* The threads between a successful acquisition and their art_unlock.
Holders == {t \in Threads : pc[t] = "held"}

\* Types; a round never backs off to `spin` or beyond.
TypeOK ==
  /\ lock \in {0, 1}
  /\ pc \in [Threads -> Labels]
  /\ n \in [Threads -> {0} \cup {k \in Nat : k < Spin}]

\* The lock word is 1 exactly while some one thread holds the lock: no
\* acquisition succeeds against a holder and no release is lost.
LockWordHeld ==
  /\ lock = 0 => Holders = {}
  /\ lock = 1 => \E t \in Threads : Holders = {t}

\* art_spinlock, art_trylock and art_unlock implement a mutual exclusion
\* lock: the threads between acquisition and unlock behave as Mutex's owners.
Abstract == INSTANCE Mutex WITH owners <- Holders

ImplementsMutex == Abstract!Spec

\* art_spinlock is not fair, but it never waits for nothing: a thread that
\* spins for ever does so because the lock goes on changing hands.
WaitsOnlyWhileContended ==
  \A t \in Threads :
    <>[](pc[t] \in Spinning) => []<>(lock = 0) /\ []<>(lock = 1)

=============================================================================
