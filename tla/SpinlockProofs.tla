--------------------------- MODULE SpinlockProofs ---------------------------
(***************************************************************************)
(* Mutual exclusion of the spin lock for any set of threads, any number of *)
(* processors and any `spin` argument, and the refinement of Mutex.        *)
(***************************************************************************)
EXTENDS Spinlock, TLAPS

\* Init and every step keep the types, and no back-off reaches `spin`:
\* Miss starts a new round before n gets there (art_atomic.c, `n < spin`).
THEOREM Typing == Spec => []TypeOK
<1>1. Init => TypeOK
  BY DEF Init, TypeOK, Labels
<1>2. TypeOK /\ [Next]_vars => TypeOK'
  <2>1. SUFFICES ASSUME TypeOK, [Next]_vars PROVE TypeOK'
    OBVIOUS
  <2>2. CASE UNCHANGED vars
    BY <2>1, <2>2 DEF TypeOK, vars
  <2>3. ASSUME NEW t \in Threads, Call(t) PROVE TypeOK'
    BY <2>1, <2>3 DEF TypeOK, Call, Goto, Labels, Spinning
  <2>4. ASSUME NEW t \in Threads, Miss(t), lock' = lock PROVE TypeOK'
    BY <2>1, <2>4, SpinlockAssumption
    DEF TypeOK, Miss, BacksOff, NextBackoff, Goto, Labels, Spinning
  <2>5. ASSUME NEW t \in Threads, Test(t) PROVE TypeOK'
    <3>1. CASE Miss(t)
      BY <2>4, <3>1 DEF Miss
    <3>2. CASE Goto(t, "cas") /\ UNCHANGED <<lock, n>>
      BY <2>1, <3>2 DEF TypeOK, Goto, Labels, Spinning
    <3>. QED BY <2>5, <3>1, <3>2 DEF Test
  <2>6. ASSUME NEW t \in Threads, Cas(t) PROVE TypeOK'
    <3>1. CASE Miss(t)
      BY <2>4, <3>1 DEF Miss
    <3>2. CASE lock' = 1 /\ Goto(t, "held") /\ UNCHANGED n
      BY <2>1, <3>2 DEF TypeOK, Goto, Labels
    <3>. QED BY <2>6, <3>1, <3>2 DEF Cas
  <2>7. ASSUME NEW t \in Threads, Yield(t) PROVE TypeOK'
    BY <2>1, <2>7 DEF TypeOK, Yield, Goto, Labels, Spinning
  <2>8. ASSUME NEW t \in Threads, TryCall(t) \/ TryTest(t) PROVE TypeOK'
    BY <2>1, <2>8 DEF TypeOK, TryCall, TryTest, Goto, Labels, Trying
  <2>9. ASSUME NEW t \in Threads, TryCas(t) \/ Unlock(t) PROVE TypeOK'
    BY <2>1, <2>9 DEF TypeOK, TryCas, Unlock, Goto, Labels
  <2>. QED BY <2>1, <2>2, <2>3, <2>5, <2>6, <2>7, <2>8, <2>9 DEF Next, Step
<1>. QED BY <1>1, <1>2, PTL DEF Spec

-----------------------------------------------------------------------------

\* Every step either leaves the lock word and the set of holders alone, or
\* takes a free word for one new holder, or is the holder's plain store.
LEMMA StepOfTheWord ==
  ASSUME TypeOK, LockWordHeld, [Next]_vars
  PROVE  \/ lock' = lock /\ Holders' = Holders
         \/ \E t \in Threads : lock = 0 /\ lock' = 1 /\ Holders' = {t}
         \/ \E t \in Threads : lock = 1 /\ Holders = {t} /\ lock' = 0 /\ Holders' = {}
<1>. DEFINE Quiet == lock' = lock /\ Holders' = Holders
<1>1. CASE UNCHANGED vars
  BY <1>1 DEF vars, Holders
<1>2. ASSUME NEW t \in Threads, lock' = lock, pc[t] # "held",
             NEW l, l # "held", Goto(t, l)
      PROVE  Quiet
  BY <1>2 DEF TypeOK, Goto, Holders
<1>3. ASSUME NEW t \in Threads, pc[t] # "held", Miss(t) PROVE Quiet
  BY <1>2, <1>3 DEF Miss
<1>4. ASSUME NEW t \in Threads, Call(t) \/ Test(t) \/ Yield(t) PROVE Quiet
  BY <1>2, <1>3, <1>4 DEF Call, Test, Yield
<1>5. ASSUME NEW t \in Threads, TryCall(t) \/ TryTest(t) PROVE Quiet
  BY <1>2, <1>5 DEF TryCall, TryTest
<1>6. ASSUME NEW t \in Threads, lock = 0, lock' = 1, Goto(t, "held")
      PROVE  Holders' = {t}
  BY <1>6 DEF TypeOK, LockWordHeld, Goto, Holders
<1>7. ASSUME NEW t \in Threads, Cas(t) \/ TryCas(t)
      PROVE  Quiet \/ (lock = 0 /\ lock' = 1 /\ Holders' = {t})
  BY <1>2, <1>3, <1>6, <1>7 DEF Cas, TryCas, Swaps
<1>8. ASSUME NEW t \in Threads, Unlock(t)
      PROVE  lock = 1 /\ Holders = {t} /\ lock' = 0 /\ Holders' = {}
  <2>1. t \in Holders
    BY <1>8 DEF Unlock, Holders
  <2>2. lock = 1 /\ Holders = {t}
    BY <2>1 DEF TypeOK, LockWordHeld
  <2>3. Holders' = {}
    BY <1>8, <2>2 DEF Unlock, Goto, TypeOK, Holders
  <2>. QED BY <1>8, <2>2, <2>3 DEF Unlock
<1>. QED BY <1>1, <1>4, <1>5, <1>7, <1>8 DEF Next, Step

\* Mutual exclusion: the word is 1 exactly while some one thread is between
\* its acquisition (art_spinlock or art_trylock) and its art_unlock.
THEOREM Exclusion == Spec => []LockWordHeld
<1>1. Init => LockWordHeld
  BY DEF Init, LockWordHeld, Holders
<1>2. TypeOK /\ LockWordHeld /\ [Next]_vars => LockWordHeld'
  BY StepOfTheWord DEF LockWordHeld
<1>. QED BY <1>1, <1>2, Typing, PTL DEF Spec

\* The lock implements Mutex: each step of art_spinlock, art_trylock and
\* art_unlock is an acquisition, a release or a stutter of the abstract lock.
THEOREM Refinement == Spec => ImplementsMutex
<1>1. Init => Abstract!Init
  BY DEF Init, Abstract!Init, Holders
<1>2. TypeOK /\ LockWordHeld /\ [Next]_vars => [Abstract!Next]_Holders
  BY StepOfTheWord
  DEF LockWordHeld, Abstract!Next, Abstract!Acquire, Abstract!Release
<1>. QED BY <1>1, <1>2, Typing, Exclusion, PTL
     DEF Spec, ImplementsMutex, Abstract!Spec

=============================================================================
