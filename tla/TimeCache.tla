------------------------------ MODULE TimeCache ------------------------------
(***************************************************************************)
(* The time cache of ark_core/times (art_times.c, art_times.h): a ring of  *)
(* slots, each with a time and its two texts, that art_time_updata fills   *)
(* one after the other and publishes through three pointers; readers take  *)
(* a pointer without the lock and look through it later.  Each store to    *)
(* what readers see is a step of its own.  A text stands for the second it *)
(* shows; the lock is taken in one step, as Spinlock's refinement of Mutex *)
(* allows.                                                                 *)
(***************************************************************************)
EXTENDS Naturals

CONSTANTS
  Updaters,   \* the threads that call art_time_updata
  Readers,    \* the threads that use the cached times
  Slots,      \* ART_MAX_SLOT
  Secs,       \* seconds the clock may show: a clock may be set back
  Msecs,
  None,       \* NULL
  Torn        \* a text that art_fprintf is writing

Ring == 0 .. Slots - 1

ASSUME TimeCacheAssumption ==
  /\ Slots \in Nat /\ Slots >= 2
  /\ Secs \subseteq Nat \ {0} /\ Msecs \subseteq Nat
  /\ None \notin Ring /\ Torn \notin Nat

VARIABLES
  lock,       \* art_time_lock
  slot,       \* art_slot
  ring,       \* art_time_cache_slot: sec, msec, and the texts gmt and log
  current,    \* art_current_sec and art_current_msec
  cached,     \* art_cached_time, art_cached_time_log, art_cached_time_gmt
  ready,      \* art_time_pool_creat has returned
  pc,         \* each updater's next step
  now,        \* sec and msec of the update that runs
  view        \* each reader's pointer; ghost: what it showed then, and how
              \* many slots (Slots at most) were started since

vars == <<lock, slot, ring, current, cached, ready, pc, now, view>>

Texts == {"gmt", "log"}
Idle  == [ptr |-> None, seen |-> 0, lag |-> 0]

\* art_time_pool_creat up to its call of art_time_updata, by some thread
\* before the others run.
Init ==
  /\ lock = 0 /\ slot = 0 /\ ready = FALSE
  /\ ring = [i \in Ring |-> [sec |-> 0, msec |-> 0, gmt |-> 0, log |-> 0]]
  /\ current = [sec |-> 0, msec |-> 0] /\ now = [sec |-> 0, msec |-> 0]
  /\ cached = [time |-> None, log |-> None, gmt |-> None]
  /\ \E u \in Updaters :
       pc = [v \in Updaters |-> IF v = u THEN "trylock" ELSE "idle"]
  /\ view = [r \in Readers |-> Idle]

Step(u, from, to) == pc[u] = from /\ pc' = [pc EXCEPT ![u] = to]

-----------------------------------------------------------------------------
(* art_time_updata                                                         *)

Call(u) ==
  /\ ready /\ Step(u, "idle", "trylock")
  /\ UNCHANGED <<lock, slot, ring, current, cached, ready, now, view>>

\* The lock word not looked at (for the mutant runs).
TryBlind(u) ==
  /\ Step(u, "trylock", "clock") /\ lock' = 1
  /\ UNCHANGED <<slot, ring, current, cached, ready, now, view>>

\* art_trylock; who loses returns and leaves the update to the holder.
Try(u) ==
  /\ \/ lock = 0 /\ lock' = 1 /\ Step(u, "trylock", "clock")
     \/ lock = 1 /\ Step(u, "trylock", "idle") /\ UNCHANGED lock
  /\ UNCHANGED <<slot, ring, current, cached, ready, now, view>>

ReadClock(u) ==
  /\ Step(u, "clock", "sec")
  /\ \E s \in Secs, m \in Msecs : now' = [sec |-> s, msec |-> m]
  /\ UNCHANGED <<lock, slot, ring, current, cached, ready, view>>

StoreSec(u) ==
  /\ Step(u, "sec", "msec")
  /\ current' = [current EXCEPT !.sec = now.sec]
  /\ UNCHANGED <<lock, slot, ring, cached, ready, now, view>>

StoreMsec(u) ==
  /\ Step(u, "msec", IF ring[slot].sec = now.sec THEN "adjust" ELSE "advance")
  /\ current' = [current EXCEPT !.msec = now.msec]
  /\ UNCHANGED <<lock, slot, ring, cached, ready, now, view>>

\* The early return without the new msec (for the mutant runs).
AdjustNothing(u) ==
  /\ Step(u, "adjust", "unlock")
  /\ UNCHANGED <<lock, slot, ring, current, cached, ready, now, view>>

\* Within a second only the msec of the published slot changes.
Adjust(u) ==
  /\ Step(u, "adjust", "unlock")
  /\ ring' = [ring EXCEPT ![slot].msec = now.msec]
  /\ UNCHANGED <<lock, slot, current, cached, ready, now, view>>

\* Only the first two slots (for the mutant runs).
AfterShort(i) == IF i = 0 THEN 1 ELSE 0

After(i) == IF i >= Slots - 1 THEN 0 ELSE i + 1

Advance(u) ==
  /\ Step(u, "advance", "time")
  /\ slot' = After(slot)
  /\ view' = [r \in Readers |->
       IF view[r].ptr = None \/ view[r].lag = Slots THEN view[r]
       ELSE [view[r] EXCEPT !.lag = @ + 1]]
  /\ UNCHANGED <<lock, ring, current, cached, ready, now>>

FillTime(u) ==
  /\ Step(u, "time", "gmt")
  /\ ring' = [ring EXCEPT ![slot].sec = now.sec, ![slot].msec = now.msec]
  /\ UNCHANGED <<lock, slot, current, cached, ready, now, view>>

\* art_gmtime and art_fprintf, first for gmt_time_str, then for log_time_str.
BeginText(u, text) ==
  /\ pc[u] = text /\ ring[slot][text] # Torn
  /\ ring' = [ring EXCEPT ![slot][text] = Torn]
  /\ UNCHANGED <<lock, slot, current, cached, ready, pc, now, view>>

EndText(u, text) ==
  /\ ring[slot][text] = Torn
  /\ Step(u, text, IF text = "gmt" THEN "log" ELSE "cached_time")
  /\ ring' = [ring EXCEPT ![slot][text] = now.sec]
  /\ UNCHANGED <<lock, slot, current, cached, ready, now, view>>

\* The pointer left as it was (for the mutant runs).
PublishNothing(u, from, field, to) ==
  /\ Step(u, from, to)
  /\ UNCHANGED <<lock, slot, ring, current, cached, ready, now, view>>

Publish(u, from, field, to) ==
  /\ Step(u, from, to)
  /\ cached' = [cached EXCEPT ![field] = slot]
  /\ UNCHANGED <<lock, slot, ring, current, ready, now, view>>

PublishAll(u) ==
  \/ Publish(u, "cached_time", "time", "cached_log")
  \/ Publish(u, "cached_log", "log", "cached_gmt")
  \/ Publish(u, "cached_gmt", "gmt", "unlock")

\* The early return without art_unlock (for the mutant runs).
UnlockForgotten(u) ==
  /\ Step(u, "unlock", "idle") /\ ready' = TRUE
  /\ UNCHANGED <<lock, slot, ring, current, cached, now, view>>

\* The first update is the one art_time_pool_creat ends with.
Unlock(u) ==
  /\ Step(u, "unlock", "idle")
  /\ lock' = 0 /\ ready' = TRUE
  /\ UNCHANGED <<slot, ring, current, cached, now, view>>

-----------------------------------------------------------------------------
(* Readers: get_time_gmt_str, get_time_log_str and get_timeofday give out a *)
(* pointer into a slot, for use at any time afterwards.                     *)

Shown(i) == [sec |-> ring[i].sec, gmt |-> ring[i].gmt, log |-> ring[i].log]

Look(r) ==
  /\ ready /\ view[r] = Idle
  /\ \E field \in {"time", "log", "gmt"} :
       view' = [view EXCEPT ![r] =
         [ptr |-> cached[field], seen |-> Shown(cached[field]), lag |-> 0]]
  /\ UNCHANGED <<lock, slot, ring, current, cached, ready, pc, now>>

LookAway(r) ==
  /\ view[r] # Idle
  /\ view' = [view EXCEPT ![r] = Idle]
  /\ UNCHANGED <<lock, slot, ring, current, cached, ready, pc, now>>

-----------------------------------------------------------------------------

Update(u) ==
  \/ Try(u) \/ ReadClock(u) \/ StoreSec(u) \/ StoreMsec(u) \/ Adjust(u)
  \/ Advance(u) \/ FillTime(u)
  \/ \E text \in Texts : BeginText(u, text) \/ EndText(u, text)
  \/ PublishAll(u) \/ Unlock(u)

Next ==
  \/ \E u \in Updaters : Call(u) \/ Update(u)
  \/ \E r \in Readers : Look(r) \/ LookAway(r)

\* An updater that was called runs on: it waits for nobody.
Spec == Init /\ [][Next]_vars /\ \A u \in Updaters : WF_vars(Update(u))

-----------------------------------------------------------------------------
(* Properties *)

Filling == {"time", "gmt", "log"}
Publishing == {"cached_time", "cached_log", "cached_gmt"}
Running == {"clock", "sec", "msec", "adjust", "advance", "unlock"}
             \cup Filling \cup Publishing

TypeOK ==
  /\ lock \in {0, 1} /\ slot \in Ring /\ ready \in BOOLEAN
  /\ ring \in [Ring -> [sec : Secs \cup {0}, msec : Msecs \cup {0},
                        gmt : Secs \cup {0, Torn}, log : Secs \cup {0, Torn}]]
  /\ current \in [sec : Secs \cup {0}, msec : Msecs \cup {0}]
  /\ now \in [sec : Secs \cup {0}, msec : Msecs \cup {0}]
  /\ cached \in [time : Ring \cup {None}, log : Ring \cup {None}, gmt : Ring \cup {None}]
  /\ pc \in [Updaters -> {"idle", "trylock"} \cup Running]
  /\ \A r \in Readers : view[r].ptr \in Ring \cup {None} /\ view[r].lag \in 0..Slots

\* One update at a time, though nobody ever waits for the lock.
OneUpdate ==
  \A u, v \in Updaters : {pc[u], pc[v]} \subseteq Running => u = v

\* Whenever no update runs, all that the module publishes tells the same
\* time: the three pointers, the slot with its texts, and the two globals.
InStep ==
  ready /\ lock = 0 =>
    /\ cached = [time |-> slot, log |-> slot, gmt |-> slot]
    /\ ring[slot] = [sec |-> current.sec, msec |-> current.msec,
                     gmt |-> current.sec, log |-> current.sec]

\* What a pointer shows stays the same until the ring comes round to it: a
\* reader has the time of Slots - 1 further seconds to use a text, even if it
\* took it while an update was under way.
SteadyUntilLapped ==
  \A r \in Readers :
    view[r].ptr # None /\ view[r].lag < Slots - 1 =>
      /\ Shown(view[r].ptr) = view[r].seen
      /\ view[r].seen = [sec |-> view[r].seen.sec, gmt |-> view[r].seen.sec,
                         log |-> view[r].seen.sec]

\* The three pointers are published one by one, so a reader that uses two of
\* them may mix two times, but only the newest and the one before it.
OneSlotApart ==
  ready => /\ {cached.time, cached.log, cached.gmt} \subseteq
                {slot} \cup {i \in Ring : After(i) = slot}
           /\ (\E u \in Updaters : pc[u] \in Filling) =>
                slot \notin {cached.time, cached.log, cached.gmt}

\* Whoever takes the lock gives it back, on the early return too; otherwise
\* every later call would give up and the time would stand still.
LockFreed == lock = 1 ~> lock = 0

=============================================================================
