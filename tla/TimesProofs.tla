----------------------------- MODULE TimesProofs -----------------------------
(***************************************************************************)
(* The time cache for any number of updaters, readers and slots, and any   *)
(* clock: one update at a time, what is published agrees, and a reader has *)
(* a turn of the ring.  Then the calendar: art_gmtime on every day that an *)
(* art_u32_t counts, however wide that is.                                 *)
(***************************************************************************)
EXTENDS TimeCache, Gmtime, TLAPS

Fields == {"time", "log", "gmt"}

Views == [ptr : Ring,
          seen : [sec : Secs \cup {0}, gmt : Secs \cup {0, Torn}, log : Secs \cup {0, Torn}],
          lag : 0..Slots] \cup {Idle}

Typed == TypeOK /\ view \in [Readers -> Views]

\* The lock word is 1 exactly while some one updater runs.
Owned ==
  /\ lock = 0 => \A u \in Updaters : pc[u] \notin Running
  /\ lock = 1 => \E u \in Updaters : pc[u] \in Running
  /\ OneUpdate

\* A slot whose two texts show its second.
Whole(i) == ring[i].gmt = ring[i].sec /\ ring[i].log = ring[i].sec

\* Every pointer is at the current slot, which is complete.
Settled == (\A f \in Fields : cached[f] = slot) /\ Whole(slot)

\* The pointers fs are at the slot before the current one, which is complete.
Behind(fs) ==
  ready => \E p \in Ring : /\ After(p) = slot /\ Whole(p)
                           /\ \A f \in fs : cached[f] = p

Before  == {"clock", "sec", "msec", "adjust", "advance"}
Started == {"gmt", "log", "unlock"} \cup Publishing

\* What an update has done when it is at pc[u].  Before the first update is
\* over the ring is blank, so that this update never adjusts.
Progress(u) ==
  /\ pc[u] \in Before => IF ready THEN Settled ELSE ring[slot].sec = 0
  /\ pc[u] \in Running \ {"clock"} => now.sec \in Secs
  /\ pc[u] \in Running \ {"clock", "sec"} => current.sec = now.sec
  /\ pc[u] \in Running \ {"clock", "sec", "msec"} => current.msec = now.msec
  /\ pc[u] = "adjust" => ring[slot].sec = now.sec
  /\ pc[u] \in Filling \cup {"cached_time"} => Behind(Fields)
  /\ pc[u] \in Started => ring[slot].sec = now.sec /\ ring[slot].msec = now.msec
  /\ pc[u] \in Started \ {"gmt"} => ring[slot].gmt = now.sec
  /\ pc[u] \in Started \ {"gmt", "log"} => ring[slot].log = now.sec
  /\ pc[u] = "cached_log" => cached.time = slot /\ Behind({"log", "gmt"})
  /\ pc[u] = "cached_gmt" => cached.time = slot /\ cached.log = slot /\ Behind({"gmt"})
  /\ pc[u] = "unlock" => \A f \in Fields : cached[f] = slot

\* What is published while no update runs.
Rest ==
  lock = 0 =>
    IF ready THEN /\ Settled /\ ring[slot].sec = current.sec
                  /\ ring[slot].msec = current.msec
    ELSE ring[slot].sec = 0

\* The current slot is d slots after slot p.
Ahead(p, d) == slot = p + d \/ slot + Slots = p + d

\* A pointer that was taken lag slots ago is lag or lag + 1 slots old, and
\* until that is a turn of the ring it is not the slot that is being filled.
Safe(r) ==
  view[r].ptr # None /\ view[r].lag < Slots - 1 =>
    /\ Shown(view[r].ptr) = view[r].seen /\ Whole(view[r].ptr)
    /\ Ahead(view[r].ptr, view[r].lag) \/ Ahead(view[r].ptr, view[r].lag + 1)
    /\ (\E u \in Updaters : pc[u] \in Filling) => view[r].ptr # slot

IInv ==
  /\ Typed /\ Owned /\ Rest
  /\ \A u \in Updaters : Progress(u)
  /\ \A r \in Readers : Safe(r)

-----------------------------------------------------------------------------
(* Types *)

\* The next slot is another one of the ring.
LEMMA AfterInRing ==
  ASSUME NEW i \in Ring
  PROVE  After(i) \in Ring /\ After(i) # i
BY TimeCacheAssumption DEF Ring, After

\* The two marks are no slot and no second.
LEMMA Fresh == None \notin Ring /\ 0 \in Ring /\ Torn \notin Secs \cup {0}
<1>1. None \notin Ring
  BY TimeCacheAssumption
<1>2. 0 \in Ring
  BY TimeCacheAssumption DEF Ring
<1>3. Torn \notin Secs \cup {0}
  BY TimeCacheAssumption, 0 \in Nat, Zenon
<1>. QED BY <1>1, <1>2, <1>3

\* What Typed says of the records, for the steps below.
LEMMA Types ==
  ASSUME Typed
  PROVE  /\ slot \in Ring /\ now.sec \in Secs \cup {0} /\ now.msec \in Msecs \cup {0}
         /\ \A i \in Ring : /\ ring[i].sec \in Secs \cup {0}
                            /\ ring[i].gmt \in Secs \cup {0, Torn}
                            /\ ring[i].log \in Secs \cup {0, Torn}
         /\ \A f \in Fields : cached[f] \in Ring \cup {None}
         /\ \A r \in Readers : view[r] # Idle => view[r].ptr \in Ring
BY DEF Typed, TypeOK, Fields, Views

\* The blank ring is of these types.
LEMMA TypedInit == Init => Typed
<1>1. SUFFICES ASSUME Init PROVE Typed
  OBVIOUS
<1>2. PICK u \in Updaters : pc = [v \in Updaters |-> IF v = u THEN "trylock" ELSE "idle"]
  BY <1>1 DEF Init
<1>3. view \in [Readers -> Views] /\ 0 \in 0..Slots
  BY <1>1, TimeCacheAssumption DEF Init, Views
<1>4. \A r \in Readers : view[r].ptr \in Ring \cup {None} /\ view[r].lag \in 0..Slots
  BY <1>1, <1>3 DEF Init, Idle
<1>5. cached \in [time : Ring \cup {None}, log : Ring \cup {None}, gmt : Ring \cup {None}]
  BY <1>1 DEF Init
<1>6. ring \in [Ring -> [sec : Secs \cup {0}, msec : Msecs \cup {0},
                        gmt : Secs \cup {0, Torn}, log : Secs \cup {0, Torn}]]
  BY <1>1 DEF Init
<1>. QED BY <1>1, <1>2, <1>3, <1>4, <1>5, <1>6, Fresh DEF Init, Typed, TypeOK

\* A reader finds a slot behind each pointer once the first update is over;
\* every other step keeps the types by itself.
LEMMA TypedStep ==
  ASSUME Typed, [Next]_vars, ready => \A f \in Fields : cached[f] \in Ring
  PROVE  Typed'
<1>1. Typed /\ [Next]_vars
  OBVIOUS
<1>. USE DEF Typed
<1>2. CASE UNCHANGED vars
  BY <1>1, <1>2 DEF vars, TypeOK
<1>3. ASSUME NEW u \in Updaters, Call(u) \/ Try(u) \/ Unlock(u) PROVE Typed'
  BY <1>1, <1>3 DEF Call, Try, Unlock, Step, TypeOK, Running, Filling, Publishing
<1>4. ASSUME NEW u \in Updaters, ReadClock(u) PROVE Typed'
  BY <1>1, <1>4 DEF ReadClock, Step, TypeOK, Running, Filling, Publishing
<1>5. ASSUME NEW u \in Updaters, StoreSec(u) \/ StoreMsec(u) PROVE Typed'
  BY <1>1, <1>5 DEF StoreSec, StoreMsec, Step, TypeOK, Running, Filling, Publishing
<1>6. ASSUME NEW u \in Updaters, Adjust(u) \/ FillTime(u) PROVE Typed'
  BY <1>1, <1>6 DEF Adjust, FillTime, Step, TypeOK, Running, Filling, Publishing
<1>7. ASSUME NEW u \in Updaters, Advance(u) PROVE Typed'
  <2>1. slot' \in Ring
    BY <1>1, <1>7, AfterInRing DEF Advance, TypeOK
  <2>2. ASSUME NEW r \in Readers
        PROVE  view'[r] \in Views /\ view'[r].ptr = view[r].ptr /\ view'[r].lag \in 0..Slots
    <3>1. view[r] \in Views /\ (view[r].ptr = None => view[r] = Idle) /\ view[r].lag \in 0..Slots
      BY <1>1, <2>2, Fresh DEF Views, TypeOK
    <3>2. CASE view[r].ptr = None \/ view[r].lag = Slots
      BY <1>7, <2>2, <3>1, <3>2 DEF Advance
    <3>3. CASE view[r].ptr # None /\ view[r].lag # Slots
      <4>1. view'[r] = [view[r] EXCEPT !.lag = view[r].lag + 1]
        BY <1>7, <2>2, <3>3 DEF Advance
      <4>2. view[r].lag + 1 \in 0..Slots
        BY <3>1, <3>3, TimeCacheAssumption
      <4>3. view[r] # Idle
        BY <3>3 DEF Idle
      <4>. QED BY <3>1, <4>1, <4>2, <4>3 DEF Views
    <3>. QED BY <3>2, <3>3
  <2>3. DOMAIN view' = Readers /\ view' = [r \in Readers |-> view'[r]]
    BY <1>7 DEF Advance
  <2>4. view' \in [Readers -> Views]
    BY <2>2, <2>3
  <2>. QED BY <1>1, <1>7, <2>1, <2>2, <2>4
           DEF Advance, Step, TypeOK, Running, Filling, Publishing
<1>8. ASSUME NEW u \in Updaters, NEW text \in Texts, BeginText(u, text) \/ EndText(u, text)
      PROVE  Typed'
  <2>1. CASE text = "gmt"
    BY <1>1, <1>8, <2>1 DEF BeginText, EndText, Step, TypeOK, Running, Filling, Publishing
  <2>2. CASE text = "log"
    BY <1>1, <1>8, <2>2 DEF BeginText, EndText, Step, TypeOK, Running, Filling, Publishing
  <2>. QED BY <2>1, <2>2 DEF Texts
<1>9. ASSUME NEW u \in Updaters, PublishAll(u) PROVE Typed'
  BY <1>1, <1>9 DEF PublishAll, Publish, Step, TypeOK, Running, Filling, Publishing
<1>10. ASSUME NEW r \in Readers, Look(r) PROVE Typed'
  <2>1. PICK field \in Fields :
          view' = [view EXCEPT ![r] = [ptr |-> cached[field], seen |-> Shown(cached[field]), lag |-> 0]]
    BY <1>10 DEF Look, Fields
  <2>2. cached[field] \in Ring /\ 0 \in 0..Slots
    BY <1>10, TimeCacheAssumption DEF Look
  <2>3. [ptr |-> cached[field], seen |-> Shown(cached[field]), lag |-> 0] \in Views
    BY <1>1, <2>2, Types DEF Shown, Views
  <2>. QED BY <1>1, <1>10, <2>1, <2>2, <2>3 DEF Look, TypeOK
<1>11. ASSUME NEW r \in Readers, LookAway(r) PROVE Typed'
  BY <1>1, <1>11, TimeCacheAssumption DEF LookAway, TypeOK, Views, Idle
<1>. QED BY <1>1, <1>2, <1>3, <1>4, <1>5, <1>6, <1>7, <1>8, <1>9, <1>10, <1>11
         DEF Next, Update

-----------------------------------------------------------------------------
(* What several kinds of steps have in common *)

\* Where the pointers are: at the current slot or the one before it, whose
\* texts are complete, and at the latter while the current one is filled.
LEMMA Published ==
  ASSUME IInv, ready, NEW f \in Fields
  PROVE  /\ cached[f] \in Ring /\ Whole(cached[f])
         /\ cached[f] = slot \/ After(cached[f]) = slot
         /\ (\E u \in Updaters : pc[u] \in Filling) => After(cached[f]) = slot
<1>1. slot \in Ring /\ lock \in {0, 1}
  BY DEF IInv, Typed, TypeOK
<1>2. CASE lock = 0
  BY <1>1, <1>2 DEF IInv, Owned, Rest, Settled, Running
<1>3. CASE lock = 1
  <2>1. PICK u \in Updaters : pc[u] \in Running
    BY <1>3 DEF IInv, Owned
  <2>2. \A v \in Updaters : pc[v] \in Filling => v = u
    BY <2>1 DEF IInv, Owned, OneUpdate, Running
  <2>3. Progress(u)
    BY DEF IInv
  <2>4. CASE pc[u] \in Before
    BY <1>1, <2>2, <2>3, <2>4 DEF Progress, Settled, Before, Filling
  <2>5. CASE pc[u] \in Filling \cup {"cached_time"}
    BY <2>3, <2>5 DEF Progress, Behind
  <2>6. CASE pc[u] \in {"cached_log", "cached_gmt", "unlock"}
    <3>1. Whole(slot) /\ \A v \in Updaters : pc[v] \notin Filling
      BY <2>2, <2>3, <2>6 DEF Progress, Started, Publishing, Whole, Filling
    <3>2. cached[f] = slot \/ Behind({f})
      BY <2>3, <2>6 DEF Progress, Behind, Fields
    <3>. QED BY <1>1, <3>1, <3>2 DEF Behind
  <2>. QED BY <2>1, <2>4, <2>5, <2>6 DEF Running, Before, Filling, Publishing
<1>. QED BY <1>1, <1>2, <1>3

\* A step within an update leaves the other updaters where they are.
LEMMA WithinUpdate ==
  ASSUME IInv, NEW u \in Updaters, pc[u] \in Running, NEW to \in Running,
         pc' = [pc EXCEPT ![u] = to], lock' = lock
  PROVE  Owned' /\ Rest' /\ \A v \in Updaters \ {u} : Progress(v)'
<1>1. lock = 1 /\ pc \in [Updaters -> {"idle", "trylock"} \cup Running]
  BY DEF IInv, Owned, Typed, TypeOK
<1>2. \A v \in Updaters \ {u} : pc'[v] = pc[v] /\ pc[v] \notin Running
  BY <1>1 DEF IInv, Owned, OneUpdate
<1>3. pc'[u] = to
  BY <1>1
<1>4. ASSUME NEW v \in Updaters \ {u} PROVE Progress(v)'
  BY <1>2, <1>4 DEF Progress, Before, Started, Running, Filling, Publishing
<1>. QED BY <1>1, <1>2, <1>3, <1>4 DEF Owned, OneUpdate, Rest

\* A step that writes no slot, starts none and moves no reader's pointer.
LEMMA SafeKept ==
  ASSUME IInv, UNCHANGED <<ring, slot, view>>, NEW r \in Readers,
         \A u \in Updaters : pc'[u] \in Filling => pc[u] \in Filling
  PROVE  Safe(r)'
BY DEF IInv, Safe, Shown, Whole, Ahead

\* A step that writes the current slot alone, while it is being filled.
LEMMA SafeFilling ==
  ASSUME IInv, NEW u \in Updaters, pc[u] \in Filling, NEW r \in Readers,
         UNCHANGED <<slot, view>>, \A i \in Ring \ {slot} : ring'[i] = ring[i]
  PROVE  Safe(r)'
<1>1. view[r].ptr \in Ring \cup {None}
  BY DEF IInv, Typed, TypeOK
<1>. QED BY <1>1 DEF IInv, Safe, Shown, Whole, Ahead

-----------------------------------------------------------------------------
(* The invariant *)

\* The ring that art_time_pool_creat starts from is blank and unlocked.
LEMMA InvInit == Init => IInv
<1>1. SUFFICES ASSUME Init PROVE IInv
  OBVIOUS
<1>2. Typed
  BY <1>1, TypedInit
<1>3. \A u \in Updaters : pc[u] \in {"idle", "trylock"}
  BY <1>1 DEF Init
<1>4. ring[slot].sec = 0 /\ ~ready /\ lock = 0 /\ \A r \in Readers : view[r].ptr = None
  BY <1>1, Fresh DEF Init, Idle
<1>. QED BY <1>2, <1>3, <1>4
         DEF IInv, Owned, OneUpdate, Rest, Progress, Safe, Running, Before, Started,
             Filling, Publishing

\* art_trylock: who wins starts from what the last update left.
LEMMA InvTry ==
  ASSUME IInv, Typed', NEW u \in Updaters, Call(u) \/ Try(u)
  PROVE  IInv'
<1>1. pc \in [Updaters -> {"idle", "trylock"} \cup Running] /\ lock \in {0, 1}
  BY DEF IInv, Typed, TypeOK
<1>2. UNCHANGED <<slot, ring, current, cached, ready, now, view>>
  BY DEF Call, Try
<1>3. ASSUME NEW r \in Readers PROVE Safe(r)'
  BY <1>1, <1>2, <1>3, SafeKept DEF Call, Try, Step, Filling
<1>4. CASE lock' = lock /\ \E to \in {"idle", "trylock"} :
             pc[u] \notin Running /\ pc' = [pc EXCEPT ![u] = to]
  <2>1. \A v \in Updaters : pc'[v] = pc[v] \/ (pc'[v] \notin Running /\ pc[v] \notin Running)
    BY <1>1, <1>4 DEF Running, Filling, Publishing
  <2>2. Owned' /\ Rest'
    BY <1>1, <1>2, <1>4, <2>1 DEF IInv, Owned, OneUpdate, Rest, Settled, Whole
  <2>3. ASSUME NEW v \in Updaters PROVE Progress(v)'
    <3>1. CASE pc'[v] = pc[v]
      BY <1>2, <2>3, <3>1 DEF IInv, Progress, Settled, Behind, Whole
    <3>2. CASE pc'[v] \notin Running
      BY <3>2 DEF Progress, Before, Started, Running, Filling, Publishing
    <3>. QED BY <2>1, <2>3, <3>1, <3>2
  <2>. QED BY <1>3, <2>2, <2>3 DEF IInv
<1>5. CASE lock = 0 /\ lock' = 1 /\ Step(u, "trylock", "clock")
  <2>1. \A v \in Updaters : pc[v] \notin Running
    BY <1>5 DEF IInv, Owned
  <2>2. pc'[u] = "clock" /\ \A v \in Updaters \ {u} : pc'[v] \notin Running
    BY <1>1, <1>5, <2>1 DEF Step
  <2>3. Owned' /\ Rest'
    BY <1>5, <2>2 DEF Owned, OneUpdate, Rest, Running
  <2>4. Progress(u)'
    <3>1. IF ready THEN Settled ELSE ring[slot].sec = 0
      BY <1>5 DEF IInv, Rest
    <3>. QED BY <1>2, <2>2, <3>1
             DEF Progress, Settled, Whole, Before, Started, Running, Filling, Publishing
  <2>5. \A v \in Updaters \ {u} : Progress(v)'
    BY <2>2 DEF Progress, Before, Started, Running, Filling, Publishing
  <2>. QED BY <1>3, <2>3, <2>4, <2>5 DEF IInv
<1>. QED BY <1>4, <1>5 DEF Call, Try, Step, Running, Filling, Publishing

\* The clock and the two globals.
LEMMA InvGlobals ==
  ASSUME IInv, Typed', NEW u \in Updaters, ReadClock(u) \/ StoreSec(u) \/ StoreMsec(u)
  PROVE  IInv'
<1>1. pc \in [Updaters -> {"idle", "trylock"} \cup Running]
  BY DEF IInv, Typed, TypeOK
<1>2. UNCHANGED <<slot, ring, cached, ready, view>> /\ lock' = lock
  BY DEF ReadClock, StoreSec, StoreMsec
<1>3. PICK to \in {"sec", "msec", "adjust", "advance"} :
        /\ pc[u] \in {"clock", "sec", "msec"} /\ pc' = [pc EXCEPT ![u] = to]
  BY DEF ReadClock, StoreSec, StoreMsec, Step
<1>4. pc[u] \in Running /\ to \in Running /\ pc'[u] = to
  BY <1>1, <1>3 DEF Running
<1>5. Owned' /\ Rest' /\ \A v \in Updaters \ {u} : Progress(v)'
  BY <1>2, <1>3, <1>4, WithinUpdate
<1>6. ASSUME NEW r \in Readers PROVE Safe(r)'
  BY <1>1, <1>2, <1>3, <1>6, SafeKept DEF Filling
<1>7. (IF ready THEN Settled ELSE ring[slot].sec = 0)'
  BY <1>2, <1>3 DEF IInv, Progress, Before, Settled, Whole
<1>8. Progress(u)
  BY DEF IInv
<1>9. current \in [sec : Secs \cup {0}, msec : Msecs \cup {0}]
  BY DEF IInv, Typed, TypeOK
<1>10. CASE ReadClock(u)
  <2>1. now'.sec \in Secs /\ pc'[u] = "sec"
    BY <1>1, <1>10 DEF ReadClock, Step
  <2>. QED BY <1>5, <1>6, <1>7, <2>1
           DEF IInv, Progress, Before, Started, Running, Filling, Publishing
<1>11. CASE StoreSec(u)
  <2>1. pc'[u] = "msec" /\ now' = now /\ current'.sec = now.sec /\ now.sec \in Secs
    BY <1>1, <1>8, <1>9, <1>11 DEF StoreSec, Step, Progress, Running
  <2>. QED BY <1>5, <1>6, <1>7, <2>1
           DEF IInv, Progress, Before, Started, Running, Filling, Publishing
<1>12. CASE StoreMsec(u)
  <2>1. /\ pc'[u] = IF ring[slot].sec = now.sec THEN "adjust" ELSE "advance"
        /\ now' = now /\ current'.msec = now.msec
        /\ current'.sec = now.sec /\ now.sec \in Secs
    BY <1>1, <1>8, <1>9, <1>12 DEF StoreMsec, Step, Progress, Running
  <2>. QED BY <1>2, <1>5, <1>6, <1>7, <2>1
           DEF IInv, Progress, Before, Started, Running, Filling, Publishing
<1>. QED BY <1>10, <1>11, <1>12

\* Within a second: the first update does not get here, since it finds second 0.
LEMMA InvAdjust ==
  ASSUME IInv, Typed', NEW u \in Updaters, Adjust(u)
  PROVE  IInv'
<1>1. /\ pc \in [Updaters -> {"idle", "trylock"} \cup Running] /\ slot \in Ring
      /\ ring \in [Ring -> [sec : Secs \cup {0}, msec : Msecs \cup {0},
                          gmt : Secs \cup {0, Torn}, log : Secs \cup {0, Torn}]]
  BY DEF IInv, Typed, TypeOK
<1>2. /\ pc[u] = "adjust" /\ pc' = [pc EXCEPT ![u] = "unlock"]
      /\ UNCHANGED <<lock, slot, current, cached, ready, now, view>>
      /\ ring' = [ring EXCEPT ![slot] = [ring[slot] EXCEPT !.msec = now.msec]]
  BY DEF Adjust, Step
<1>3. pc'[u] = "unlock" /\ "unlock" \in Running /\ pc[u] \in Running
  BY <1>1, <1>2 DEF Running
<1>4. Owned' /\ Rest' /\ \A v \in Updaters \ {u} : Progress(v)'
  BY <1>2, <1>3, WithinUpdate
<1>5. /\ ring'[slot].msec = now.msec
      /\ \A i \in Ring : /\ ring'[i].sec = ring[i].sec /\ ring'[i].gmt = ring[i].gmt
                         /\ ring'[i].log = ring[i].log
  BY <1>1, <1>2
<1>6. ASSUME NEW r \in Readers PROVE Safe(r)'
  <2>1. view[r].ptr \in Ring \cup {None} /\ \A v \in Updaters : pc'[v] \in Filling => pc[v] \in Filling
    BY <1>1, <1>2, <1>6 DEF IInv, Typed, TypeOK, Filling
  <2>. QED BY <1>2, <1>5, <1>6, <2>1 DEF IInv, Safe, Shown, Whole, Ahead
<1>7. /\ now.sec \in Secs /\ current.sec = now.sec /\ current.msec = now.msec
      /\ ring[slot].sec = now.sec /\ IF ready THEN Settled ELSE ring[slot].sec = 0
  BY <1>2 DEF IInv, Progress, Before, Running
<1>8. Settled
  BY <1>7, TimeCacheAssumption
<1>9. Progress(u)'
  BY <1>1, <1>2, <1>3, <1>5, <1>7, <1>8
  DEF Progress, Settled, Whole, Before, Started, Running, Filling, Publishing
<1>. QED BY <1>4, <1>6, <1>9 DEF IInv

\* A pointer d or d + 1 slots old that gets one older is still short of a turn.
LEMMA OneMore ==
  ASSUME NEW p \in Ring, NEW d \in Nat, d + 1 < Slots - 1,
         slot \in Ring, slot' = After(slot), Ahead(p, d) \/ Ahead(p, d + 1)
  PROVE  /\ slot' # p
         /\ Ahead(p, d + 1)' \/ Ahead(p, d + 1 + 1)'
BY TimeCacheAssumption DEF Ring, After, Ahead

\* A new slot: the pointers are now behind, and each reader's is one more.
LEMMA InvAdvance ==
  ASSUME IInv, Typed', NEW u \in Updaters, Advance(u)
  PROVE  IInv'
<1>1. /\ pc \in [Updaters -> {"idle", "trylock"} \cup Running] /\ slot \in Ring
      /\ slot' \in Ring
  BY DEF IInv, Typed, TypeOK
<1>2. /\ pc[u] = "advance" /\ pc' = [pc EXCEPT ![u] = "time"] /\ slot' = After(slot)
      /\ UNCHANGED <<lock, ring, current, cached, ready, now>>
  BY DEF Advance, Step
<1>3. pc'[u] = "time" /\ "time" \in Running /\ pc[u] \in Running
  BY <1>1, <1>2 DEF Running, Filling
<1>4. Owned' /\ Rest' /\ \A v \in Updaters \ {u} : Progress(v)'
  BY <1>2, <1>3, WithinUpdate
<1>5. Progress(u)'
  <2>1. /\ now.sec \in Secs /\ current.sec = now.sec /\ current.msec = now.msec
        /\ ready => Settled
    BY <1>2 DEF IInv, Progress, Before, Running
  <2>2. Behind(Fields)'
    BY <1>1, <1>2, <2>1 DEF Behind, Settled, Whole, After
  <2>. QED BY <1>2, <1>3, <2>1, <2>2
           DEF Progress, Before, Started, Running, Filling, Publishing
<1>6. ASSUME NEW r \in Readers, (view[r].ptr # None /\ view[r].lag < Slots - 1)'
      PROVE  /\ (Shown(view[r].ptr) = view[r].seen /\ Whole(view[r].ptr))'
             /\ (view[r].ptr # slot)'
             /\ (Ahead(view[r].ptr, view[r].lag) \/ Ahead(view[r].ptr, view[r].lag + 1))'
  <2>1. view[r] \in Views /\ (view[r].ptr = None => view[r] = Idle)
    BY <1>6, Fresh DEF IInv, Typed, Views
  <2>2. view[r].ptr # None /\ view[r].lag # Slots
    <3>1. CASE view[r].ptr = None
      BY <1>6, <3>1 DEF Advance
    <3>2. CASE view[r].lag = Slots
      BY <1>6, <3>2, TimeCacheAssumption DEF Advance
    <3>. QED BY <3>1, <3>2
  <2>3. view'[r] = [view[r] EXCEPT !.lag = view[r].lag + 1]
    BY <1>6, <2>2 DEF Advance
  <2>4. view[r] # Idle
    BY <2>2 DEF Idle
  <2>5. /\ view'[r].ptr = view[r].ptr /\ view'[r].seen = view[r].seen
        /\ view'[r].lag = view[r].lag + 1
        /\ view[r].ptr \in Ring /\ view[r].lag \in 0..Slots
    BY <2>1, <2>3, <2>4 DEF Views
  <2>6. view[r].lag \in Nat /\ view[r].lag + 1 < Slots - 1 /\ view[r].lag < Slots - 1
    BY <1>6, <2>5, TimeCacheAssumption
  <2>7. /\ Shown(view[r].ptr) = view[r].seen /\ Whole(view[r].ptr)
        /\ Ahead(view[r].ptr, view[r].lag) \/ Ahead(view[r].ptr, view[r].lag + 1)
    BY <1>6, <2>2, <2>6 DEF IInv, Safe
  <2>8. (Shown(view[r].ptr) = view[r].seen /\ Whole(view[r].ptr))'
    BY <1>2, <2>5, <2>7 DEF Shown, Whole
  <2>9. ASSUME NEW p \in Ring, NEW d \in Nat, p = view[r].ptr, d = view[r].lag
        PROVE  /\ slot' # p
               /\ Ahead(p, d + 1)' \/ Ahead(p, d + 1 + 1)'
    BY <1>1, <1>2, <2>6, <2>7, <2>9, OneMore
  <2>. QED BY <2>5, <2>6, <2>8, <2>9 DEF Ahead
<1>7. \A r \in Readers : Safe(r)'
  BY <1>6 DEF Safe
<1>. QED BY <1>4, <1>5, <1>7 DEF IInv

\* The stores to the slot that nobody was given.
LEMMA InvFill ==
  ASSUME IInv, Typed', NEW u \in Updaters,
         FillTime(u) \/ \E text \in Texts : BeginText(u, text) \/ EndText(u, text)
  PROVE  IInv'
<1>1. /\ pc \in [Updaters -> {"idle", "trylock"} \cup Running] /\ slot \in Ring
      /\ ring \in [Ring -> [sec : Secs \cup {0}, msec : Msecs \cup {0},
                          gmt : Secs \cup {0, Torn}, log : Secs \cup {0, Torn}]]
  BY DEF IInv, Typed, TypeOK
<1>2. /\ pc[u] \in Filling
      /\ \E to \in Filling \cup {"cached_time"} : pc' = [pc EXCEPT ![u] = to]
      /\ UNCHANGED <<lock, slot, current, cached, ready, now, view>>
      /\ \A i \in Ring \ {slot} : ring'[i] = ring[i]
  <2>1. CASE FillTime(u)
    BY <1>1, <2>1 DEF FillTime, Step, Filling
  <2>2. CASE \E text \in Texts : BeginText(u, text)
    <3>1. pc' = [pc EXCEPT ![u] = pc[u]] /\ pc[u] \in {"gmt", "log"}
      BY <1>1, <2>2 DEF BeginText, Texts
    <3>. QED BY <1>1, <2>2, <3>1 DEF BeginText, Filling
  <2>3. CASE \E text \in Texts : EndText(u, text)
    BY <1>1, <2>3 DEF EndText, Texts, Step, Filling
  <2>. QED BY <2>1, <2>2, <2>3
<1>3. PICK to \in Filling \cup {"cached_time"} : pc' = [pc EXCEPT ![u] = to]
  BY <1>2
<1>4. pc[u] \in Running /\ to \in Running /\ pc'[u] = to
  BY <1>1, <1>2, <1>3 DEF Running, Publishing
<1>5. Owned' /\ Rest' /\ \A v \in Updaters \ {u} : Progress(v)'
  BY <1>2, <1>3, <1>4, WithinUpdate
<1>6. \A r \in Readers : Safe(r)'
  BY <1>2, SafeFilling
<1>7. Progress(u)
  BY DEF IInv
<1>8. /\ Behind(Fields)' /\ now'.sec \in Secs
      /\ current'.sec = now'.sec /\ current'.msec = now'.msec
  <2>1. /\ Behind(Fields) /\ now.sec \in Secs
        /\ current.sec = now.sec /\ current.msec = now.msec
    BY <1>2, <1>4, <1>7 DEF Progress, Filling
  <2>2. ASSUME NEW p \in Ring, After(p) = slot, Whole(p) PROVE Whole(p)' /\ After(p) = slot'
    BY <1>2, <2>2, AfterInRing DEF Whole
  <2>. QED BY <1>2, <2>1, <2>2 DEF Behind
<1>9. Progress(u)'
  <2>1. CASE FillTime(u)
    <3>1. ring'[slot'].sec = now'.sec /\ ring'[slot'].msec = now'.msec /\ pc'[u] = "gmt"
      BY <1>1, <2>1 DEF FillTime, Step
    <3>. QED BY <1>8, <3>1 DEF Progress, Before, Started, Running, Filling, Publishing
  <2>2. ASSUME NEW text \in Texts, BeginText(u, text) PROVE Progress(u)'
    <3>1. /\ pc'[u] = text /\ text \in {"gmt", "log"} /\ pc[u] = text
          /\ ring[slot].sec = now.sec /\ ring[slot].msec = now.msec
          /\ text = "log" => ring[slot].gmt = now.sec
      BY <1>7, <2>2 DEF BeginText, Texts, Progress, Started
    <3>2. /\ ring'[slot'].sec = now'.sec /\ ring'[slot'].msec = now'.msec
          /\ text = "log" => ring'[slot'].gmt = now'.sec
      BY <1>1, <2>2, <3>1 DEF BeginText
    <3>. QED BY <1>8, <3>1, <3>2 DEF Progress, Before, Started, Running, Filling, Publishing
  <2>3. ASSUME NEW text \in Texts, EndText(u, text) PROVE Progress(u)'
    <3>1. /\ text \in {"gmt", "log"} /\ pc[u] = text
          /\ pc'[u] = IF text = "gmt" THEN "log" ELSE "cached_time"
          /\ ring[slot].sec = now.sec /\ ring[slot].msec = now.msec
          /\ text = "log" => ring[slot].gmt = now.sec
      BY <1>1, <1>7, <2>3 DEF EndText, Step, Texts, Progress, Started
    <3>2. /\ ring'[slot'].sec = now'.sec /\ ring'[slot'].msec = now'.msec
          /\ ring'[slot'].gmt = now'.sec
          /\ text = "log" => ring'[slot'].log = now'.sec
      BY <1>1, <2>3, <3>1 DEF EndText
    <3>. QED BY <1>8, <3>1, <3>2 DEF Progress, Before, Started, Running, Filling, Publishing
  <2>. QED BY <2>1, <2>2, <2>3
<1>. QED BY <1>5, <1>6, <1>9 DEF IInv

\* The three pointers move on one by one, once the slot is complete.
LEMMA InvPublish ==
  ASSUME IInv, Typed', NEW u \in Updaters, PublishAll(u)
  PROVE  IInv'
<1>1. /\ pc \in [Updaters -> {"idle", "trylock"} \cup Running] /\ slot \in Ring
      /\ cached \in [time : Ring \cup {None}, log : Ring \cup {None}, gmt : Ring \cup {None}]
  BY DEF IInv, Typed, TypeOK
<1>2. /\ pc[u] \in Publishing
      /\ \E to \in {"cached_log", "cached_gmt", "unlock"} : pc' = [pc EXCEPT ![u] = to]
      /\ UNCHANGED <<lock, slot, ring, current, ready, now, view>>
  BY DEF PublishAll, Publish, Step, Publishing
<1>3. PICK to \in {"cached_log", "cached_gmt", "unlock"} : pc' = [pc EXCEPT ![u] = to]
  BY <1>2
<1>4. pc[u] \in Running /\ to \in Running /\ pc'[u] = to
  BY <1>1, <1>2, <1>3 DEF Running, Publishing
<1>5. Owned' /\ Rest' /\ \A v \in Updaters \ {u} : Progress(v)'
  BY <1>2, <1>3, <1>4, WithinUpdate
<1>6. ASSUME NEW r \in Readers PROVE Safe(r)'
  BY <1>1, <1>2, <1>3, <1>6, SafeKept DEF Filling
<1>7. Progress(u)
  BY DEF IInv
<1>8. /\ ring'[slot'] = ring[slot] /\ now' = now /\ current' = current
      /\ ring[slot].sec = now.sec /\ ring[slot].msec = now.msec
      /\ ring[slot].gmt = now.sec /\ ring[slot].log = now.sec
      /\ now.sec \in Secs /\ current.sec = now.sec /\ current.msec = now.msec
  BY <1>2, <1>4, <1>7 DEF Progress, Started, Publishing
<1>9. CASE Publish(u, "cached_time", "time", "cached_log")
  <2>1. /\ pc'[u] = "cached_log" /\ cached'.time = slot
        /\ cached'.log = cached.log /\ cached'.gmt = cached.gmt
    BY <1>1, <1>9 DEF Publish, Step
  <2>2. Behind({"log", "gmt"})
    BY <1>7, <1>9 DEF Publish, Step, Progress, Behind, Fields
  <2>3. Behind({"log", "gmt"})'
    BY <1>2, <2>1, <2>2 DEF Behind, Whole
  <2>. QED BY <1>2, <1>5, <1>6, <1>8, <2>1, <2>3
           DEF IInv, Progress, Before, Started, Running, Filling, Publishing
<1>10. CASE Publish(u, "cached_log", "log", "cached_gmt")
  <2>1. /\ pc'[u] = "cached_gmt" /\ cached'.log = slot
        /\ cached'.time = cached.time /\ cached'.gmt = cached.gmt
    BY <1>1, <1>10 DEF Publish, Step
  <2>2. Behind({"gmt"}) /\ cached.time = slot
    BY <1>7, <1>10 DEF Publish, Step, Progress, Behind
  <2>3. Behind({"gmt"})'
    BY <1>2, <2>1, <2>2 DEF Behind, Whole
  <2>. QED BY <1>2, <1>5, <1>6, <1>8, <2>1, <2>2, <2>3
           DEF IInv, Progress, Before, Started, Running, Filling, Publishing
<1>11. CASE Publish(u, "cached_gmt", "gmt", "unlock")
  <2>1. /\ pc'[u] = "unlock" /\ cached'.gmt = slot
        /\ cached'.time = cached.time /\ cached'.log = cached.log
    BY <1>1, <1>11 DEF Publish, Step
  <2>2. cached.time = slot /\ cached.log = slot
    BY <1>7, <1>11 DEF Publish, Step, Progress
  <2>3. \A f \in Fields : cached'[f] = slot'
    BY <1>2, <2>1, <2>2 DEF Fields
  <2>. QED BY <1>2, <1>5, <1>6, <1>8, <2>1, <2>3
           DEF IInv, Progress, Before, Started, Running, Filling, Publishing
<1>. QED BY <1>9, <1>10, <1>11 DEF PublishAll

\* art_unlock: what the update published is at rest.
LEMMA InvUnlock ==
  ASSUME IInv, Typed', NEW u \in Updaters, Unlock(u)
  PROVE  IInv'
<1>1. pc \in [Updaters -> {"idle", "trylock"} \cup Running]
  BY DEF IInv, Typed, TypeOK
<1>2. /\ pc[u] = "unlock" /\ pc' = [pc EXCEPT ![u] = "idle"] /\ lock' = 0 /\ ready'
      /\ UNCHANGED <<slot, ring, current, cached, now, view>>
  BY DEF Unlock, Step
<1>3. \A v \in Updaters : pc'[v] \notin Running
  <2>1. \A v \in Updaters \ {u} : pc[v] \notin Running
    BY <1>2 DEF IInv, Owned, OneUpdate, Running
  <2>. QED BY <1>1, <1>2, <2>1 DEF Running, Filling, Publishing
<1>4. Owned' /\ \A v \in Updaters : Progress(v)'
  BY <1>2, <1>3 DEF Owned, OneUpdate, Progress, Before, Started, Running, Filling, Publishing
<1>5. Rest'
  <2>1. /\ \A f \in Fields : cached[f] = slot
        /\ ring[slot].sec = now.sec /\ ring[slot].msec = now.msec
        /\ ring[slot].gmt = now.sec /\ ring[slot].log = now.sec
        /\ current.sec = now.sec /\ current.msec = now.msec
    BY <1>2 DEF IInv, Progress, Started, Running
  <2>. QED BY <1>2, <2>1 DEF Rest, Settled, Whole
<1>6. ASSUME NEW r \in Readers PROVE Safe(r)'
  BY <1>2, <1>3, <1>6, SafeKept DEF Running
<1>. QED BY <1>4, <1>5, <1>6 DEF IInv

\* Readers change their own views only; a pointer is taken from one of the three.
LEMMA InvReader ==
  ASSUME IInv, Typed', NEW r \in Readers, Look(r) \/ LookAway(r)
  PROVE  IInv'
<1>1. view \in [Readers -> Views] /\ slot \in Ring
  BY DEF IInv, Typed, TypeOK
<1>2. UNCHANGED <<lock, slot, ring, current, cached, ready, pc, now>>
  BY DEF Look, LookAway
<1>3. Owned' /\ Rest' /\ \A u \in Updaters : Progress(u)'
  BY <1>2 DEF IInv, Owned, OneUpdate, Rest, Progress, Settled, Behind, Whole
<1>4. ASSUME NEW q \in Readers \ {r} PROVE Safe(q)'
  <2>1. view'[q] = view[q]
    BY <1>1, <1>4 DEF Look, LookAway
  <2>. QED BY <1>2, <1>4, <2>1 DEF IInv, Safe, Shown, Whole, Ahead
<1>5. Safe(r)'
  <2>1. CASE Look(r)
    <3>1. PICK f \in Fields :
            view' = [view EXCEPT ![r] = [ptr |-> cached[f], seen |-> Shown(cached[f]), lag |-> 0]]
      BY <2>1 DEF Look, Fields
    <3>2. view'[r].ptr = cached[f] /\ view'[r].seen = Shown(cached[f]) /\ view'[r].lag = 0
      BY <1>1, <3>1
    <3>3. /\ cached[f] \in Ring /\ Whole(cached[f])
          /\ cached[f] = slot \/ After(cached[f]) = slot
          /\ (\E u \in Updaters : pc[u] \in Filling) => After(cached[f]) = slot
      BY <2>1, Published DEF Look
    <3>4. Ahead(cached[f], 0) \/ Ahead(cached[f], 1)
      BY <1>1, <3>3, TimeCacheAssumption DEF Ahead, After, Ring
    <3>5. (\E u \in Updaters : pc[u] \in Filling) => cached[f] # slot
      BY <3>3, AfterInRing
    <3>. QED BY <1>2, <3>2, <3>3, <3>4, <3>5 DEF Safe, Shown, Whole, Ahead
  <2>2. CASE LookAway(r)
    <3>1. view'[r].ptr = None
      BY <1>1, <2>2 DEF LookAway, Idle
    <3>. QED BY <3>1 DEF Safe
  <2>. QED BY <2>1, <2>2
<1>. QED BY <1>3, <1>4, <1>5 DEF IInv

\* No step of an updater or a reader breaks it.
LEMMA InvStep == IInv /\ [Next]_vars => IInv'
<1>1. SUFFICES ASSUME IInv, [Next]_vars PROVE IInv'
  OBVIOUS
<1>2. Typed'
  BY <1>1, TypedStep, Published DEF IInv
<1>3. CASE UNCHANGED vars
  BY <1>1, <1>2, <1>3
  DEF vars, IInv, Owned, OneUpdate, Rest, Progress, Settled, Behind, Safe, Shown, Whole, Ahead
<1>4. ASSUME NEW u \in Updaters, Call(u) \/ Update(u) PROVE IInv'
  BY <1>1, <1>2, <1>4, InvTry, InvGlobals, InvAdjust, InvAdvance, InvFill, InvPublish, InvUnlock
  DEF Update
<1>5. ASSUME NEW r \in Readers, Look(r) \/ LookAway(r) PROVE IInv'
  BY <1>1, <1>2, <1>5, InvReader
<1>. QED BY <1>1, <1>3, <1>4, <1>5 DEF Next

\* What art_time_updata has stored and published so far, at each of its steps,
\* and how old the pointers its readers hold may be: the inductive invariant.
THEOREM Invariant == Spec => []IInv
<1>. QED BY InvInit, InvStep, PTL DEF Spec

-----------------------------------------------------------------------------
(* What it gives *)

\* The lock word, the slots, the two globals and the three pointers keep their
\* types through art_time_updata and its readers.
THEOREM Typing == Spec => []TypeOK
<1>1. IInv => TypeOK
  BY DEF IInv, Typed
<1>. QED BY <1>1, Invariant, PTL

\* art_trylock lets at most one thread into the body of art_time_updata,
\* however many call it.
THEOREM Exclusion == Spec => []OneUpdate
<1>1. IInv => OneUpdate
  BY DEF IInv, Owned
<1>. QED BY <1>1, Invariant, PTL

\* While no update runs, the three pointers, the slot with both texts and the
\* two globals that art_time_updata publishes tell the same time.
THEOREM Agreement == Spec => []InStep
<1>1. ASSUME IInv, ready, lock = 0 PROVE InStep
  <2>1. Settled /\ ring[slot].sec = current.sec /\ ring[slot].msec = current.msec
    BY <1>1 DEF IInv, Rest
  <2>2. /\ slot \in Ring
        /\ ring \in [Ring -> [sec : Secs \cup {0}, msec : Msecs \cup {0},
                            gmt : Secs \cup {0, Torn}, log : Secs \cup {0, Torn}]]
        /\ cached \in [time : Ring \cup {None}, log : Ring \cup {None}, gmt : Ring \cup {None}]
    BY <1>1 DEF IInv, Typed, TypeOK
  <2>3. cached = [time |-> slot, log |-> slot, gmt |-> slot]
    BY <2>1, <2>2 DEF Settled, Fields
  <2>4. ring[slot] = [sec |-> current.sec, msec |-> current.msec,
                      gmt |-> current.sec, log |-> current.sec]
    BY <2>1, <2>2 DEF Settled, Whole
  <2>. QED BY <2>3, <2>4 DEF InStep
<1>2. IInv => InStep
  BY <1>1 DEF InStep
<1>. QED BY <1>2, Invariant, PTL

\* The three pointers that art_time_updata publishes one by one are at the
\* newest slot or the one before it, and never at the one that is being filled.
THEOREM Apart == Spec => []OneSlotApart
<1>1. ASSUME IInv, ready PROVE OneSlotApart
  <2>1. \A f \in Fields :
          /\ cached[f] \in Ring /\ (cached[f] = slot \/ After(cached[f]) = slot)
          /\ (\E u \in Updaters : pc[u] \in Filling) => cached[f] # slot
    BY <1>1, Published, AfterInRing
  <2>. QED BY <2>1 DEF OneSlotApart, Fields
<1>2. IInv => OneSlotApart
  BY <1>1 DEF OneSlotApart
<1>. QED BY <1>2, Invariant, PTL

\* Whoever got a pointer from get_time_gmt_str, get_time_log_str or
\* get_timeofday reads through it what it read at first, with both texts
\* complete, until Slots - 1 more slots were started.
THEOREM Steady == Spec => []SteadyUntilLapped
<1>1. IInv => SteadyUntilLapped
  <2>1. SUFFICES ASSUME IInv, NEW r \in Readers,
                        view[r].ptr # None, view[r].lag < Slots - 1
                 PROVE  /\ Shown(view[r].ptr) = view[r].seen
                        /\ view[r].seen = [sec |-> view[r].seen.sec,
                                           gmt |-> view[r].seen.sec,
                                           log |-> view[r].seen.sec]
    BY DEF SteadyUntilLapped
  <2>2. Shown(view[r].ptr) = view[r].seen /\ Whole(view[r].ptr)
    BY <2>1 DEF IInv, Safe
  <2>3. Shown(view[r].ptr) = [sec |-> Shown(view[r].ptr).sec,
                              gmt |-> Shown(view[r].ptr).sec,
                              log |-> Shown(view[r].ptr).sec]
    BY <2>2 DEF Shown, Whole
  <2>. QED BY <2>2, <2>3
<1>. QED BY <1>1, Invariant, PTL

-----------------------------------------------------------------------------
(***************************************************************************)
(* The calendar: art_gmtime finds the year and the day in it, counted from *)
(* March 1, and from that the month, on every day below Word.              *)
(***************************************************************************)

\* A year in the Gregorian cycles: of 400, 100 and 4 years.
LEMMA Cycles ==
  ASSUME NEW y \in Nat
  PROVE  \E c \in Nat, k \in 0..3, j \in 0..24, i \in 0..3 :
           /\ y = 400 * c + 100 * k + 4 * j + i
           /\ y \div 4 = 100 * c + 25 * k + j
           /\ y \div 100 = 4 * c + k
           /\ y \div 400 = c
<1> DEFINE c == y \div 400
           k == (y - 400 * c) \div 100
           j == (y - 400 * c - 100 * k) \div 4
           i == y - 400 * c - 100 * k - 4 * j
<1>1. c \in Nat /\ y - 400 * c \in 0..399
  BY SMT
<1>2. k \in 0..3 /\ y - 400 * c - 100 * k \in 0..99
  BY <1>1, SMT
<1>3. j \in 0..24 /\ i \in 0..3
  BY <1>1, <1>2, SMT
<1>4. y = 400 * c + 100 * k + 4 * j + i
  BY <1>1, <1>2, <1>3, SMT
<1>5. y \div 400 = c
  OBVIOUS
<1>0. c \in Nat /\ k \in 0..3 /\ j \in 0..24 /\ i \in 0..3
  BY <1>1, <1>2, <1>3
<1> HIDE DEF c, k, j, i
<1>6. y \div 100 = 4 * c + k /\ y \div 4 = 100 * c + 25 * k + j
  BY <1>1, <1>2, <1>3, <1>4, SMT
<1>. USE <1>0
<1>. WITNESS c \in Nat, k \in 0..3, j \in 0..24, i \in 0..3
<1>. QED BY <1>4, <1>5, <1>6

\* DaysBefore in the cycles.
InCycles(y) ==
  \E c \in Nat, k \in 0..3, j \in 0..24, i \in 0..3 :
     /\ y = 400 * c + 100 * k + 4 * j + i
     /\ DaysBefore(y) = 365 * y + 97 * c + 24 * k + j

LEMMA DaysInCycles == \A y \in Nat : InCycles(y)
<1> SUFFICES ASSUME NEW y \in Nat PROVE InCycles(y)
  OBVIOUS
<1>1. PICK c \in Nat, k \in 0..3, j \in 0..24, i \in 0..3 :
           /\ y = 400 * c + 100 * k + 4 * j + i
           /\ y \div 4 = 100 * c + 25 * k + j
           /\ y \div 100 = 4 * c + k
           /\ y \div 400 = c
  BY Cycles
<1>2. DaysBefore(y) = 365 * y + 97 * c + 24 * k + j
  BY <1>1 DEF DaysBefore
<1>. QED BY <1>1, <1>2 DEF InCycles

\* Gauss' formula: the year guessed is the right one or one day or two too early
\* for it.
LEMMA Guess ==
  ASSUME NEW m \in Nat
  PROVE  /\ YearGuess(m) \in Nat
         /\ DaysBefore(YearGuess(m)) \in Int /\ DaysBefore(YearGuess(m) + 1) \in Int
         /\ m >= DaysBefore(YearGuess(m)) - 2
         /\ m < DaysBefore(YearGuess(m) + 1)
<1> DEFINE g == YearGuess(m)
<1>1. g \in Nat /\ 146097 * g <= 400 * m + 800 /\ 400 * m + 800 < 146097 * g + 146097
  BY SMT DEF YearGuess
<1> HIDE DEF g
<1>2. DaysBefore(g) \in Int /\ m >= DaysBefore(g) - 2
  <2>1. PICK c \in Nat, k \in 0..3, j \in 0..24, i \in 0..3 :
           /\ g = 400 * c + 100 * k + 4 * j + i
           /\ DaysBefore(g) = 365 * g + 97 * c + 24 * k + j
    <3>0. g \in Nat
      BY <1>1
    <3>1. InCycles(g)
      BY <3>0, DaysInCycles, Zenon
    <3>. QED BY <3>1 DEF InCycles
  <2>. QED BY <1>1, <2>1
<1> DEFINE h == g + 1
<1>3. DaysBefore(h) \in Int /\ m < DaysBefore(h)
  <2>0. h \in Nat /\ 400 * m + 800 < 146097 * h
    BY <1>1
  <2> HIDE DEF h
  <2>1. PICK c \in Nat, k \in 0..3, j \in 0..24, i \in 0..3 :
           /\ h = 400 * c + 100 * k + 4 * j + i
           /\ DaysBefore(h) = 365 * h + 97 * c + 24 * k + j
    <3>0. h \in Nat
      BY <2>0
    <3>1. InCycles(h)
      BY <3>0, DaysInCycles, Zenon
    <3>. QED BY <3>1 DEF InCycles
  <2>. QED BY <2>0, <2>1
<1>. QED BY <1>1, <1>2, <1>3 DEF g

\* A year from March 1 to March 1 has the leap day of the year it ends in.
LeapDay(year) == IF IsLeap(year) THEN 1 ELSE 0

LEMMA YearLength ==
  ASSUME NEW y \in Nat \ {0}
  PROVE  DaysBefore(y) = DaysBefore(y - 1) + 365 + LeapDay(y)
<1>1. PICK c \in Nat, k \in 0..3, j \in 0..24, i \in 0..3 :
           /\ y = 400 * c + 100 * k + 4 * j + i
           /\ y \div 4 = 100 * c + 25 * k + j
           /\ y \div 100 = 4 * c + k
           /\ y \div 400 = c
  BY Cycles
<1>2. y % 4 = i /\ (y % 100 = 0 <=> j = 0 /\ i = 0) /\ (y % 400 = 0 <=> k = 0 /\ j = 0 /\ i = 0)
  BY <1>1
<1>3. y - 1 \in Nat
  OBVIOUS
<1>4. /\ (y - 1) \div 4 = IF i = 0 THEN 100 * c + 25 * k + j - 1 ELSE 100 * c + 25 * k + j
      /\ (y - 1) \div 100 = IF i = 0 /\ j = 0 THEN 4 * c + k - 1 ELSE 4 * c + k
      /\ (y - 1) \div 400 = IF i = 0 /\ j = 0 /\ k = 0 THEN c - 1 ELSE c
  BY <1>1, <1>3
<1>. QED BY <1>1, <1>2, <1>3, <1>4 DEF DaysBefore, IsLeap, LeapDay

\* m days after March 1, 1 BC is the day yday of the year that began on March 1
\* of year.
InYear(m, year, yday) ==
  /\ year \in Nat /\ yday \in 0 .. 364 + LeapDay(year + 1)
  /\ m = DaysBefore(year) + yday

\* With its correction the code finds the year and the day in it,
LEMMA YearFound ==
  ASSUME NEW m \in Nat
  PROVE  /\ YearAndDay(m) = [year |-> YearAndDay(m).year, yday |-> YearAndDay(m).yday]
         /\ InYear(m, YearAndDay(m).year, YearAndDay(m).yday)
<1> DEFINE g == YearGuess(m)
<1>1. /\ g \in Nat /\ DaysBefore(g) \in Int /\ DaysBefore(g + 1) \in Int
      /\ m >= DaysBefore(g) - 2 /\ m < DaysBefore(g + 1)
  BY Guess
<1>2. DaysBefore(g + 1) = DaysBefore(g) + 365 + LeapDay(g + 1)
  <2>1. g + 1 \in Nat \ {0} /\ (g + 1) - 1 = g
    BY <1>1
  <2>. QED BY <2>1, YearLength
<1>3. LeapDay(g) \in 0..1 /\ LeapDay(g + 1) \in 0..1
  BY DEF LeapDay
<1>4. CASE m - DaysBefore(g) >= 0
  <2>1. YearAndDay(m) = [year |-> g, yday |-> m - DaysBefore(g)]
    BY <1>4 DEF YearAndDay
  <2>2. InYear(m, g, m - DaysBefore(g))
    BY <1>1, <1>2, <1>3, <1>4 DEF InYear
  <2>. QED BY <2>1, <2>2
<1>5. CASE ~(m - DaysBefore(g) >= 0)
  <2>1. YearAndDay(m) = [year |-> g - 1, yday |-> 365 + LeapDay(g) + (m - DaysBefore(g))]
    BY <1>5 DEF YearAndDay, LeapDay
  <2>2. g # 0
    <3>1. DaysBefore(0) = 0
      BY DEF DaysBefore
    <3>. QED BY <3>1, <1>5
  <2>3. /\ g \in Nat \ {0} /\ g - 1 \in Nat /\ (g - 1) + 1 = g
        /\ DaysBefore(g) = DaysBefore(g - 1) + 365 + LeapDay(g)
    BY <1>1, <2>2, YearLength
  <2>4. DaysBefore(g - 1) \in Int
    BY <2>3 DEF DaysBefore
  <2> HIDE DEF g
  <2>5. InYear(m, g - 1, 365 + LeapDay(g) + (m - DaysBefore(g)))
    BY <1>1, <1>3, <1>5, <2>3, <2>4 DEF InYear
  <2>. QED BY <2>1, <2>5
<1>. QED BY <1>4, <1>5

LEMMA YearsInOrder ==
  ASSUME NEW y \in Nat, NEW z \in Nat, y < z
  PROVE  DaysBefore(z) >= DaysBefore(y + 1)
<1> DEFINE x == y + 1
<1>0. x \in Nat /\ z >= x
  OBVIOUS
<1> HIDE DEF x
<1>1. PICK c \in Nat, k \in 0..3, j \in 0..24, i \in 0..3 :
           /\ z = 400 * c + 100 * k + 4 * j + i
           /\ DaysBefore(z) = 365 * z + 97 * c + 24 * k + j
  <2>1. InCycles(z)
    BY DaysInCycles, Zenon
  <2>. QED BY <2>1 DEF InCycles
<1>2. PICK c1 \in Nat, k1 \in 0..3, j1 \in 0..24, i1 \in 0..3 :
           /\ x = 400 * c1 + 100 * k1 + 4 * j1 + i1
           /\ DaysBefore(x) = 365 * x + 97 * c1 + 24 * k1 + j1
  <2>0. x \in Nat
    BY <1>0
  <2>1. InCycles(x)
    BY <2>0, DaysInCycles, Zenon
  <2>. QED BY <2>1 DEF InCycles
<1>4. 97 * c + 24 * k + j >= 97 * c1 + 24 * k1 + j1
  <2>1. 400 * c + 100 * k + 4 * j + i >= 400 * c1 + 100 * k1 + 4 * j1 + i1
    BY <1>0, <1>1, <1>2
  <2>2. CASE c > c1
    BY <2>2
  <2>3. CASE c = c1
    BY <2>1, <2>3
  <2>4. CASE c < c1
    BY <2>1, <2>4
  <2>. QED BY <2>2, <2>3, <2>4
<1>. QED BY <1>0, <1>1, <1>2, <1>4 DEF x

\* of which there is one,
LEMMA OneYear ==
  ASSUME NEW m \in Nat, NEW y, NEW D, NEW z, NEW E, InYear(m, y, D), InYear(m, z, E)
  PROVE  y = z /\ D = E
<1>1. ASSUME NEW a, NEW A, NEW b, NEW B, InYear(m, a, A), InYear(m, b, B), a < b PROVE FALSE
  <2>1. DaysBefore(b) >= DaysBefore(a + 1)
    BY <1>1, YearsInOrder DEF InYear
  <2>2. DaysBefore(a + 1) = DaysBefore(a) + 365 + LeapDay(a + 1)
    <3>1. a + 1 \in Nat \ {0} /\ (a + 1) - 1 = a
      BY <1>1 DEF InYear
    <3>. QED BY <3>1, YearLength
  <2>3. /\ DaysBefore(a) \in Int /\ DaysBefore(b) \in Int
        /\ LeapDay(a + 1) \in Int /\ LeapDay(b + 1) \in Int
    BY <1>1 DEF InYear, DaysBefore, LeapDay
  <2>. QED BY <1>1, <2>1, <2>2, <2>3 DEF InYear
<1>2. y = z
  <2>1. y \in Nat /\ z \in Nat
    BY DEF InYear
  <2>2. ~(y < z) /\ ~(z < y)
    BY <1>1
  <2>. QED BY <2>1, <2>2
<1>3. DaysBefore(y) \in Int /\ LeapDay(y + 1) \in Int
  BY DEF InYear, DaysBefore, LeapDay
<1>. QED BY <1>2, <1>3 DEF InYear

\* and the next day is the next in that year or the first of the next one.
LEMMA NextInYear ==
  ASSUME NEW m \in Nat, NEW y, NEW D, InYear(m, y, D)
  PROVE  IF D < 364 + LeapDay(y + 1) THEN InYear(m + 1, y, D + 1) ELSE InYear(m + 1, y + 1, 0)
<1>1. DaysBefore(y) \in Int /\ LeapDay(y + 1) \in 0..1 /\ LeapDay(y + 2) \in 0..1
  BY DEF InYear, DaysBefore, LeapDay
<1>2. /\ DaysBefore(y + 1) = DaysBefore(y) + 365 + LeapDay(y + 1)
      /\ (y + 1) + 1 = y + 2
  <2>1. y + 1 \in Nat \ {0} /\ (y + 1) - 1 = y
    BY DEF InYear
  <2>. QED BY <2>1, YearLength
<1>. QED BY <1>1, <1>2 DEF InYear

\* The month that the code finds in a year from March 1, and its first day.
Month(yday) == ((yday + 31) * 10) \div 306
FirstOf(mon) == (367 * mon) \div 12 - 30

InMonth(D) ==
  /\ Month(D) \in 1..12 /\ FirstOf(Month(D)) \in 0..337
  /\ FirstOf(Month(D)) <= D /\ D < FirstOf(Month(D) + 1)
  /\ (D >= 306 <=> Month(D) >= 11)
  /\ Month(D + 1) = IF D + 1 = FirstOf(Month(D) + 1) THEN Month(D) + 1 ELSE Month(D)

\* The days of the year from March 1 in months: each month begins where the
\* formula for mday says, and is as long as the calendar has it.
LEMMA Months == \A D \in 0..365 : InMonth(D)
BY SMT DEF InMonth, Month, FirstOf

LEMMA MonthEnds ==
  ASSUME NEW k \in 1..12, NEW y \in Nat
  PROVE  /\ k < 12 => MonthLength(y, IF k >= 11 THEN k - 10 ELSE k + 2)
                         = FirstOf(k + 1) - FirstOf(k)
         /\ MonthLength(y, 2) = 28 + LeapDay(y)
         /\ FirstOf(12) = 337 /\ FirstOf(1) = 0 /\ FirstOf(13) = 367
<1>1. k = 1 \/ k = 2 \/ k = 3 \/ k = 4 \/ k = 5 \/ k = 6 \/ k = 7 \/ k = 8 \/ k = 9 \/ k = 10
        \/ k = 11 \/ k = 12
  OBVIOUS
<1>. QED BY <1>1 DEF MonthLength, FirstOf, LeapDay


\* The date of day yday of the year that began on March 1 of year.
DateOf(year, yday, wday) ==
  [year |-> IF yday >= 306 THEN year + 1 ELSE year,
   mon  |-> IF yday >= 306 THEN Month(yday) - 10 ELSE Month(yday) + 2,
   mday |-> yday - FirstOf(Month(yday)) + 1,
   wday |-> wday]

LEMMA NotNarrowed ==
  ASSUME NEW t \in Nat, t < Word
  PROVE  Narrowed(t) = t
BY GmtimeAssumption DEF Narrowed

\* Every way to find the day in its year gives art_gmtime's date.
LEMMA BrokenIs ==
  ASSUME NEW t \in Nat, t <= MaxDays, NEW y, NEW D, InYear(t + 719468, y, D)
  PROVE  Broken(t) = DateOf(y, D, (4 + t) % 7)
<1>1. /\ Clamped(Narrowed(t)) = t
      /\ SinceMarch(Clamped(Narrowed(t))) = t + 719468 /\ t + 719468 \in Nat
  <2>1. Narrowed(t) = t
    BY NotNarrowed, GmtimeAssumption DEF MaxDays
  <2>. QED BY <2>1 DEF Clamped, SinceMarch, MaxDays
<1> DEFINE a == YearAndDay(t + 719468)
<1>2. a.year = y /\ a.yday = D
  BY <1>1, YearFound, OneYear
<1>3. Broken(t) = DateOf(a.year, a.yday, (4 + t) % 7)
  BY <1>1 DEF Broken, DateOf, Month, FirstOf
<1>. QED BY <1>2, <1>3

\* A date that is not the last day of a year from March 1 is followed by the
\* day after it in that year.
LEMMA SameYear ==
  ASSUME NEW y \in Nat, NEW D, D \in 0..363 + LeapDay(y + 1), NEW w \in 0..6
  PROVE  DateOf(y, D, w) = End \/ DateOf(y, D + 1, (w + 1) % 7) = Following(DateOf(y, D, w))
<1> DEFINE k == Month(D)
           z == IF D >= 306 THEN y + 1 ELSE y
           mon == IF D >= 306 THEN k - 10 ELSE k + 2
           last == D + 1 = FirstOf(k + 1)
<1>0. LeapDay(y + 1) \in 0..1 /\ LeapDay(z) \in 0..1
  BY DEF LeapDay
<1> DEFINE e == D + 1
<1>1. /\ D \in 0..364 /\ k \in 1..12 /\ FirstOf(k) \in 0..337
      /\ FirstOf(k) <= D /\ D < FirstOf(k + 1)
      /\ (D >= 306 <=> k >= 11)
      /\ Month(D + 1) = IF last THEN k + 1 ELSE k
  <2>1. D \in 0..364 /\ D \in 0..365
    BY <1>0
  <2>2. InMonth(D)
    BY <2>1, Months, Zenon
  <2>. QED BY <2>1, <2>2 DEF InMonth
<1>2. Month(D + 1) \in 1..12 /\ (D + 1 >= 306 <=> Month(D + 1) >= 11)
  <2>1. e \in 0..365
    BY <1>1
  <2> HIDE DEF e
  <2>2. Month(e) \in 1..12 /\ (e >= 306 <=> Month(e) >= 11)
    <3>1. InMonth(e)
      BY <2>1, Months, Zenon
    <3>. QED BY <3>1 DEF InMonth
  <2>. QED BY <2>2 DEF e
<1> HIDE DEF k
<1>3. /\ k < 12 => MonthLength(z, IF k >= 11 THEN k - 10 ELSE k + 2) = FirstOf(k + 1) - FirstOf(k)
      /\ MonthLength(z, 2) = 28 + LeapDay(z)
      /\ FirstOf(12) = 337 /\ FirstOf(1) = 0 /\ FirstOf(13) = 367
  BY <1>1, MonthEnds
<1>4. DateOf(y, D, w) = [year |-> z, mon |-> mon, mday |-> D - FirstOf(k) + 1, wday |-> w]
  BY DEF DateOf, k
<1> DEFINE new == DateOf(y, D + 1, (w + 1) % 7)
<1>5. new = [year |-> IF D + 1 >= 306 THEN y + 1 ELSE y,
             mon  |-> IF D + 1 >= 306 THEN Month(D + 1) - 10 ELSE Month(D + 1) + 2,
             mday |-> (D + 1) - FirstOf(Month(D + 1)) + 1,
             wday |-> (w + 1) % 7]
  BY DEF DateOf
<1>6. D - FirstOf(k) + 1 = MonthLength(z, mon) <=> last
  <2>1. CASE k < 12
    <3>1. mon = IF k >= 11 THEN k - 10 ELSE k + 2
      BY <1>1
    <3>2. FirstOf(k + 1) \in Int
      BY <1>1 DEF FirstOf
    <3>. QED BY <1>1, <1>3, <2>1, <3>1, <3>2
  <2>2. CASE k = 12
    <3>1. mon = 2 /\ z = y + 1
      BY <1>1, <2>2
    <3>2. D - FirstOf(k) + 1 <= 27 + LeapDay(z) /\ ~last
      BY <1>0, <1>1, <1>3, <2>2, <3>1
    <3>. QED BY <1>0, <1>3, <3>1, <3>2
  <2>. QED BY <1>1, <2>1, <2>2
<1>7. last /\ mon = 12 <=> D = 305
  <2>1. D = 305 => k = 10
    BY DEF k, Month
  <2>2. FirstOf(11) = 306
    BY DEF FirstOf
  <2>. QED BY <1>1, <2>1, <2>2
<1>8. last => FirstOf(k + 1) = D + 1
  OBVIOUS
<1>9. CASE DateOf(y, D, w) # End
  <2>1. Following(DateOf(y, D, w)) =
          [year |-> IF last /\ mon = 12 THEN z + 1 ELSE z,
           mon  |-> IF last /\ mon = 12 THEN 1 ELSE IF last THEN mon + 1 ELSE mon,
           mday |-> IF last THEN 1 ELSE D - FirstOf(k) + 1 + 1,
           wday |-> (w + 1) % 7]
    BY <1>4, <1>6, <1>9 DEF Following
  <2>2. (IF D + 1 >= 306 THEN y + 1 ELSE y) = IF last /\ mon = 12 THEN z + 1 ELSE z
    BY <1>1, <1>7
  <2>3. (IF D + 1 >= 306 THEN Month(D + 1) - 10 ELSE Month(D + 1) + 2)
          = IF last /\ mon = 12 THEN 1 ELSE IF last THEN mon + 1 ELSE mon
    BY <1>1, <1>2, <1>7
  <2>4. (D + 1) - FirstOf(Month(D + 1)) + 1 = IF last THEN 1 ELSE D - FirstOf(k) + 1 + 1
    BY <1>1, <1>8
  <2> HIDE DEF last, mon, z
  <2>. QED BY <1>5, <2>1, <2>2, <2>3, <2>4
<1>. QED BY <1>9

\* The last day before March 1, in February, is followed by that day.
LEMMA NextYear ==
  ASSUME NEW y \in Nat, NEW w \in 0..6
  PROVE  DateOf(y + 1, 0, (w + 1) % 7) = Following(DateOf(y, 364 + LeapDay(y + 1), w))
<1> DEFINE D == 364 + LeapDay(y + 1)
<1>1. LeapDay(y + 1) \in 0..1 /\ D \in 364..365
  BY DEF LeapDay
<1>2. Month(D) = 12 /\ Month(0) = 1 /\ FirstOf(12) = 337 /\ FirstOf(1) = 0
  BY <1>1 DEF Month, FirstOf
<1>3. MonthLength(y + 1, 2) = 28 + LeapDay(y + 1)
  BY MonthEnds
<1>4. DateOf(y, D, w) = [year |-> y + 1, mon |-> 2, mday |-> 28 + LeapDay(y + 1), wday |-> w]
  BY <1>1, <1>2 DEF DateOf
<1>5. DateOf(y + 1, 0, (w + 1) % 7) = [year |-> y + 1, mon |-> 3, mday |-> 1, wday |-> (w + 1) % 7]
  BY <1>2 DEF DateOf
<1>. QED BY <1>3, <1>4, <1>5 DEF Following, End

\* The last day that the code tells apart is the calendar's last one, and no
\* earlier one is.
LEMMA LastDate ==
  ASSUME NEW t \in Nat, t < Word
  PROVE  /\ t >= MaxDays => Broken(t) = End
         /\ t < MaxDays => Broken(t) # End
<1>1. InYear(MaxDays + 719468, 9999, 305)
  BY DEF InYear, MaxDays, DaysBefore, LeapDay, IsLeap
<1>2. ASSUME t >= MaxDays PROVE Broken(t) = End
  <2>1. Broken(t) = Broken(MaxDays)
    <3>1. Clamped(Narrowed(t)) = MaxDays /\ Clamped(Narrowed(MaxDays)) = MaxDays
      <4>1. Narrowed(t) = t /\ Narrowed(MaxDays) = MaxDays
        BY NotNarrowed, GmtimeAssumption DEF MaxDays
      <4>. QED BY <1>2, <4>1 DEF Clamped, MaxDays
    <3>. QED BY <3>1 DEF Broken
  <2>2. Broken(MaxDays) = DateOf(9999, 305, (4 + MaxDays) % 7)
    BY <1>1, BrokenIs DEF MaxDays
  <2>3. DateOf(9999, 305, (4 + MaxDays) % 7) = End
    BY DEF DateOf, Month, FirstOf, MaxDays, End
  <2>. QED BY <2>1, <2>2, <2>3
<1>3. ASSUME t < MaxDays PROVE Broken(t) # End
  <2>1. PICK y, D : InYear(t + 719468, y, D)
    BY YearFound
  <2>2. Broken(t) = DateOf(y, D, (4 + t) % 7)
    BY <1>3, <2>1, BrokenIs DEF MaxDays
  <2>3. ASSUME DateOf(y, D, (4 + t) % 7) = End PROVE FALSE
    <3>1. (IF D >= 306 THEN y + 1 ELSE y) = 9999 /\ D - FirstOf(Month(D)) + 1 = 31
          /\ (IF D >= 306 THEN Month(D) - 10 ELSE Month(D) + 2) = 12
      <4>1. /\ DateOf(y, D, (4 + t) % 7).year = 9999 /\ DateOf(y, D, (4 + t) % 7).mon = 12
            /\ DateOf(y, D, (4 + t) % 7).mday = 31
        BY <2>3 DEF End
      <4>. QED BY <4>1 DEF DateOf
    <3>2. D \in 0..365 /\ y \in Nat
      BY <2>1 DEF InYear, LeapDay
    <3>3. Month(D) \in 1..12 /\ (D >= 306 <=> Month(D) >= 11) /\ FirstOf(10) = 275
      <4>1. FirstOf(10) = 275
        BY DEF FirstOf
      <4>2. InMonth(D)
        BY <3>2, Months, Zenon
      <4>. QED BY <4>1, <4>2 DEF InMonth
    <3>4. Month(D) = 10 /\ D = 305 /\ y = 9999
      BY <3>1, <3>2, <3>3
    <3>5. t + 719468 = DaysBefore(9999) + 305 /\ MaxDays + 719468 = DaysBefore(9999) + 305
      BY <1>1, <2>1, <3>4 DEF InYear
    <3>6. DaysBefore(9999) \in Int /\ MaxDays \in Int
      BY DEF DaysBefore, MaxDays
    <3> HIDE DEF MaxDays
    <3>. QED BY <1>3, <3>5, <3>6
  <2>. QED BY <2>2, <2>3
<1>. QED BY <1>2, <1>3

\* A step of the calendar is one of art_gmtime's date.
LEMMA NextDate ==
  ASSUME NEW t \in Nat, t + 1 < Word
  PROVE  Broken(t + 1) = Following(Broken(t))
<1>0. t < Word /\ Word \in Nat
  BY GmtimeAssumption
<1>1. CASE t >= MaxDays
  <2>1. Broken(t) = End /\ Broken(t + 1) = End
    BY <1>0, <1>1, LastDate DEF MaxDays
  <2>. QED BY <2>1 DEF Following
<1>2. CASE t < MaxDays
  <2>1. PICK y, D : InYear(t + 719468, y, D)
    BY YearFound
  <2> DEFINE w == (4 + t) % 7
  <2>2. w \in 0..6 /\ (4 + (t + 1)) % 7 = (w + 1) % 7
    OBVIOUS
  <2>3. Broken(t) = DateOf(y, D, w) /\ Broken(t) # End
    BY <1>0, <1>2, <2>1, BrokenIs, LastDate DEF MaxDays
  <2>4. y \in Nat /\ D \in 0..364 + LeapDay(y + 1) /\ LeapDay(y + 1) \in 0..1
    BY <2>1 DEF InYear, LeapDay
  <2> HIDE DEF w
  <2>5. ASSUME NEW z, NEW E, InYear(t + 719468 + 1, z, E)
        PROVE  Broken(t + 1) = DateOf(z, E, (w + 1) % 7)
    <3>1. t + 1 <= MaxDays /\ t + 1 \in Nat /\ (t + 1) + 719468 = t + 719468 + 1
      BY <1>2 DEF MaxDays
    <3>. QED BY <2>2, <2>5, <3>1, BrokenIs
  <2>6. CASE D < 364 + LeapDay(y + 1)
    <3>1. InYear(t + 719468 + 1, y, D + 1)
      BY <2>1, <2>6, NextInYear
    <3>2. D \in 0..363 + LeapDay(y + 1)
      BY <2>4, <2>6
    <3>3. DateOf(y, D, w) = End \/ DateOf(y, D + 1, (w + 1) % 7) = Following(DateOf(y, D, w))
      <4> HIDE DEF w
      <4>. QED BY <2>2, <2>4, <3>2, SameYear, Zenon
    <3>4. Broken(t + 1) = DateOf(y, D + 1, (w + 1) % 7)
      BY <2>5, <3>1
    <3>. QED BY <2>3, <3>3, <3>4
  <2>7. CASE ~(D < 364 + LeapDay(y + 1))
    <3>1. InYear(t + 719468 + 1, y + 1, 0)
      BY <2>1, <2>7, NextInYear
    <3>2. D = 364 + LeapDay(y + 1)
      BY <2>4, <2>7
    <3>3. DateOf(y + 1, 0, (w + 1) % 7) = Following(DateOf(y, D, w))
      BY <2>2, <2>4, <3>2, NextYear
    <3>4. Broken(t + 1) = DateOf(y + 1, 0, (w + 1) % 7)
      BY <2>5, <3>1
    <3>. QED BY <2>3, <3>3, <3>4
  <2>. QED BY <2>6, <2>7
<1>. QED BY <1>1, <1>2 DEF MaxDays

\* The inductive invariant: the date is a function of the day, as long as an
\* art_u32_t holds the day.
Dated == day \in Nat /\ (day < Word => date = Broken(day))

\* Day by day, the calendar's date is the one that art_gmtime computes, up to
\* the last day that fits an art_u32_t.
THEOREM CalendarKept == Calendar => []Dated
<1>1. FirstDay => Dated
  <2>1. InYear(0 + 719468, 1969, 306)
    BY DEF InYear, DaysBefore, LeapDay
  <2>2. Broken(0) = DateOf(1969, 306, 4)
    BY <2>1, BrokenIs DEF MaxDays
  <2>3. DateOf(1969, 306, 4) = [year |-> 1970, mon |-> 1, mday |-> 1, wday |-> 4]
    BY DEF DateOf, Month, FirstOf
  <2>. QED BY <2>2, <2>3 DEF FirstDay, Dated
<1>2. Dated /\ [NextDay]_<<day, date>> => Dated'
  <2>1. Word \in Nat
    BY GmtimeAssumption
  <2>2. ASSUME Dated, NextDay PROVE Dated'
    <3>1. day \in Nat /\ day' = day + 1 /\ date' = Following(date)
      BY <2>2 DEF Dated, NextDay
    <3>2. day + 1 < Word => day < Word
      BY <2>1, <3>1
    <3>3. day + 1 < Word => Broken(day + 1) = Following(Broken(day))
      BY <3>1, NextDate
    <3>. QED BY <2>2, <3>1, <3>2, <3>3 DEF Dated
  <2>. QED BY <2>2 DEF Dated
<1>. QED BY <1>1, <1>2, PTL DEF Calendar

\* Hours, minutes and seconds make up a number of seconds.
LEMMA Clock ==
  ASSUME NEW s \in Nat
  PROVE  /\ (s % 3600) \div 60 \in 0..59 /\ (s % 3600) % 60 \in 0..59
         /\ s < 86400 => s \div 3600 \in 0..23
         /\ (s \div 3600) * 3600 + ((s % 3600) \div 60) * 60 + ((s % 3600) % 60) = s
<1> DEFINE h == s \div 3600
           r == s % 3600
           m == r \div 60
           x == r % 60
<1>1. h \in Nat /\ r \in 0..3599 /\ s = 3600 * h + r /\ (s < 86400 => h <= 23)
  OBVIOUS
<1> HIDE DEF h, r
<1>2. m \in 0..59 /\ x \in 0..59 /\ r = 60 * m + x
  BY <1>1
<1> HIDE DEF m, x
<1>3. m \in 0..59 /\ x \in 0..59 /\ (s < 86400 => h \in 0..23) /\ h * 3600 + m * 60 + x = s
  BY <1>1, <1>2
<1>. QED BY <1>3 DEF h, r, m, x

\* The time of day is the second that the code takes.
TimeKept(t) ==
  LET u == TimeOfDay(t, t % 86400)
  IN  /\ u.hour \in 0..23 /\ u.min \in 0..59 /\ u.sec \in 0..59
      /\ u.hour * 3600 + u.min * 60 + u.sec = SecOf(t, t % 86400)

LEMMA TimeRight ==
  ASSUME NEW t \in Nat
  PROVE  TimeKept(t)
<1> DEFINE s == SecOf(t, t % 86400)
<1>1. s \in Nat /\ s < 86400
  <2>1. t % 86400 \in Nat /\ t % 86400 < 86400
    OBVIOUS
  <2>. QED BY <2>1 DEF SecOf
<1>2. TimeOfDay(t, t % 86400) = [hour |-> s \div 3600, min |-> (s % 3600) \div 60,
                                 sec |-> (s % 3600) % 60]
  BY DEF TimeOfDay
<1> HIDE DEF s
<1>3. /\ (s % 3600) \div 60 \in 0..59 /\ (s % 3600) % 60 \in 0..59 /\ s \div 3600 \in 0..23
      /\ (s \div 3600) * 3600 + ((s % 3600) \div 60) * 60 + ((s % 3600) % 60) = s
  BY <1>1, Clock
<1>4. SecOf(t, t % 86400) = s
  BY DEF s
<1>. QED BY <1>2, <1>3, <1>4 DEF TimeKept

\* GmtimeIsRight: art_gmtime is right on every day that an art_u32_t can count,
\* the days after December 31, 9999 too; for 2^32 values, and for any number of
\* them above MaxDays.
THEOREM EveryDateRight == Calendar => []GmtimeIsRight
<1>1. Dated => GmtimeIsRight
  <2> SUFFICES ASSUME Dated, day < Word PROVE GmtimeIsRight
    BY DEF GmtimeIsRight
  <2>1. day \in Nat /\ Broken(day) = date
    BY DEF Dated
  <2>2. SecOf(day, day % 86400) = IF date = End /\ day > MaxDays THEN 86399 ELSE day % 86400
    <3>1. day > MaxDays => date = End
      BY <2>1, LastDate DEF MaxDays
    <3>2. Narrowed(day) = day
      BY <2>1, NotNarrowed
    <3>. QED BY <3>1, <3>2 DEF SecOf
  <2>3. TimeKept(day)
    BY <2>1, TimeRight, Zenon
  <2>. QED BY <2>1, <2>2, <2>3 DEF GmtimeIsRight, TimeKept
<1>. QED BY <1>1, CalendarKept, PTL

=============================================================================
