----------------------------- MODULE LogsProofs -----------------------------
(***************************************************************************)
(* Proofs about Logs and Message for any number of logs, levels and        *)
(* writers and for any size of the buffer.                                 *)
(***************************************************************************)
EXTENDS Logs, TLAPS

\* The types, and nothing points to a log that is not made yet.
Typed ==
  /\ made \in 0 .. LogCount
  /\ log \in [Ids -> [level : Levels, next : 0 .. LogCount, fd : Nat, named : BOOLEAN]]
  /\ owner \in Seq(Ids)
  /\ \A i \in Ids : log[i].next # 0 => i \in Made /\ log[i].next \in Made

\* What art_log_add is about to link comes behind the place where it is.
Adding ==
  /\ adding \in [stage : {"out", "walk", "link"}, at : 0 .. LogCount, log : 0 .. LogCount]
  /\ adding.stage # "out" => adding.at \in Made /\ adding.log \in Made
  /\ adding.stage = "walk" => log[adding.at].level >= log[adding.log].level
  /\ adding.stage = "link" => log[adding.at].level > log[adding.log].level

Ordered == Typed /\ Adding /\ Descends

\* The message: within the buffer until the line ends.
Inside ==
  /\ message \in [for : {"none", "stderr", "logs"}, stage : {"text", "line", "done", "crashed"},
                  at : Nat, cut : BOOLEAN]
  /\ message.stage \in {"text", "line"} => message.at <= Room /\ message.for # "none"
  /\ MessageFits

LEMMA NumbersInside == ASSUME NEW at \in Nat, NEW n \in Numbers(at) PROVE n \in 0 .. Room
<1> \A w \in Widths : w \in Nat
  BY MessageAssumption
<1>1. ASSUME NEW a \in Nat, NEW w \in Widths PROVE Fraction(a, w) \in 0 .. Room
  BY MessageAssumption DEF Fraction, Number, Clamped
<1>2. ASSUME NEW sign \in {0, 1}, NEW w \in Widths PROVE Number(at + sign, w) \in 0 .. Room
  BY MessageAssumption DEF Number, Clamped
<1>3. ASSUME NEW sign \in {0, 1}, NEW w \in Widths, NEW v \in Widths
      PROVE  Fraction(Number(at + sign, w), v) \in 0 .. Room
  BY <1>1, <1>2
<1> QED
  BY <1>2, <1>3 DEF Numbers

LEMMA InsideKept == ASSUME Inside, MessageNext PROVE Inside'
<1> \A w \in Widths : w \in Nat
  BY MessageAssumption
<1> Room \in Nat /\ message.at \in Nat
  BY MessageAssumption DEF Inside
<1>0. Directive \/ Pointer \/ Errno \/ NoErrno \/ Newline => message.for # "none" /\ message.at <= Room
  BY DEF Directive, Pointer, Errno, NoErrno, Newline, Inside
<1>1. CASE Begin
  <2>1. PICK for \in {"stderr", "logs"}, at \in Prefixes :
          message' = [for |-> for, stage |-> "text", at |-> at, cut |-> FALSE]
    BY <1>1 DEF Begin
  <2>2. at \in 0 .. Room
    BY MessageAssumption
  <2> QED
    BY <2>1, <2>2 DEF Inside, MessageFits
<1>2. CASE Directive
  <2>1. PICK at \in {message.at + 1} \cup Numbers(message.at) \cup {Clamped(message.at + w) : w \in Widths} :
          To("text", at, FALSE)
    BY <1>2 DEF Directive
  <2>2. message.at < Room
    BY <1>2 DEF Directive
  <2>3. at \in 0 .. Room
    BY <2>1, <2>2, NumbersInside DEF Clamped
  <2> QED
    BY <1>0, <1>2, <2>1, <2>3 DEF Inside, MessageFits, To
<1>3. CASE Pointer
  <2>1. CASE message.at + 2 <= Room
    <3>1. PICK w \in Widths : To("text", Number(message.at + 2, w), FALSE)
      BY <1>3, <2>1 DEF Pointer, To
    <3>2. Number(message.at + 2, w) \in 0 .. Room
      BY DEF Number, Clamped
    <3> QED
      BY <1>0, <1>3, <3>1, <3>2 DEF Inside, MessageFits, To
  <2>2. CASE message.at + 2 > Room
    <3>1. message.at + 2 = Room + 1 /\ To("crashed", message.at + 2, FALSE)
      BY <1>3, <2>2 DEF Pointer, To
    <3> QED
      BY <1>0, <1>3, <3>1 DEF Inside, MessageFits, To
  <2> QED
    BY <2>1, <2>2
<1>4. CASE Errno
  <2> DEFINE at == IF message.at > Room - Reserve THEN Room - Reserve + 3 ELSE message.at
             end(code, text) == Clamped(Clamped(at + 4 + code) + text)
             last(code, text) == IF end(code, text) < Room THEN end(code, text) + 1 ELSE end(code, text)
  <2>1. PICK code \in Widths, text \in Widths : To("line", last(code, text), at + 4 + code > Room)
    BY <1>4 DEF Errno
  <2>2. Reserve \in Nat /\ Reserve <= Room /\ code + 7 <= Reserve
    BY MessageAssumption
  <2>3. at \in Nat /\ (at + 4 + code > Room) = FALSE
    BY <2>2
  <2>4. end(code, text) \in 0 .. Room
    BY <2>3 DEF Clamped
  <2>5. last(code, text) \in 0 .. Room
    BY <2>4
  <2>6. To("line", last(code, text), FALSE)
    BY <2>1, <2>3 DEF To
  <2> HIDE DEF last
  <2> QED
    BY <1>0, <1>4, <2>5, <2>6 DEF Inside, MessageFits, To
<1>5. CASE NoErrno
  BY <1>0, <1>5 DEF Inside, MessageFits, To, NoErrno
<1>6. CASE Newline
  <2> DEFINE at == IF message.for = "stderr" THEN Clamped(message.at + 1) ELSE message.at + 1
  <2>1. To("done", at, FALSE) /\ message.for \in {"stderr", "logs"}
    BY <1>0, <1>6 DEF Newline, Inside
  <2>2. CASE message.for = "stderr"
    BY <1>0, <1>6, <2>1, <2>2 DEF Inside, MessageFits, To, Clamped
  <2>3. CASE message.for = "logs"
    BY <1>0, <1>6, <2>1, <2>3 DEF Inside, MessageFits, To
  <2> QED
    BY <2>1, <2>2, <2>3
<1> QED
  BY <1>1, <1>2, <1>3, <1>4, <1>5, <1>6 DEF MessageNext

-----------------------------------------------------------------------------

\* A step that makes a log or none: the new one is in no list and adds none.
LEMMA InitKeeps ==
  ASSUME Ordered, FdOwned, made < LogCount, UNCHANGED adding,
         NEW level \in Levels,
         Crash \/ Refused \/ StderrLog \/ FileLog(level)
  PROVE  Ordered' /\ FdOwned'
<1> USE LogsAssumption
<1>1. ASSUME UNCHANGED <<made, log, owner>> PROVE Ordered' /\ FdOwned'
  BY <1>1 DEF Ordered, Typed, Adding, Descends, FdOwned, Made
<1>2. ASSUME NEW l \in Levels, NEW fd \in Nat, NEW named \in BOOLEAN, made' = made + 1,
             log' = [log EXCEPT ![made + 1] = [level |-> l, next |-> 0, fd |-> fd, named |-> named]],
             \/ owner' = owner /\ (~named \/ fd = Stderr)
             \/ owner' = Append(owner, made + 1) /\ fd = Len(owner) + 1
      PROVE  Ordered' /\ FdOwned'
  <2> DEFINE new == [level |-> l, next |-> 0, fd |-> fd, named |-> named]
  <2>1. /\ made + 1 \in Ids /\ made' = made + 1 /\ made' \in 0 .. LogCount
        /\ made + 1 \notin Made /\ Made' = Made \cup {made + 1} /\ Made \subseteq Ids
    BY <1>2 DEF Ordered, Typed, Made, Ids
  <2>2. /\ log'[made + 1] = new
        /\ \A i \in Ids \ {made + 1} : log'[i] = log[i]
    BY <1>2, <2>1 DEF Ordered, Typed
  <2>3. log' \in [Ids -> [level : Levels, next : 0 .. LogCount, fd : Nat, named : BOOLEAN]]
    BY <1>2, <2>1 DEF Ordered, Typed
  <2>4. /\ owner \in Seq(Ids) /\ owner' \in Seq(Ids) /\ DOMAIN owner \subseteq DOMAIN owner'
        /\ \A k \in DOMAIN owner : owner'[k] = owner[k]
    <3>1. CASE owner' = owner
      BY <3>1 DEF Ordered, Typed
    <3>2. CASE owner' = Append(owner, made + 1)
      BY <2>1, <3>2 DEF Ordered, Typed
    <3> QED
      BY <1>2, <3>1, <3>2
  <2>5. \A i \in Ids : log'[i].next # 0 => i \in Made /\ log'[i].next = log[i].next /\ log[i].next \in Made
    BY <2>1, <2>2 DEF Ordered, Typed
  <2>6. \A i \in Made : log'[i] = log[i]
    BY <2>1, <2>2
  <2>7. Typed'
    BY <2>1, <2>3, <2>4, <2>5 DEF Typed
  <2>8. Adding'
    BY <2>1, <2>6 DEF Ordered, Adding
  <2>9. Descends'
    BY <2>5, <2>6 DEF Ordered, Descends
  <2>10. FdOwned'
    <3> SUFFICES ASSUME NEW i \in Made', log'[i].named, log'[i].fd # Stderr
                 PROVE  log'[i].fd \in DOMAIN owner' /\ owner'[log'[i].fd] = i
      BY DEF FdOwned
    <3>1. CASE i \in Made
      BY <2>4, <2>6, <3>1 DEF FdOwned
    <3>2. CASE i = made + 1
      BY <1>2, <2>1, <2>2, <2>4, <3>2
    <3> QED
      BY <2>1, <3>1, <3>2
  <2> QED
    BY <2>7, <2>8, <2>9, <2>10 DEF Ordered
<1>3. Stderr \in Nat /\ 0 \in Levels /\ Len(owner) \in Nat
  BY DEF Stderr, Levels, Ordered, Typed
<1>4. CASE Crash \/ Refused
  BY <1>1, <1>4 DEF Crash, Refused
<1>5. CASE StderrLog
  BY <1>1, <1>2, <1>3, <1>5 DEF StderrLog, Returned, FreesUnset, Crash, Refused
<1>6. CASE Opened(level)
  <2>1. PICK fd \in Nat : fd = Len(owner) + 1
    BY <1>3
  <2>2. made' = made + 1 /\ owner' = Append(owner, made + 1)
    BY <1>6 DEF Opened, Returned
  <2>3. log' = [log EXCEPT ![made + 1] = [level |-> level, next |-> 0, fd |-> fd, named |-> TRUE]]
    BY <1>6, <2>1 DEF Opened, Returned
  <2> QED
    BY <1>2, <2>1, <2>2, <2>3
<1>7. CASE OpenedUnnamed(level)
  <2>1. PICK fd \in Nat : fd = Len(owner) + 1
    BY <1>3
  <2>2. made' = made + 1 /\ owner' = owner
    BY <1>7 DEF OpenedUnnamed, Returned
  <2>3. log' = [log EXCEPT ![made + 1] = [level |-> level, next |-> 0, fd |-> fd, named |-> FALSE]]
    BY <1>7, <2>1 DEF OpenedUnnamed, Returned
  <2> QED
    BY <1>2, <2>2, <2>3
<1>8. CASE NotOpened(level)
  BY <1>1, <1>2, <1>3, <1>8 DEF NotOpened, Returned, Refused
<1>9. CASE NoPrefix(level)
  <2>1. CASE Crash
    BY <1>1, <2>1 DEF Crash
  <2>2. ASSUME NEW fd \in 0 .. Len(owner) + 1, Returned(level, fd, FALSE), owner' = owner
        PROVE  Ordered' /\ FdOwned'
    <3>1. fd \in Nat
      BY <1>3
    <3>2. log' = [log EXCEPT ![made + 1] = [level |-> level, next |-> 0, fd |-> fd, named |-> FALSE]]
      BY <2>2 DEF Returned
    <3> QED
      BY <1>2, <2>2, <3>1, <3>2 DEF Returned
  <2> QED
    BY <1>9, <2>1, <2>2 DEF NoPrefix
<1> QED
  BY <1>4, <1>5, <1>6, <1>7, <1>8, <1>9 DEF FileLog

\* One store into a list: next of p becomes n, which lies lower.
LEMMA StoreKeeps ==
  ASSUME Typed, Descends, FdOwned, UNCHANGED <<made, owner>>,
         NEW p \in Made, NEW STATE n, n \in Made \/ n = 0,
         n # 0 => log[n].level < log[p].level,
         log' = [log EXCEPT ![p].next = n]
  PROVE  /\ Typed' /\ Descends' /\ FdOwned'
         /\ \A i \in Ids : log'[i].level = log[i].level
<1> USE LogsAssumption
<1>1. p \in Ids /\ Made \subseteq Ids /\ Made' = Made /\ n \in 0 .. LogCount
  BY DEF Typed, Made, Ids
<1>2. /\ log' \in [Ids -> [level : Levels, next : 0 .. LogCount, fd : Nat, named : BOOLEAN]]
      /\ log'[p] = [log[p] EXCEPT !.next = n]
      /\ \A i \in Ids \ {p} : log'[i] = log[i]
  BY <1>1 DEF Typed
<1>3. \A i \in Ids : /\ log'[i].level = log[i].level /\ log'[i].fd = log[i].fd
                     /\ log'[i].named = log[i].named
                     /\ log'[i].next = IF i = p THEN n ELSE log[i].next
  BY <1>1, <1>2 DEF Typed
<1>4. Typed'
  BY <1>1, <1>2, <1>3 DEF Typed
<1>5. Descends'
  BY <1>1, <1>3 DEF Descends, Typed
<1>6. FdOwned'
  BY <1>1, <1>3 DEF FdOwned
<1> QED
  BY <1>3, <1>4, <1>5, <1>6

\* A step of art_log_add that stores nothing.
LEMMA SearchKeeps ==
  ASSUME Ordered, FdOwned, UNCHANGED <<made, log, owner>>, Adding' PROVE Ordered' /\ FdOwned'
BY DEF Ordered, Typed, Descends, FdOwned, Made

LEMMA LogsKept == ASSUME Ordered, FdOwned, LogsNext PROVE Ordered' /\ FdOwned'
<1> USE LogsAssumption
<1> Made \subseteq Ids
  BY DEF Ordered, Typed, Made, Ids
<1> \A i \in Ids : log[i].level \in Nat
  BY DEF Ordered, Typed, Levels
<1> 0 \notin Made
  BY DEF Made
<1>1. CASE StrerrorInit
  BY <1>1 DEF StrerrorInit, Ordered, Typed, Adding, Descends, FdOwned, Made
<1>2. CASE LogInit
  <2>1. PICK level \in Levels : Crash \/ Refused \/ StderrLog \/ FileLog(level)
    BY <1>2 DEF LogInit, FreesUnset
  <2> QED
    BY <1>2, <2>1, InitKeeps DEF LogInit
<1>3. ASSUME NEW h \in Ids, NEW a \in Ids, AddCall(h, a) PROVE Ordered' /\ FdOwned'
  <2>1. /\ UNCHANGED <<made, log, owner>> /\ h \in Made /\ a \in Made
        /\ log[h].level >= log[a].level
        /\ adding' = [stage |-> "walk", at |-> h, log |-> a]
    BY <1>3 DEF AddCall
  <2>2. Adding'
    BY <2>1 DEF Adding, Made, Ids
  <2> QED
    BY <2>1, <2>2, SearchKeeps
<1>4. CASE AddWalk
  <2> DEFINE p == adding.at
             a == adding.log
             n == log[p].next
  <2>1. /\ p \in Made /\ a \in Made /\ log[p].level >= log[a].level
        /\ UNCHANGED <<made, owner>> /\ n \in Made \cup {0}
    BY <1>4 DEF AddWalk, Ordered, Adding, Typed
  <2> Typed /\ Adding /\ LogCount \in Nat
    BY LogsAssumption DEF Ordered
  <2>2. CASE adding' = NotAdding /\ log' = log
    <3>1. Adding'
      BY <2>2 DEF NotAdding, Adding
    <3> QED
      BY <2>1, <2>2, <3>1, SearchKeeps
  <2>3. CASE n # 0 /\ Precedes(log[a].level, log[n].level) /\ log' = TailKept(p, a)
             /\ log[p].level # log[a].level /\ adding' = [adding EXCEPT !.stage = "link"]
    <3>1. Typed' /\ Descends' /\ FdOwned' /\ \A i \in Ids : log'[i].level = log[i].level
      BY <2>1, <2>3, StoreKeeps DEF TailKept, Precedes, Ordered
    <3>2. adding'.stage = "link" /\ adding'.at = p /\ adding'.log = a /\ Made' = Made
      BY <2>1, <2>3 DEF Adding, Made
    <3>3. adding' \in [stage : {"out", "walk", "link"}, at : 0 .. LogCount, log : 0 .. LogCount]
      BY <2>3 DEF Adding
    <3>4. Adding'
      BY <2>1, <2>3, <3>1, <3>2, <3>3 DEF Adding
    <3> QED
      BY <3>1, <3>4 DEF Ordered
  <2>4. CASE n # 0 /\ ~Precedes(log[a].level, log[n].level) /\ log' = log
             /\ adding' = [adding EXCEPT !.at = n]
    <3>1. adding'.stage = "walk" /\ adding'.at = n /\ adding'.log = a /\ Made' = Made
      BY <1>4, <2>1, <2>4 DEF AddWalk, Adding, Made
    <3>2. log[n].level >= log[a].level
      BY <2>1, <2>4 DEF Precedes
    <3>3. adding' \in [stage : {"out", "walk", "link"}, at : 0 .. LogCount, log : 0 .. LogCount]
      <4>1. n \in 0 .. LogCount
        BY <2>1 DEF Typed, Made
      <4> HIDE DEF n
      <4> QED
        BY <2>4, <4>1 DEF Adding
    <3>4. Adding'
      BY <2>1, <2>4, <3>1, <3>2, <3>3 DEF Adding
    <3> QED
      BY <2>1, <2>4, <3>4, SearchKeeps
  <2>5. CASE log[p].level # log[a].level /\ log' = log /\ adding' = [adding EXCEPT !.stage = "link"]
    <3>1. adding'.stage = "link" /\ adding'.at = p /\ adding'.log = a /\ Made' = Made
      BY <2>1, <2>5 DEF Adding, Made
    <3>2. adding' \in [stage : {"out", "walk", "link"}, at : 0 .. LogCount, log : 0 .. LogCount]
      BY <2>5 DEF Adding
    <3>3. Adding'
      BY <2>1, <2>5, <3>1, <3>2 DEF Adding
    <3> QED
      BY <2>1, <2>5, <3>3, SearchKeeps
  <2> QED
    BY <1>4, <2>2, <2>3, <2>4, <2>5 DEF AddWalk
<1>5. CASE AddLink
  <2>1. /\ adding.at \in Made /\ adding.log \in Made
        /\ log[adding.log].level < log[adding.at].level
    BY <1>5 DEF AddLink, Ordered, Adding
  <2>2. Typed' /\ Descends' /\ FdOwned'
    BY <1>5, <2>1, StoreKeeps DEF AddLink, Ordered
  <2> QED
    BY <1>5, <2>2 DEF AddLink, NotAdding, Ordered, Adding
<1>6. ASSUME NEW w \in Writers, NEW h \in Ids, NEW level \in Levels, WriteCall(w, h, level)
      PROVE  Ordered' /\ FdOwned'
  BY <1>6 DEF WriteCall, Ordered, Typed, Adding, Descends, FdOwned, Made
<1>7. ASSUME NEW w \in Writers, WriteStep(w) PROVE Ordered' /\ FdOwned'
  BY <1>7 DEF WriteStep, Ordered, Typed, Adding, Descends, FdOwned, Made
<1> QED
  BY <1>1, <1>2, <1>3, <1>4, <1>5, <1>6, <1>7 DEF LogsNext

-----------------------------------------------------------------------------

LEMMA Invariant == Spec => [](Ordered /\ FdOwned /\ Inside)
<1> DEFINE I == Ordered /\ FdOwned /\ Inside
<1>0. NoMessage \in [for : {"none", "stderr", "logs"}, stage : {"text", "line", "done", "crashed"},
                     at : Nat, cut : BOOLEAN]
  BY DEF NoMessage
<1>1. Init => I
  <2> SUFFICES ASSUME Init PROVE I
    OBVIOUS
  <2>1. Ordered /\ FdOwned
    BY LogsAssumption DEF Init, LogsInit, NotAdding, Ordered, Typed, Adding, Descends, FdOwned,
                          Made, Ids, Levels, Stderr
  <2>2. Inside
    BY <1>0, MessageAssumption DEF Init, MessageInit, NoMessage, Inside, MessageFits
  <2> QED
    BY <2>1, <2>2
<1>2. I /\ [Next]_vars => I'
  <2> SUFFICES ASSUME I, [Next]_vars PROVE I'
    OBVIOUS
  <2>1. CASE UNCHANGED vars
    BY <2>1 DEF vars, logVars, Ordered, Typed, Adding, Descends, FdOwned, Inside, MessageFits, Made
  <2>2. CASE MessageNext /\ UNCHANGED logVars
    <3>1. Ordered' /\ FdOwned'
      BY <2>2 DEF logVars, Ordered, Typed, Adding, Descends, FdOwned, Made
    <3> QED
      BY <2>2, <3>1, InsideKept
  <2>3. CASE LogsNext /\ message' = NoMessage
    <3>1. Inside'
      BY <1>0, <2>3, MessageAssumption DEF NoMessage, Inside, MessageFits
    <3> QED
      BY <2>3, <3>1, LogsKept
  <2> QED
    BY <2>1, <2>2, <2>3 DEF Next
<1> QED
  BY <1>1, <1>2, PTL DEF Spec

\* Whatever logs are made and linked, every list goes down in level: the
\* search of art_log_add never leaves a log behind an equal or a lower one.
THEOREM ListsDescend == Spec => []Descends
<1> Ordered => Descends
  BY DEF Ordered
<1> QED
  BY Invariant, PTL

\* A log that art_file_open gave a name owns its descriptor, whatever files
\* failed to open or to be named before and after it.
THEOREM FilesOwned == Spec => []FdOwned
BY Invariant, PTL

\* No text, number or error code of any length takes a message further than
\* one byte past the buffer, and that only by the newline of a log's message
\* and by %p; the error code fits whatever comes before it.
THEOREM MessagesFit == Spec => []MessageFits
<1> Inside => MessageFits
  BY DEF Inside
<1> QED
  BY Invariant, PTL

=============================================================================
