-------------------------------- MODULE Logs --------------------------------
(***************************************************************************)
(* The logs of art_log.c: how art_log_init makes one and what it leaves    *)
(* behind when it fails, the lists that art_log_add orders by level, and   *)
(* the delivery of a message along such a list while another thread adds   *)
(* to it.  Nothing is locked; one thread at a time adds.  art_file_open    *)
(* (art_file.c) is part of art_log_init.                                   *)
(*                                                                         *)
(* A log counts by the order in which it was made, 0 stands for NULL.  So  *)
(* do the descriptors of the files: the kernel gives the lowest free one.  *)
(***************************************************************************)
EXTENDS Message, Sequences

CONSTANTS
  LogCount,   \* how many logs are made
  MaxLevel,   \* ART_LOG_DEBUG; level 0 is ART_LOG_STDERR
  Writers     \* threads that write messages

ASSUME LogsAssumption == LogCount \in Nat /\ MaxLevel \in Nat

VARIABLES
  errlist,   \* art_sys_errlist: "none", "built" or, once freed, "dangling"
  made,      \* how many logs there are
  log,       \* the logs: level, next, fd, and whether file.name was stored
  owner,     \* owner[fd] is the log whose file has descriptor fd
  adding,    \* art_log_add: the step it is at, where in the list, and what it adds
  walk,      \* art_log_error_core of each writer: the log it is at, the level of
             \* the message, how many logs got it, and whether one is due to
  alive      \* FALSE once the program went down

logVars == <<errlist, made, log, owner, adding, walk, alive>>
vars == <<message, logVars>>

Stderr == 0
Ids == 1 .. LogCount
Levels == 0 .. MaxLevel
Made == 1 .. made

NotAdding == [stage |-> "out", at |-> 0, log |-> 0]

LogsInit ==
  /\ errlist = "none" /\ made = 0 /\ owner = << >> /\ alive = TRUE
  /\ log = [i \in Ids |-> [level |-> 0, next |-> 0, fd |-> Stderr, named |-> FALSE]]
  /\ adding = NotAdding
  /\ walk = [w \in Writers |-> [at |-> 0, level |-> 0, got |-> 0, due |-> FALSE]]

-----------------------------------------------------------------------------
(* art_log_init *)

\* art_strerror_init: what it leaves in art_sys_errlist and whether it says OK.
\* Without memory for a text it frees the list but keeps the pointer, and the
\* next call takes the pointer for a list.
ErrlistTo(list, ok) ==
  IF errlist # "none" THEN list = errlist /\ ok
  ELSE <<list, ok>> \in {<<"built", TRUE>>, <<"none", FALSE>>, <<"dangling", FALSE>>}

StrerrorInit ==
  /\ alive
  /\ \E list \in {"built", "none", "dangling"}, ok \in BOOLEAN : ErrlistTo(list, ok) /\ errlist' = list
  /\ UNCHANGED <<made, log, owner, adding, walk, alive>>

Crash == alive' = FALSE /\ UNCHANGED <<made, log, owner>>

Refused == UNCHANGED <<made, log, owner, alive>>

\* The failure path frees p, which is not set on this way: whatever the stack
\* holds is NULL or brings the program down.
FreesUnset == Crash \/ Refused

\* The log that art_log_init returns.
Returned(level, fd, named) ==
  /\ made' = made + 1
  /\ log' = [log EXCEPT ![made + 1] = [level |-> level, next |-> 0, fd |-> fd, named |-> named]]
  /\ UNCHANGED alive

\* A log of level 0: no file, only a name to store.
StderrLog == FreesUnset \/ (Returned(0, Stderr, TRUE) /\ UNCHANGED owner)

\* art_file_open succeeds.
Opened(level) == Returned(level, Len(owner) + 1, TRUE) /\ owner' = Append(owner, made + 1)

\* It has no memory for the name: it closes the file but leaves the number in
\* file.fd, which art_log_init therefore does not replace by stderr.
OpenedUnnamed(level) == Returned(level, Len(owner) + 1, FALSE) /\ UNCHANGED owner

\* The log keeps the descriptor that art_open refused (for the mutant runs).
NotOpenedKept(level) ==
  Refused \/ (Returned(level, Len(owner) + 1, TRUE) /\ UNCHANGED owner)

\* art_open fails: the log goes to stderr, if there is memory for that name.
NotOpened(level) == Refused \/ (Returned(level, Stderr, TRUE) /\ UNCHANGED owner)

\* An empty prefix leaves p unset: art_file_open refuses a NULL without a
\* value for file.fd, and fails with anything else, which is then freed.
NoPrefix(level) ==
  Crash \/ \E fd \in 0 .. Len(owner) + 1 : Returned(level, fd, FALSE) /\ UNCHANGED owner

\* Without memory for the path art_memzero writes through NULL.
FileLog(level) == Crash \/ Opened(level) \/ OpenedUnnamed(level) \/ NotOpened(level) \/ NoPrefix(level)

\* A level above MaxLevel is refused at once and changes nothing.
LogInit ==
  /\ alive /\ made < LogCount
  /\ \E list \in {"built", "none", "dangling"}, ok \in BOOLEAN, level \in Levels :
       /\ ErrlistTo(list, ok) /\ errlist' = list
       /\ \/ ~ok /\ Refused
          \/ ok /\ FreesUnset
          \/ ok /\ level = 0 /\ StderrLog
          \/ ok /\ level # 0 /\ FileLog(level)
  /\ UNCHANGED <<adding, walk>>

-----------------------------------------------------------------------------
(* art_log_add.  It only prints that it does not allow a log of a higher    *)
(* level than the first one; callers heed that.                             *)

AddCall(h, a) ==
  /\ alive /\ adding.stage = "out"
  /\ {h, a} \subseteq Made /\ log[h].level >= log[a].level
  /\ adding' = [stage |-> "walk", at |-> h, log |-> a]
  /\ UNCHANGED <<errlist, made, log, owner, walk, alive>>

\* An equal level does not end the search (for the mutant runs).
PrecedesEqual(k, l) == l <= k

\* The log goes in before a log of level l when it is of level k.
Precedes(k, l) == l < k

\* p->next = a comes first, and the tail is lost (for the mutant runs).
TailLost(p, a) == [log EXCEPT ![p].next = a]

\* a->next = p->next
TailKept(p, a) == [log EXCEPT ![a].next = log[p].next]

\* Whoever was to find a log behind a need not, once a has another next.
Forgotten(a) ==
  [w \in Writers |-> [walk[w] EXCEPT !.due = @ /\ log[a].next = 0]]

\* One round of the loop, down to its first store.
AddWalk ==
  /\ alive /\ adding.stage = "walk"
  /\ LET p == adding.at  a == adding.log  n == log[adding.at].next
     IN  \/ /\ log[p].level = log[a].level
            /\ adding' = NotAdding
            /\ UNCHANGED <<log, walk>>
         \/ /\ log[p].level # log[a].level /\ n # 0 /\ Precedes(log[a].level, log[n].level)
            /\ log' = TailKept(p, a) /\ walk' = Forgotten(a)
            /\ adding' = [adding EXCEPT !.stage = "link"]
         \/ /\ log[p].level # log[a].level /\ n # 0 /\ ~Precedes(log[a].level, log[n].level)
            /\ adding' = [adding EXCEPT !.at = n]
            /\ UNCHANGED <<log, walk>>
         \/ /\ log[p].level # log[a].level /\ n = 0
            /\ adding' = [adding EXCEPT !.stage = "link"]
            /\ UNCHANGED <<log, walk>>
  /\ UNCHANGED <<errlist, made, owner, alive>>

\* p->next = a
AddLink ==
  /\ alive /\ adding.stage = "link"
  /\ log' = [log EXCEPT ![adding.at].next = adding.log]
  /\ adding' = NotAdding
  /\ UNCHANGED <<errlist, made, owner, walk, alive>>

-----------------------------------------------------------------------------
(* art_log_err: its guard, and the loop of art_log_error_core *)

\* The lists along which some log is reached, the shortest first.
Behind[k \in 0 .. LogCount, i \in 0 .. LogCount] ==
  IF i = 0 THEN {} ELSE IF k = 0 THEN {i} ELSE {i} \cup Behind[k - 1, log[i].next]

Due(h, level) == \E i \in Behind[LogCount, h] : log[i].level = level

WriteCall(w, h, level) ==
  /\ alive /\ walk[w].at = 0
  /\ h \in Made /\ log[h].level >= level
  /\ walk' = [walk EXCEPT ![w] = [at |-> h, level |-> level, got |-> 0, due |-> Due(h, level)]]
  /\ UNCHANGED <<errlist, made, log, owner, adding, alive>>

\* Nobody sets the handler of a log, which art_log_init makes NULL.
WriteStep(w) ==
  /\ alive /\ walk[w].at # 0
  /\ LET l == log[walk[w].at]
     IN  walk' = [walk EXCEPT ![w].at = l.next,
                              ![w].level = IF l.next = 0 THEN 0 ELSE @,
                              ![w].got = IF l.level = walk[w].level THEN @ + 1 ELSE @]
  /\ UNCHANGED <<errlist, made, log, owner, adding, alive>>

-----------------------------------------------------------------------------

LogsNext ==
  \/ StrerrorInit
  \/ LogInit
  \/ \E h \in Ids, a \in Ids : AddCall(h, a)
  \/ AddWalk
  \/ AddLink
  \/ \E w \in Writers, h \in Ids, level \in Levels : WriteCall(w, h, level)
  \/ \E w \in Writers : WriteStep(w)

Init == MessageInit /\ LogsInit

\* A message lies on the stack of the call that makes it and touches nothing
\* of the logs: it is followed where no list exists yet, which loses no step
\* of either.
Next ==
  \/ made = 0 /\ MessageNext /\ UNCHANGED logVars
  \/ LogsNext /\ message' = NoMessage

\* The loop of art_log_error_core waits for nothing.
Spec == Init /\ [][Next]_vars /\ \A w \in Writers : WF_logVars(WriteStep(w))

-----------------------------------------------------------------------------
(* Properties *)

\* Every list goes down in level, strictly, whatever lists the program links
\* into one another: no list has two logs of a level and none is a ring.
Descends == \A i \in Ids : log[i].next # 0 => log[log[i].next].level < log[i].level

\* A message comes to its end, and the log of its level that the list had when
\* it set out gets it once, though logs are added meanwhile.
Delivered ==
  \A w \in Writers :
    walk[w].at # 0 ~> \/ ~alive
                      \/ /\ walk[w].at = 0 /\ walk[w].got <= 1
                         /\ walk[w].due => walk[w].got = 1

\* A log whose file has its name writes to stderr or to a file of its own; one
\* that art_file_open left without a name may write to another log's file.
FdOwned ==
  \A i \in Made :
    log[i].named /\ log[i].fd # Stderr => log[i].fd \in DOMAIN owner /\ owner[log[i].fd] = i

=============================================================================
