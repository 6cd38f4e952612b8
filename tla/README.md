# Arkal: models and proofs

Arkal is a C system library in the manner of nginx: a spin lock, a memory pool,
containers, cached times, files, logs, a configuration file reader and some
unfinished process and socket code, all under `src/Arkal-System/ark_core`. This
directory holds TLA+ models of all of it that has behaviour, the TLC runs that
check them and machine-checked proofs about the lock, the memory pool and its
threads, the list and the array, the time cache, the mapped files, the configuration
reader and the logs.

## The system

| part | source | state | operations | hard because |
|---|---|---|---|---|
| atomic | `atomic/art_atomic.{c,h}` | a lock word per client | `art_spinlock`, `art_trylock`, `art_unlock` | test and swap are two accesses; no fairness |
| memory | `memory/art_palloc.{c,h}` | chain of blocks with bump pointers, `current`, large and cleanup lists, lock | create, `palloc`, `pnalloc`, `pmemalign`, `pfree`, `cleanup_add`, reset, `manage_small`, destroy | long call sequences, alignment, failure paths, what takes the lock and what does not |
| art_data: tree | `art_data/art_rbtree.{c,h}`, end of `art_str.c` | nodes the caller owns, a shared sentinel | insert, delete, min, max, suc, pre, string lookup | rebalancing, overflow of timer keys, temporary parent of the sentinel |
| art_data: list, array | `art_data/art_list.c`, `art_array.c` | parts and elements in pool memory | create, push, npush, delete | growth, failing allocations, adjacent regions |
| art_data: strings | `art_data/art_str.c` | none | formatting, conversion, copying | boundaries of buffers |
| times | `times/art_times.{c,h}` | ring of slots, three published pointers, two globals, lock | creation, update, lock-free readers, `art_gmtime` | readers without lock, early return, calendar arithmetic |
| file | `file/art_file.c`, `art_filemmap.c` | a descriptor, a window of the file | open, create, read, write, remap, close | failing system calls in the middle |
| syslog | `syslog/art_log.c` | list of logs by level, table of error texts | init, add, write | error paths, order of the list |
| system | `system/art_sys_conf.c` | arrays of blocks and tokens | read and parse a file | parser state between tokens |
| process, socket | `process/`, `socket/` | process title, socket flags | system calls | does not compile: uses `ark_*` names nothing defines |

How they interact: the pool takes the lock of `atomic`; list, array, files and
configuration draw on the pool; the time cache takes its own lock with
`art_trylock`; the logs take their time from the time cache and their texts
from the string formatter; the configuration reads through a mapped file into
arrays. Nothing calls back but the cleanup and log handlers.

What makes each part correct, in a sentence:

* lock: one holder at a time, and nobody waits for a lock that is not in use;
* pool: memory handed out is its caller's alone until it is freed or the pool
  is reset, inside its block, never given back early, and never leaked;
* tree: a red-black tree in the order of its keys, also during rebalancing;
* list: what was pushed and not deleted, in order; array: its elements, each in its
  place, however its memory grows;
* time cache: all published times agree, and stay readable for a turn of the ring;
* calendar: the date of the day;
* files: what is read is the file, what is written arrives, as far as the code
  can write at all;
* logs: a message reaches the log of its level once, the lists stay sorted, a
  log writes to its own file, a message stays in its buffer;
* configuration: the whole file is read; each text is the one written, each value
  goes to the token last named, each token to its block.

## The modules

Abstract specifications: `Mutex`, `Arena`, `SortedSeq`, `Items`, `Row`, `Stream`.
Each says what one component promises; the component's own module has a refinement
mapping (`INSTANCE ... WITH`) and states the abstract `Spec` as a property.

**Spinlock** has one action per access to the lock word: the plain read
(`Test`), the `cmpxchgl` (`Cas`), `sched_yield`, the two steps of the
`art_trylock` macro and the store of `art_unlock`. The pauses between two
attempts are no step: they touch nothing shared. `n`, the back-off counter, is 0
until the first back-off. The stored value is 1 as in all callers.

**Pool** is the pool for one caller at a time, one action per function of
`art_palloc.h`. The variable `pool` is a record with the fields of `art_pool_t`
and of each block's `art_pool_data_t`, under their names in C. The `d.next`
chain is kept as the set `linked` with, for each block, the set `ahead` of those
before it: "first fit from `current`" and "all but the last" are then plain set
expressions. Addresses are offsets into a block. The internal functions
(`PallocSmall`, `PallocBlock`, `PallocLarge`, `Record`) are operators that
return the set of possible results, each a pool and an address or NULL, so that
every allocation from the system may fail and every caller's failure path is
taken. `live` is a ghost: the regions handed out, the pool's own records among
them. Where the C code has no defined behaviour (`memzero(NULL)`, a walk through
a freed or overwritten record) the pool is marked with `fault` and does nothing
more.

**PoolThreads** looks at the same code from the side of the lock: one block of
equal slots, and every access to `d.last` and to the two list heads is a step of a
thread of its own, and so is every record that the walk for an unused one looks at
(`Look`), before it is filled (`Fill`). Only the walk of `art_pfree` is one step:
it looks for a chunk in its caller's hands, which nobody else adds or takes away,
along links that do not change. `Disciplines` says which thread calls what. The
lock is taken in one step, which `Spinlock`'s refinement of `Mutex` allows.

**RBTree** has insertion and deletion, each up to its loop as one action, and
one action per iteration of the loop and for its end. The mirror-image halves of
the C code are one definition with the side as parameter. The order (by value,
by timer, by string) is chosen in `Init`. The tree refines **SortedSeq** with
`due`, the true time of a node, of which the key holds the low bits only; that
timers lie within half of the ring of keys is a guard of `Insert`, as the
comment in the source demands of callers. Rebalancing steps refine to stutters.
When a call returns the sentinel's parent is set to NULL, where the code leaves
it: a call that relied on the old value would fail.

**TimeCache** has one action per store that a reader may see, in the order of
the code. A text of a slot is the second it was made from, or `Torn` while it is
written. A reader keeps a pointer as long as it likes; `lag` counts (up to a
bound) the slots started meanwhile. **Gmtime** computes `art_gmtime` next to a
calendar that turns day by day. The code stores the number of the day in an
`art_u32_t` before it cuts it off at the end of 9999; `Narrowed` is that store, and
`Word` the number of values it has.

**Cells** is the pool as a container sees it: regions cut off a row of cells,
adjacent or after a gap. A zeroed allocation that fails is the program's end
(`Crash`): `art_palloc` and `art_pnalloc` zero what they got before they look at
it. **List** and **Array** are the containers on it. All their allocations are
zeroed but the one of `art_array_creat` for the array's own record, so that the
lines that return NULL after a failed push are never reached. **Containers** lets
both draw on one pool, so that whether an array's regions are adjacent depends on
the list. `Items` is what the list promises: its ghost `call` has the datum a push
returned or a deletion was given, and the answer; a push appends just that datum,
a deletion takes out just that one and says whether it was there. `Row` is what
the array promises: its elements stay, and a push adds behind them.

**FileWindow** is one mapped file: `Open`, `Create`, `Read`, `Write`, `Close`,
and `WriteOn` for each turn of the loop of `art_file_mmap_write`. Offsets stand
for the pointers `start`, `cur` and `end`; what the window was mapped with
(address or `MAP_FAILED`, access) is kept, since the code goes on with it
whatever came of `mmap`. `Remap` returns all that `art_file_mmap_remap` may leave
behind. The last copy of bytes is the variable `moved`: where in the file, and by
how much the user's buffer was off. An access that the memory does not allow sets
`fault`. **Stream** is the promise: bytes go in order, each once, to their place;
how far depends on `Limit`, which for a written file is only the first window.

**Conf** is `art_conf_init` and `art_conf_parse` on top of `FileWindow`. What the
file holds is chosen as the parser gets to it, so every text of a size is read;
a character that belongs to a text is known by its offset, the others by their
class. `scan` has the state of `art_conf_readcommand`: the span from `start` to
`valid`, the blanks behind that, what `buf` holds already and `lf`. `conf` is the
result, with the token that the last name pushed (`last`), through which a value
is stored. `cmds` and `raw` are ghosts: all that was read, of which `Meant` and
`Lists` say what it means without looking at how the parser went about it.

**Message** follows the end of a message through the formatter to its newline,
with lengths in place of texts. **Logs** extends it with the logs: `LogInit` is a
whole call of `art_log_init` with each way it may fail, `art_file_open` included;
`art_log_add` is `AddCall`, a round of its loop (`AddWalk`) and its last store
(`AddLink`), so that a writer's walk (`WriteCall`, `WriteStep`) comes between its
two stores. One thread adds at a time, and no log above the head of its list: the
code prints that it does not allow that, but does it. `due` (a ghost) is whether
the list had a log of the message's level when the walk began.

The `MC*` modules give constants that a `.cfg` cannot express. `SpinlockProofs`,
`PoolProofs`, `PoolThreadsProofs`, `ContainersProofs`, `TimesProofs` (of
`TimeCache` and `Gmtime`), `RBTreeProofs`, `FileProofs` (of `FileWindow` and
`Conf`) and `LogsProofs` hold the theorems. Definitions marked "for the mutant
runs" are plausible errors that the properties are tested against; nothing uses
them.

## The runs

| run | instance | what it shows |
|---|---|---|
| `spinlock` | 3 threads, spin 4 | mutual exclusion, the back-off ends before `spin`, refinement of `Mutex`, a thread that spins for ever does so only while the lock changes hands |
| `pool` | 3 blocks of 112 bytes, 2 chunks, 2 cleanup records, requests of 40 and 41, 1 record looked at for reuse | no overlap, regions inside their block, nothing freed in use, blocks skipped only when exhausted, nothing leaks on any failure path, a chunk has one record, records are not reclaimed under the pool, refinement of `Arena` |
| `pool_threads` | 2 threads, 4 slots, 3 chunks, 2 records looked at for reuse | no slot granted twice, no chunk without a record, no record of freed memory, the lock is given back |
| `rbtree` | 8 nodes by value, 5 by timer or string, keys of 8 values | links, colours, brother of the deletion loop, neighbours, lookup, both loops end, refinement of `SortedSeq` |
| `time_cache` | 2 updaters, 1 reader, 3 slots, 2 seconds | one update at a time, all that is published agrees, texts stay for a turn of the ring, the lock is freed |
| `containers` | 9 cells, 1 gap | refinement of `Items` and of `Row`, every part cut for the list is linked or free to be reused and lies in memory of its own, the array stays in its memory |
| `config` | windows of 2, files of 3 and 5, texts of up to 2 in `buf`, 1 byte behind the buffer | what is parsed is the file, what is built is what the file says, refinement of `Stream` |
| `logs` | 3 logs of 3 levels, 1 writer; a buffer of 14 | lists go down in level, a message reaches its log once while logs are added, a log's descriptor is its own, a message stays in its buffer |
| `gmtime` | every day up to the end of 9999 and 6 more, of which the last 3 are days that the `art_u32_t` of the run does not hold | date and time of day on every day the code supports, and cut off at the last of them on the days after that as long as the `art_u32_t` holds the day; of the others nothing is claimed |
| `pool_overrun` | 2 blocks of 4095 bytes, requests of 4005 | violated: a region past the end of its block |
| `pool_lock` | 2 threads, one uses `art_pmemalign` | violated: the lock is never given back |
| `conf_continuation` | as `config`, files of 3 | violated: a short text is refused as too long |

Why the bounds are enough. Three threads are one that holds the lock and two that
race for it; spin 4 gives two back-offs, the shape of the eleven that 2048 gives.
Blocks of 112 bytes have 40 free bytes behind the pool's header and 80 behind a
block's, so that 40 fits once or twice, aligned or not, and 41 goes to `malloc`;
three blocks are enough for a skipped one, the current one and a new one. The
limits 4, 5 and 15 of the code are 0, 1, 2 or 5, and 0 here: only their order
relative to the number of blocks matters. `MaxIdle` stops `leisure` one above
`LEISURETIMES`, since nothing but `> LEISURETIMES` reads it; `MaxCleanups` bounds
a list that nothing in the code bounds. Three chunks of which the walk for an
unused record looks at two let it find one, come to the end of the list, and stop
before a record it could have used. Eight nodes reach every case of both
rebalancing loops at the root and below it, with an iteration before and after.
Three slots are the least ring in which "the next", "the one before" and "a turn"
differ. A file of 5 in windows of 2 has a first, a middle and a short last window;
three and five characters hold a name, a value, a block and a line's end that is
escaped, and `BufSize` 2 lets a text be short, full and too long. With pages of 1
a created file ends wherever its size says. The byte behind the buffer is one that
the parser's `cur <= end` reads. Three logs of three levels are a head, a log to
insert and a tail; a buffer of 14 with 9 for an error code has room for a prefix,
a text and both ways to end. The constants keep the order of 2048, 50 and the
lengths of numbers that `MessageAssumption` states. Nine cells let an array grow
twice and a list grow once, in each order.

Fairness. Only `Spinlock`, `PoolThreads`, `TimeCache` and `Logs` have it: weak
fairness for the next step of a thread inside a call (in `Logs`, of a walk), that
is, the scheduler runs every thread that can take a step. Nothing is assumed of a
thread outside a call, or of the order in which waiting threads get the lock; so
`art_spinlock` may starve, and `WaitsOnlyWhileContended` says just what remains.
The callers in the repository wait for nothing while they hold a lock.

Deadlock is checked except where the system may stop: a pool whose behaviour has
become undefined, threads whose discipline leaves them nothing to do once the
memory is used up, a list, a parser or a log that has gone through a pointer it
must not use, the calendar's last day.

## The proofs

The theorems are about every value of the constants, from the assumptions stated
in `Spinlock`, `Pool`, `PoolThreads`, `Cells`, `List`, `Array`, `RBTree`,
`TimeCache`, `Gmtime`, `FileWindow`, `Conf`, `Message` and `Logs` (for the pool:
block, chunk and NULL names are different, sizes and limits are natural numbers,
and a pool is created with at least the size of its header; for the tree: finitely
many nodes, none of them the sentinel or NULL, and keys that fit their width; for
the time cache: two slots or more, and a clock that never shows second 0, the mark
of a blank slot; for the calendar: an `art_u32_t` holds the last day of 9999; for
the files: windows and pages are not empty; for the configuration: NULL is no
array of tokens; for messages: an error code and its frame fit what
`art_log_errno` reserves).

* `SpinlockProofs!Typing`, `Exclusion`, `Refinement`: `TypeOK`, mutual exclusion
  and the refinement of `Mutex`, for any threads, any `spin`, with or without
  several processors. `TypeOK /\ LockWordHeld` is inductive: the word alone does
  not say who holds the lock, so the invariant ties the word to the set of
  holders. `StepOfTheWord` classifies every step once, for both theorems.
* `PoolProofs!Typing`, `Separation`, `NothingFreedInUse`, `Refinement`: `TypeOK`,
  no overlap, nothing freed in use, and the refinement of `Arena`. The inductive
  invariant is `TypeOK /\ Sound(pool)`. `NoOverlap` alone is not inductive: a
  bump of `d.last` is harmless only because every live region of the block ends
  at or below `d.last`; freeing an idle block is harmless only because a block
  that holds a live region has `leisure = 0`; and a new block is fresh only
  because every linked block is in `heap`. `Sound` says these three things. The
  lemmas follow the C functions: what `PallocSmall`, `Record` and `Locked`
  guarantee their callers is proved once for each and cited in one step per
  action of `Next`. The proof does not need the regions to end inside their
  block, which for sizes that are no multiple of 16 they do not.
* `PoolProofs!NothingLeaks`, `OneRecordPerChunk`, `NodesKept`: `HeapAccounted`,
  `ChunksRecordedOnce` and `RecordsLive`. The first two are one invariant, since a
  chunk recorded twice would be freed twice, and one handed out without a record
  never. Inside a call the ledger does not balance: from `malloc`
  to `alloc` a chunk has no record, so `Ledger` has a parameter for what is owed,
  and the lemmas say that `Record` settles it with a record or gives it back. In the
  same way `Nodes` has one for a cleanup record cut from the pool and not yet linked
  while `art_palloc` cuts its data. That a new record is none of the old ones
  follows from `Sound`: nothing live ends above `d.last`, and records are not empty.
* `PoolProofs!RegionsEndInside`: `InBlock`, if every pool is created with a
  multiple of 16 below 4095 (`AlignedSizes`). Then aligning cannot take `d.last` past
  the end, so the room is never negative; and a block holds any request of
  `art_palloc` and the pool's own records behind any header. This is the other side of
  the disagreement 1 below.
* `PoolProofs!OnlyExhaustedSkipped`: `SkipsOnlyExhausted`, from an invariant of
  the chain (`Ordered`: `ahead` is a strict total order of the linked blocks) and
  of the counters (`Counted`: from `current` on the failures never grow along the
  chain, since a request that fails counts up every block from `current` on). Only
  the two together say that a block that is passed has none before it that is not.
* `PoolThreadsProofs!PiecesGrantedOnce`, `HeldChunksRecorded`, `RecordsAreLive`:
  the safety properties of `pool_threads`, for any threads, slots, chunks and
  disciplines under the hypothesis `Supported`: at most one thread of a discipline
  frees, and one that calls `art_pmemalign` or `art_pool_cleanup_add` is the only
  one to allocate. It is the use that the lock supports, as the disciplines of the
  run have it: two threads that free may free one record twice, and what links
  without the lock loses records beside anyone else who links. `IInv` says, for
  each program counter, which piece, record or chunk the thread has in hand
  (`Place`), also between finding an unused record and filling it; that what two
  threads have in hand is different (`Exclusive`), and where every chunk in use
  is: in a record, or carried by the one thread that is about to write it
  (`Carried`, `Freed`).
* `ContainersProofs!ListStaysWhole`, `ArrayStaysInItsMemory`,
  `ListImplementsItems`, `ArrayImplementsRow`: all properties of the run
  `containers`, for any memory, gaps and sizes. The model reads the list's chain
  with a recursive function; the invariant says that there is a sequence of parts
  and one of their memory (`Whole`) that the links spell out, and `ChainIs` that
  the function finds just that sequence, by looking at the least place where it
  would not (`LeastNat`). Push puts a part behind the sequence, with a datum that
  no other part has; delete takes out the part that holds the datum it was given.
  That the data of all parts are different makes this just what `Items` allows.
  For the array (`ArrayKept`) its memory, one region or several that follow each
  other, holds `nalloc` elements whether it grew in place or moved. That a region
  cut off for the one container is none of the other's is in both parts: `Cells`
  cuts only what is behind everything cut before.
* `RBTreeProofs!NodesLinked`, `StaysBalanced`, `BrotherIsNode`,
  `NeighboursReturned`, `StringsFound`, `LoopsTerminate`, `ImplementsItsOrder`:
  all properties of the run `rbtree`, for any number of nodes, keys of any width
  and all three orders. The invariant (`SpecIsSound`) gives every node a place
  `ord` from 1 to their number and the two ends of a span of places. A kid's span
  is what its parent's leaves on its side (`Shape`), so that the links spell the
  places out and no cycle fits. The times the nodes are due never fall along the
  places (`Ordered`), and keys and strings are what is left of these times
  (`Keyed`). There is a number of black nodes below each node that both its sides
  agree on, but for one missing on the side of the deletion's node while its loop
  runs (`Even`); and `Fits` says which node may be red under a red parent
  meanwhile: the loop's own, and only that one. A rotation moves the ends of two
  spans and no place (`RotateKeepsShape`); insertion opens a place next to the
  node it hangs the new one on (`Opened`), and deletion closes that of the node it
  takes out (`Closed`), also when another node has moved to where that one was.
  This is what maps each step to one of `SortedSeq`, and the loops' to none. The
  brother in the deletion's loop is a node since it must make up for the missing
  black one. The loops end since the node goes to one with a longer span. The
  walks of the code (down to a place, up to a neighbour) are recursive functions
  in the model; the invariant tells what they find by the least step at which they
  would differ (`WalkSettles`, `InOrderIs`), since each step shortens the span.
* `TimesProofs!Typing`, `Exclusion`, `Agreement`, `Apart`, `Steady`: all
  safety properties of the run `time_cache`, for any number of updaters, readers
  and slots, and a clock that may jump. None is inductive alone. `IInv` says, for
  each step of `art_time_updata`, what the update has stored by then and where
  the three pointers are (`Progress`); what it leaves behind when the lock is
  free (`Rest`), which is where the next update starts from; and, for each
  reader, that a pointer taken `lag` slots ago is `lag` or `lag + 1` slots old
  (`Safe`), since it may have been taken while the next slot was being filled.
  That is why a reader has `Slots - 1` seconds and not `Slots`. That the first
  update never takes the early return, on which nothing is published, needs the
  assumption about second 0.
* `TimesProofs!EveryDateRight`: `GmtimeIsRight`, the calendar's date on every day
  that an `art_u32_t` holds, whatever its width and however far the days are
  looked at. That a day is day `yday` of the year that began on March 1 of `year`
  (`InYear`) determines both (`OneYear`), the code finds such a pair (`YearFound`,
  by the cycles of 400, 100 and 4 years), and the next day is the next in that
  year or the first of the next one (`NextInYear`). What is left is one year, in
  which each of the twelve months begins and ends where the code's two fractions
  say (`Months`, `MonthEnds`). Where the day is narrowed to less than it is, 2^32
  days after 1970, the code's dates begin again at January 1, 1970, and the
  property claims nothing. What is computed after the cut at the end of 9999 stays
  below 2^31.
* `FileProofs!Refinement`: `FileWindow` implements `Stream`, for any files,
  windows and lengths. The invariant ties the window to the last move
  (`Placed`): the next byte is the one at `cur`, in a window that is missing only
  after a failure. No window of a file that is read reaches past its end, and one
  that is used up is the last, unless a call failed (`Reads`); a written file that
  left its first window is mapped read-only, so that the next byte kills the
  program instead of going astray (`Writes`).
* `FileProofs!StreamKept`, `LoadKept`: the reader's use of the file is one that
  `FileWindow` allows, and the buffer holds what was read. `readed` is `moved.to`,
  which together with the window's invariant bounds it by the size of the buffer,
  though every call asks for the whole buffer's size again.
* `FileProofs!FileObeyed`: `AsWritten`, for files, texts and blocks of any size,
  and whichever allocations fail. The property counts, in the text that was read,
  the characters that are meant and the commands of each kind, and takes the k-th.
  The invariant has these lists as witnesses (`Enum`), so that a step only adds at
  their end (`EnumExtends`), and says where the parser is in them. In a command
  (`Scanned`): `buf` and the span spell what is meant of the characters so far,
  and the blanks not yet taken (`gap`) are the last that were read, behind a text
  or the end of a line (`Waits`): a text that comes next is kept with them in the
  first case (`KeptByText`) and without them in the second (`KeptByFirst`).
  Between commands (`Built`): the last command that began or ended a block is the
  one `inblock` stands for (`Stands`), and `last` points to the token of the last
  name, outside or in whichever block it was in (`Points`), which is why a value
  behind the end of a block still goes to its name.
* `LogsProofs!ListsDescend`, `FilesOwned`, `MessagesFit`: `Descends`, `FdOwned`
  and `MessageFits` for any logs, levels, writers and buffers. `Descends` is
  inductive only with where `art_log_add` is (`Adding`): not below what it adds
  while it searches, strictly above it before it links; and with `Typed`, that no
  list reaches a log not yet made. The message is inside the buffer until its line
  ends (`Inside`).

Only model-checked: all liveness (`WaitsOnlyWhileContended`, `LockReleased`,
`LockFreed`, `Delivered`), which is beyond the prover. Every safety property of a
passing run is a theorem.

## Disagreements with the code

Each is a run whose expected result is a violation; `PROJECT.json` quotes the
lines.

1. `art_palloc.c:47`: aligning past `d.end` makes the room negative, which as a
   `size_t` is enough for anything. It happens only in pools whose size is no
   multiple of 16, such as the 4095 bytes that every larger pool is cut to.
2. `art_palloc.c:268, 280`: `art_pmemalign` returns with the lock held.
3. `art_sys_conf.c:55`: blanks between a backslash and the end of a command make
   the length negative, which as a `size_t` is too much for the buffer; the rest of
   the file is dropped, although the readme says such blanks are ignored.

Further behaviour that no document of the repository contradicts is modelled as
the code has it: `art_rbtree_pre` returns the least node of the left subtree,
which is the node before only where that subtree has one node (`Neighbours` claims
it there, and of the others that the node comes earlier, so that a walk backwards
ends); deleting from an empty list crashes, a failed zeroed allocation writes
through NULL and kills the program (in the pool, the list, the array and the
configuration), a reset leaves the cleanup list behind; `art_gmtime` narrows the
number of the day before it cuts it off; `art_manage_small` skips the block behind
one it freed, reads through NULL when it freed the last, and frees the block that
`current` points to; `art_file_mmap_write` starts the user's buffer anew in each
window and maps the next ones read-only; `art_conf_init` leaves its file's
descriptor open, ignores what `art_conf_parse` returns, takes a failed remap for
the end of the file and lets the parser look at the byte behind its buffer; a text
that fills `buf` is followed by what lies behind it; `art_log_add` drops the tail
of a log that is already the head of a list; `art_strerror_init` keeps the pointer
to the list it freed, and says OK the next time; a log whose file got no name
keeps the number of a descriptor that is closed; `art_log_init` frees a pointer it
never set; a log message that fills its buffer puts its newline behind it.

## Not modelled

Process and socket code: it does not compile (it uses `ark_*` types and functions
that nothing defines), so it has no behaviour to be faithful to; what can be read
of it are wrappers of one system call each, without state between calls. Headers
of type names, and `main`, which calls nothing but one initialisation. In
`art_file.c` the functions that hand on one system call. In `art_str.c` the loops
over characters (`art_atoi`, copying), which are data. `fstat` is taken not to
fail in `art_file_mmap_open`, and the handler of a log, which nothing sets, not to
be called. The time zone is left out of `TimeCache`, where the code adds minutes
west of Greenwich, and so is a clock in the first second of 1970, at which nothing
would be published. `art_pool_cleanup_add` takes no lock: it is not called at the
same time as an allocation in `PoolThreads`. Pools smaller than their own header,
which nothing asks for, are excluded by `Pool`'s assumption on `CreateSizes`.

Small things left out of what is modelled, none of which a property can tell:
`art_time_pool_creat` dies when `malloc` has no memory for its texts, before
anything is published; the numbers of a slot (`sec`, `msec`, `gmtoff`) are one
store in `FillTime`, since no reader may look at a slot that is being filled.
`art_file_mmap_open` dies like the containers when there is no memory for its
record; in `FileWindow` the file is then not opened, and in `Conf` this is one of
the ways `Start` ends in a crash. `block->n`, the number of a block's tokens, is
the length of its array. A character NUL, which would end a text early, is not
among those of a configuration. `art_strerror` is taken to have its table of
texts: without it, after `art_strerror_init` failed, a message with an error code
goes through a pointer that is NULL or freed.
