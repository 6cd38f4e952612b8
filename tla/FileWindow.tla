----------------------------- MODULE FileWindow -----------------------------
(***************************************************************************)
(* A file seen through one mapped window at a time: ark_core/file          *)
(* (art_filemmap.c).  Offsets stand for the pointers start, cur and end;   *)
(* a byte is told apart by its place in the file.  Every mmap and every    *)
(* munmap may fail.  Users read files they opened, write files they        *)
(* created, and leave a file alone once it is closed.                      *)
(***************************************************************************)
EXTENDS Naturals

CONSTANTS
  Window,   \* ART_MMAP_MAX_SIZE
  Page,     \* ART_PAGESIZE
  Sizes,    \* sizes of the files there are, and fsize of art_file_mmap_create
  Lens      \* what a read or a write asks for at a time

ASSUME FileAssumption ==
  Window \in Nat \ {0} /\ Page \in Nat \ {0} /\ Sizes \subseteq Nat /\ Lens \subseteq Nat \ {0}

VARIABLES
  file,    \* art_file_mmap_t: mode, last, gross and the window, mapped with
           \* access prot from offset base on, of len bytes and used up to cur;
           \* ill once a system call on it has failed
  size,    \* how much of the file itself there is to touch
  due,     \* the write under way: bytes sent and left to send
  moved,   \* the last move of bytes, as in Stream
  fault    \* the access that killed the program, or "none"

fileVars == <<file, size, due, moved, fault>>

Lesser(a, b)  == IF a < b THEN a ELSE b
Greater(a, b) == IF a < b THEN b ELSE a

Mode == IF file.mode = "closed" THEN "idle"
        ELSE IF fault # "none" THEN "broken" ELSE IF file.ill THEN "ill" ELSE "well"

\* A file that is read can be moved through to its end, one that is written
\* as far as its first window goes and the file reaches below it.
Limit == IF file.mode = "r" THEN size ELSE Lesser(Window, size)

Promise == INSTANCE Stream WITH state <- Mode, limit <- Limit

-----------------------------------------------------------------------------
(* The window *)

NoWrite == [sent |-> 0, left |-> 0]

Closed == [mode |-> "closed", last |-> 0, gross |-> 0, at |-> "NULL", prot |-> "none",
           base |-> 0, len |-> 0, cur |-> 0, ill |-> FALSE]

\* mmap of len bytes from f.last on, whose failure is reported and ignored.
Mapped(f, len, prot) ==
  {[f EXCEPT !.at = a, !.prot = prot, !.base = f.last, !.len = len, !.cur = 0,
             !.ill = @ \/ a = "failed"] :
     a \in IF len = 0 THEN {"failed"} ELSE {"mapped", "failed"}}

\* last not moved on (for the mutant runs).
RemapInPlace(f) ==
  {[f EXCEPT !.ill = TRUE]} \cup Mapped(f, Lesser(Window, f.gross - f.last), "r")

\* art_file_mmap_remap.  Nothing changes when the window is not mapped or
\* munmap fails; the new window is read-only even if the old one was not.
Remap(f) ==
  LET last == f.last + f.len
  IN  {[f EXCEPT !.ill = TRUE]} \cup
      IF f.at # "mapped" THEN {}
      ELSE Mapped([f EXCEPT !.last = last],
                  IF f.mode = "r" THEN Lesser(Window, f.gross - last) ELSE Window, "r")

\* art_memcpy of the n bytes at cur; skewed by what was sent before.
Copy(n, skew) ==
  moved' = [from |-> file.base + file.cur, to |-> file.base + file.cur + n,
            skew |-> IF n = 0 THEN 0 ELSE skew]

Crash == fault' = "SIGSEGV" /\ UNCHANGED <<file, size, due>>

-----------------------------------------------------------------------------
(* The operations *)

Open(s) ==
  /\ file.mode = "closed"
  /\ file' \in Mapped([Closed EXCEPT !.mode = "r", !.gross = s], Lesser(Window, s), "r")
  /\ size' = s /\ moved' = Promise!Nothing
  /\ UNCHANGED <<due, fault>>

\* A file of size s, or none, is made fsize bytes long by writing its last
\* byte (its first one when fsize is 0), if that write succeeds; it can be
\* touched to the end of its last page.  Without a window NULL is returned.
Create(s, fsize) ==
  /\ file.mode = "closed"
  /\ \E bytes \in {s, Greater(s, Greater(fsize, 1))} :
       /\ size' = ((bytes + Page - 1) \div Page) * Page
       /\ file' \in {f \in Mapped([Closed EXCEPT !.mode = "w"], Window, "w") : f.at = "mapped"}
  /\ moved' = Promise!Nothing
  /\ UNCHANGED <<due, fault>>

\* What becomes of the window once it is read up to cur: at its end the next
\* one is mapped, or last is moved to the end of the file.
Onward(f) ==
  IF f.cur < f.len \/ f.last + f.len > f.gross THEN {f}
  ELSE IF f.last + f.len < f.gross THEN Remap(f) ELSE {[f EXCEPT !.last = f.last + f.len]}

Read(n) ==
  LET k == Lesser(n, file.len - file.cur)
  IN  /\ file.mode = "r" /\ fault = "none"
      /\ Copy(k, 0)
      /\ IF k > 0 /\ file.at # "mapped" THEN Crash
         ELSE /\ file' \in Onward([file EXCEPT !.cur = @ + k])
              /\ UNCHANGED <<size, due, fault>>

Write(n) ==
  /\ file.mode = "w" /\ fault = "none" /\ due = NoWrite
  /\ due' = [sent |-> 0, left |-> n]
  /\ UNCHANGED <<file, size, moved, fault>>

\* One turn of the loop of art_file_mmap_write, or what follows the loop; it
\* copies from the start of the user's buffer each time.
WriteOn ==
  LET room == file.len - file.cur
      k == Lesser(due.left, room)
      f == [file EXCEPT !.cur = @ + k]
  IN  /\ due.left > 0 /\ fault = "none"
      /\ Copy(k, due.sent)
      /\ IF k > 0 /\ ~(/\ file.at = "mapped" /\ file.prot = "w"
                       /\ file.base + file.cur + k <= size)
         THEN Crash
         ELSE /\ file' \in IF f.cur = f.len THEN Remap(f) ELSE {f}
              /\ due' = IF due.left <= room THEN NoWrite
                        ELSE [sent |-> due.sent + k, left |-> due.left - k]
              /\ UNCHANGED <<size, fault>>

\* art_file_mmap_close; when munmap fails everything stays as it is.
Close ==
  /\ file.mode # "closed" /\ fault = "none" /\ due = NoWrite
  /\ \/ /\ file.at = "mapped"
        /\ file' = Closed /\ size' = 0 /\ moved' = Promise!Nothing
     \/ file' = [file EXCEPT !.ill = TRUE] /\ UNCHANGED <<size, moved>>
  /\ UNCHANGED <<due, fault>>

FileInit ==
  file = Closed /\ size = 0 /\ due = NoWrite /\ moved = Promise!Nothing /\ fault = "none"

FileNext ==
  \/ \E s \in Sizes : Open(s)
  \/ \E s \in Sizes \cup {0}, fsize \in Sizes : Create(s, fsize)
  \/ \E n \in Lens : Read(n) \/ Write(n)
  \/ WriteOn
  \/ Close

FileSpec == FileInit /\ [][FileNext]_fileVars

-----------------------------------------------------------------------------
(* Properties *)

\* art_file_mmap_read and art_file_mmap_write move the bytes of the file in
\* order, each once and to its place, over any number of windows.  A read
\* gives nothing only at the end, and the program is killed only after an
\* mmap or munmap failed or by a write that leaves the first window or the
\* pages of the file.
ImplementsStream == Promise!Spec

=============================================================================
