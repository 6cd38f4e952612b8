----------------------------- MODULE FileProofs -----------------------------
(***************************************************************************)
(* A file seen through a window is a stream, for any size of the window,   *)
(* the pages and the file, and whichever calls of mmap and munmap fail;    *)
(* the configuration reader reads it as one, and what it builds is what    *)
(* the file says.                                                          *)
(***************************************************************************)
EXTENDS Conf, FiniteSetTheorems, SequenceTheorems, TLAPS

FileType ==
  [mode : {"closed", "r", "w"}, last : Nat, gross : Nat, at : {"NULL", "mapped", "failed"},
   prot : {"none", "r", "w"}, base : Nat, len : Nat, cur : Nat, ill : BOOLEAN]

Typed ==
  /\ file \in FileType /\ size \in Nat
  /\ due \in [sent : Nat, left : Nat] /\ (due.left = 0 => due = NoWrite)
  /\ moved \in [from : Nat, to : Nat, skew : Nat]
  /\ fault \in {"none", "SIGSEGV"}

\* Before a file is opened and after it was closed.
Idle ==
  file.mode = "closed" =>
    file = Closed /\ moved = Promise!Nothing /\ fault = "none" /\ due = NoWrite

\* The next byte to move is the one at cur, in a window that is missing only
\* after a failure.
Placed ==
  file.mode # "closed" =>
    /\ fault = "none" => moved.to = file.base + file.cur
    /\ file.cur <= file.len
    /\ file.at # "mapped" => file.ill

\* A file that is read: no window reaches past its end, and one that is used
\* up is the last one, unless a call has failed.
Reads ==
  file.mode = "r" =>
    /\ file.gross = size /\ due = NoWrite
    /\ file.base + file.len <= size
    /\ file.cur < file.len => file.last = file.base
    /\ file.last = file.base \/ (file.last = file.base + file.len /\ file.last = size)
    /\ file.cur = file.len /\ ~file.ill => file.base + file.len = size

\* A file that is written: only its first window takes any bytes, and none of
\* a write that went on after that window was full.
Writes ==
  file.mode = "w" =>
    /\ file.last = file.base /\ file.len = Window
    /\ file.prot = "w" => file.base = 0
    /\ file.prot # "w" => Window <= file.base
    /\ file.cur = file.len => file.ill
    /\ due.sent > 0 => file.prot # "w" \/ file.cur = file.len
    /\ fault = "none" => file.base + file.cur <= Limit

IInv == Typed /\ Idle /\ Placed /\ Reads /\ Writes

-----------------------------------------------------------------------------
LEMMA LesserOfTwo ==
  ASSUME NEW a \in Nat, NEW b \in Nat
  PROVE  /\ Lesser(a, b) \in Nat /\ Lesser(a, b) <= a /\ Lesser(a, b) <= b
         /\ Lesser(a, b) = a \/ Lesser(a, b) = b
BY DEF Lesser

\* What mmap makes of a file.
LEMMA MappedFields ==
  ASSUME NEW f \in FileType, NEW len \in Nat, NEW prot \in {"r", "w"},
         NEW g \in Mapped(f, len, prot)
  PROVE  /\ g \in FileType
         /\ g.mode = f.mode /\ g.last = f.last /\ g.gross = f.gross /\ g.prot = prot
         /\ g.base = f.last /\ g.len = len /\ g.cur = 0
         /\ g.at \in {"mapped", "failed"} /\ (g.at = "failed" => g.ill)
         /\ len = 0 => g.at = "failed"
         /\ f.ill => g.ill
<1>1. PICK a \in IF len = 0 THEN {"failed"} ELSE {"mapped", "failed"} :
        g = [f EXCEPT !.at = a, !.prot = prot, !.base = f.last, !.len = len, !.cur = 0,
                      !.ill = @ \/ a = "failed"]
  BY DEF Mapped
<1>2. a \in {"mapped", "failed"} /\ (len = 0 => a = "failed")
  BY <1>1
<1>3. g.ill = (f.ill \/ a = "failed") /\ g.at = a
  BY <1>1, <1>2 DEF FileType
<1>. QED BY <1>1, <1>2, <1>3 DEF FileType

\* What art_file_mmap_remap makes of a file: nothing, or the next window.
LEMMA RemapFields ==
  ASSUME NEW f \in FileType, NEW g \in Remap(f),
         f.mode = "r" => f.last + f.len <= f.gross, f.mode \in {"r", "w"},
         FileAssumption
  PROVE  /\ g \in FileType /\ g.mode = f.mode /\ g.gross = f.gross
         /\ \/ /\ g.ill /\ g.last = f.last /\ g.at = f.at /\ g.prot = f.prot
               /\ g.base = f.base /\ g.len = f.len /\ g.cur = f.cur
            \/ /\ f.at = "mapped" /\ g.last = f.last + f.len /\ g.base = g.last
               /\ g.prot = "r" /\ g.cur = 0 /\ g.at \in {"mapped", "failed"}
               /\ g.len = IF f.mode = "r" THEN Lesser(Window, f.gross - g.last) ELSE Window
               /\ g.at = "failed" => g.ill
               /\ g.len = 0 => g.ill
               /\ f.ill => g.ill
<1>1. CASE g = [f EXCEPT !.ill = TRUE]
  BY <1>1 DEF FileType
<1>2. CASE g # [f EXCEPT !.ill = TRUE]
  <2> DEFINE last == f.last + f.len
             h == [f EXCEPT !.last = last]
             len == IF f.mode = "r" THEN Lesser(Window, f.gross - last) ELSE Window
  <2>1. f.at = "mapped" /\ g \in Mapped(h, len, "r")
    BY <1>2 DEF Remap
  <2>2. last \in Nat /\ h \in FileType
    BY DEF FileType
  <2>3. len \in Nat
    <3>1. f.mode = "r" => f.gross - last \in Nat
      BY <2>2 DEF FileType
    <3>. QED BY <3>1, LesserOfTwo DEF FileAssumption
  <2>4. h.mode = f.mode /\ h.last = last /\ h.gross = f.gross /\ h.ill = f.ill
    BY DEF FileType
  <2>. HIDE DEF last, h, len
  <2>5. /\ g \in FileType /\ g.mode = h.mode /\ g.last = h.last /\ g.gross = h.gross
        /\ g.prot = "r" /\ g.base = h.last /\ g.len = len /\ g.cur = 0
        /\ g.at \in {"mapped", "failed"} /\ (g.at = "failed" => g.ill)
        /\ len = 0 => g.at = "failed"
        /\ h.ill => g.ill
    BY <2>1, <2>2, <2>3, MappedFields
  <2>. QED BY <2>1, <2>4, <2>5 DEF last, len
<1>. QED BY <1>1, <1>2

-----------------------------------------------------------------------------
LEMMA OpenStep ==
  ASSUME FileAssumption, IInv, NEW s \in Sizes, Open(s)
  PROVE  IInv' /\ Promise!Begin
<1> DEFINE f == [Closed EXCEPT !.mode = "r", !.gross = s]
<1>1. s \in Nat
  BY DEF FileAssumption
<1>2. /\ f \in FileType /\ f.mode = "r" /\ f.last = 0 /\ f.gross = s /\ ~f.ill
  BY <1>1 DEF FileType, Closed
<1>3. Lesser(Window, s) \in Nat /\ Lesser(Window, s) <= s
      /\ (Lesser(Window, s) = 0 => s = 0)
  BY <1>1, LesserOfTwo DEF FileAssumption, Lesser
<1>4. file' \in Mapped(f, Lesser(Window, s), "r")
  BY DEF Open
<1>. HIDE DEF f
<1>5. /\ file' \in FileType /\ file'.mode = "r" /\ file'.last = 0 /\ file'.gross = s
      /\ file'.base = 0 /\ file'.len = Lesser(Window, s) /\ file'.cur = 0
      /\ file'.at \in {"mapped", "failed"} /\ (file'.at = "failed" => file'.ill)
      /\ file'.len = 0 => file'.ill
  BY <1>2, <1>3, <1>4, MappedFields
<1>6. /\ size' = s /\ moved' = Promise!Nothing /\ due' = due /\ fault' = fault
      /\ file.mode = "closed" /\ fault = "none" /\ due = NoWrite
  BY DEF Open, IInv, Idle
<1>7. moved' = [from |-> 0, to |-> 0, skew |-> 0]
  BY <1>6 DEF Promise!Nothing
<1>8. IInv'
  BY <1>1, <1>3, <1>5, <1>6, <1>7 DEF IInv, Typed, Idle, Placed, Reads, Writes, Limit, NoWrite
<1>9. Promise!Begin
  <2>1. Mode = "idle" /\ Mode' \in {"well", "ill"}
    BY <1>5, <1>6 DEF Mode
  <2>2. Limit' \in Nat
    BY <1>1, <1>5, <1>6 DEF Limit
  <2>. QED BY <2>1, <2>2, <1>6 DEF Promise!Begin
<1>. QED BY <1>8, <1>9

LEMMA CreateStep ==
  ASSUME FileAssumption, IInv, NEW s \in Sizes \cup {0}, NEW fsize \in Sizes, Create(s, fsize)
  PROVE  IInv' /\ Promise!Begin
<1> DEFINE f == [Closed EXCEPT !.mode = "w"]
<1>1. s \in Nat /\ fsize \in Nat /\ Page \in Nat \ {0} /\ Window \in Nat \ {0}
  BY DEF FileAssumption
<1>2. f \in FileType /\ f.mode = "w" /\ f.last = 0 /\ ~f.ill
  BY DEF FileType, Closed
<1>3. PICK bytes \in {s, Greater(s, Greater(fsize, 1))} :
        /\ size' = ((bytes + Page - 1) \div Page) * Page
        /\ file' \in Mapped(f, Window, "w") /\ file'.at = "mapped"
  BY DEF Create
<1>. HIDE DEF f
<1>4. size' \in Nat
  <2>1. bytes \in Nat /\ bytes + Page - 1 \in Nat
    BY <1>1, <1>3 DEF Greater
  <2> DEFINE pages == (bytes + Page - 1) \div Page
  <2>2. pages \in Nat
    BY <2>1, <1>1
  <2>. HIDE DEF pages
  <2>3. pages * Page \in Nat
    BY <2>2, <1>1
  <2>. QED BY <2>3, <1>3 DEF pages
<1>5. /\ file' \in FileType /\ file'.mode = "w" /\ file'.last = 0
      /\ file'.base = 0 /\ file'.len = Window /\ file'.cur = 0 /\ file'.prot = "w"
      /\ file'.at = "mapped"
  BY <1>1, <1>2, <1>3, MappedFields
<1>6. /\ moved' = Promise!Nothing /\ due' = due /\ fault' = fault
      /\ file.mode = "closed" /\ fault = "none" /\ due = NoWrite
  BY DEF Create, IInv, Idle
<1>7. moved' = [from |-> 0, to |-> 0, skew |-> 0]
  BY <1>6 DEF Promise!Nothing
<1>8. Limit' \in Nat
  BY <1>1, <1>4, <1>5, LesserOfTwo DEF Limit
<1>9. IInv'
  BY <1>1, <1>4, <1>5, <1>6, <1>7, <1>8 DEF IInv, Typed, Idle, Placed, Reads, Writes, NoWrite
<1>10. Promise!Begin
  <2>1. Mode = "idle" /\ Mode' \in {"well", "ill"}
    BY <1>5, <1>6 DEF Mode
  <2>. QED BY <2>1, <1>8, <1>6 DEF Promise!Begin
<1>. QED BY <1>9, <1>10

LEMMA CloseStep ==
  ASSUME FileAssumption, IInv, Close
  PROVE  IInv' /\ (Promise!Leave \/ Promise!Fail \/ UNCHANGED Promise!vars)
<1>1. CASE file' = Closed /\ size' = 0 /\ moved' = Promise!Nothing
  <2>1. file'.mode = "closed" /\ file' \in FileType
    BY <1>1 DEF Closed, FileType
  <2>2. IInv'
    BY <1>1, <2>1 DEF IInv, Typed, Idle, Placed, Reads, Writes, Limit, Close, NoWrite, Promise!Nothing
  <2>3. Mode' = "idle" /\ Limit' = 0
    BY <1>1, <2>1, LesserOfTwo DEF Mode, Limit, FileAssumption
  <2>. QED BY <1>1, <2>2, <2>3 DEF Promise!Leave
<1>2. CASE file' = [file EXCEPT !.ill = TRUE] /\ UNCHANGED <<size, moved>>
  <2>1. /\ file' \in FileType /\ file'.mode = file.mode /\ file'.last = file.last
        /\ file'.gross = file.gross /\ file'.at = file.at /\ file'.prot = file.prot
        /\ file'.base = file.base /\ file'.len = file.len /\ file'.cur = file.cur
        /\ file'.ill
    BY <1>2 DEF IInv, Typed, FileType
  <2>2. UNCHANGED <<due, fault>> /\ file.mode # "closed" /\ fault = "none"
    BY DEF Close
  <2>3. IInv'
    BY <1>2, <2>1, <2>2 DEF IInv, Typed, Idle, Placed, Reads, Writes, Limit
  <2>4. Limit' = Limit /\ Mode' = "ill" /\ Mode \in {"well", "ill"}
    BY <1>2, <2>1, <2>2 DEF Limit, Mode
  <2>. QED BY <1>2, <2>3, <2>4 DEF Promise!Fail, Promise!vars
<1>. QED BY <1>1, <1>2 DEF Close

\* What Copy notes.
LEMMA CopyFields ==
  ASSUME IInv, NEW n \in Nat, NEW skew \in Nat, Copy(n, skew), file.mode # "closed"
  PROVE  /\ moved' \in [from : Nat, to : Nat, skew : Nat]
         /\ moved'.from = file.base + file.cur /\ moved'.to = file.base + file.cur + n
         /\ n = 0 \/ skew = 0 => moved'.skew = 0
         /\ fault = "none" => moved'.from = moved.to
BY DEF IInv, Typed, Placed, FileType, Copy

\* The program is killed: after a failure, or past the limit.
LEMMA CrashStep ==
  ASSUME IInv, NEW n \in Nat, NEW skew \in Nat, Copy(n, skew), Crash,
         file.mode \in {"r", "w"}, fault = "none",
         file.ill \/ moved'.to > Limit
  PROVE  IInv' /\ Promise!Break
<1>1. UNCHANGED <<file, size, due>> /\ fault' = "SIGSEGV"
  BY DEF Crash
<1>2. moved' \in [from : Nat, to : Nat, skew : Nat] /\ moved'.from = moved.to
  BY CopyFields
<1>3. IInv'
  BY <1>1, <1>2 DEF IInv, Typed, Idle, Placed, Reads, Writes, Limit
<1>4. Mode \in {"well", "ill"} /\ (file.ill => Mode = "ill") /\ Mode' = "broken"
  BY <1>1 DEF Mode
<1>5. Limit' = Limit
  BY <1>1 DEF Limit
<1>. QED BY <1>2, <1>3, <1>4, <1>5 DEF Promise!Break

\* What Onward makes of a file that is read on by k bytes.
LEMMA OnwardFields ==
  ASSUME FileAssumption, IInv, file.mode = "r", NEW k \in Nat, k <= file.len - file.cur,
         NEW g \in Onward([file EXCEPT !.cur = @ + k])
  PROVE  /\ g \in FileType /\ g.mode = "r" /\ g.gross = file.gross
         /\ file.ill => g.ill
         /\ g.at # "mapped" => g.ill
         /\ g.base + g.cur = file.base + file.cur + k
         /\ g.cur <= g.len /\ g.base + g.len <= size
         /\ g.cur < g.len => g.last = g.base
         /\ g.last = g.base \/ (g.last = g.base + g.len /\ g.last = size)
         /\ g.cur = g.len /\ ~g.ill => g.base + g.len = size
<1> DEFINE f == [file EXCEPT !.cur = @ + k]
<1>1. /\ f \in FileType /\ f.mode = "r" /\ f.gross = file.gross /\ f.ill = file.ill
      /\ f.at = file.at /\ f.base = file.base /\ f.len = file.len /\ f.last = file.last
      /\ f.cur = file.cur + k /\ f.cur \in Nat
  BY DEF IInv, Typed, FileType
<1>2. g \in Onward(f)
  OBVIOUS
<1>3. /\ file.gross = size /\ size \in Nat /\ file.base + file.len <= size
      /\ file.cur < file.len => file.last = file.base
      /\ file.last = file.base \/ (file.last = file.base + file.len /\ file.last = size)
      /\ file.at # "mapped" => file.ill
      /\ file.base \in Nat /\ file.len \in Nat /\ file.last \in Nat /\ file.cur \in Nat
  BY DEF IInv, Typed, FileType, Placed, Reads
<1>. HIDE DEF f
<1>4. CASE g = f /\ (f.cur < f.len \/ f.last + f.len > f.gross)
  BY <1>1, <1>3, <1>4
<1>5. CASE f.cur >= f.len /\ f.last + f.len < f.gross /\ g \in Remap(f)
  <2>1. f.last = f.base /\ f.cur = f.len
    BY <1>1, <1>3, <1>5
  <2>0. /\ f \in FileType /\ g \in Remap(f) /\ f.mode \in {"r", "w"}
        /\ f.mode = "r" => f.last + f.len <= f.gross
    BY <1>1, <1>3, <1>5
  <2>2. /\ g \in FileType /\ g.mode = f.mode /\ g.gross = f.gross
        /\ \/ /\ g.ill /\ g.last = f.last /\ g.at = f.at /\ g.prot = f.prot
              /\ g.base = f.base /\ g.len = f.len /\ g.cur = f.cur
           \/ /\ f.at = "mapped" /\ g.last = f.last + f.len /\ g.base = g.last
              /\ g.prot = "r" /\ g.cur = 0 /\ g.at \in {"mapped", "failed"}
              /\ g.len = IF f.mode = "r" THEN Lesser(Window, f.gross - g.last) ELSE Window
              /\ g.at = "failed" => g.ill
              /\ g.len = 0 => g.ill
              /\ f.ill => g.ill
    BY <2>0, RemapFields, FileAssumption
  <2>3. CASE /\ g.ill /\ g.last = f.last /\ g.at = f.at /\ g.prot = f.prot
             /\ g.base = f.base /\ g.len = f.len /\ g.cur = f.cur
    BY <1>1, <1>3, <2>1, <2>2, <2>3
  <2>4. CASE /\ f.at = "mapped" /\ g.last = f.last + f.len /\ g.base = g.last
             /\ g.prot = "r" /\ g.cur = 0 /\ g.at \in {"mapped", "failed"}
             /\ g.len = Lesser(Window, f.gross - g.last)
             /\ g.at = "failed" => g.ill
             /\ g.len = 0 => g.ill
             /\ f.ill => g.ill
    <3>1. f.gross - g.last \in Nat /\ Window \in Nat
      BY <1>1, <1>3, <1>5, <2>4 DEF FileAssumption
    <3>2. g.len \in Nat /\ g.len <= f.gross - g.last
      BY <3>1, <2>4, LesserOfTwo
    <3>. QED BY <3>1, <3>2, <1>1, <1>3, <2>1, <2>2, <2>4
  <2>. QED BY <1>1, <2>2, <2>3, <2>4
<1>6. CASE f.cur >= f.len /\ f.last + f.len = f.gross /\ g = [f EXCEPT !.last = f.last + f.len]
  <2>1. /\ g \in FileType /\ g.mode = "r" /\ g.gross = f.gross /\ g.ill = f.ill
        /\ g.at = f.at /\ g.base = f.base /\ g.len = f.len /\ g.cur = f.cur
        /\ g.last = f.last + f.len
    BY <1>1, <1>6 DEF FileType
  <2>. QED BY <1>1, <1>3, <1>6, <2>1
<1>7. f.cur \in Nat /\ f.len \in Nat /\ f.last + f.len \in Nat /\ f.gross \in Nat
  BY <1>1, <1>3
<1>. QED BY <1>2, <1>4, <1>5, <1>6, <1>7 DEF Onward

LEMMA ReadStep ==
  ASSUME FileAssumption, IInv, NEW n \in Nat \ {0}, Read(n)
  PROVE  IInv' /\ (Promise!Move \/ Promise!Break)
<1> DEFINE k == Lesser(n, file.len - file.cur)
<1>1. /\ file.mode = "r" /\ fault = "none" /\ Copy(k, 0)
      /\ file \in FileType /\ file.cur <= file.len
  BY DEF Read, IInv, Typed, Placed
<1>2. /\ k \in Nat /\ k <= file.len - file.cur
      /\ k = 0 => file.cur = file.len
  <2>1. file.len - file.cur \in Nat
    BY <1>1 DEF FileType
  <2>. QED BY <1>1, <2>1, LesserOfTwo DEF Lesser, FileType
<1>3. (k > 0 /\ file.at # "mapped" /\ Crash)
      \/ (/\ file' \in Onward([file EXCEPT !.cur = @ + k])
          /\ UNCHANGED <<size, due, fault>>)
  BY DEF Read
<1>. HIDE DEF k
<1>4. CASE k > 0 /\ file.at # "mapped" /\ Crash
  <2>1. file.ill
    BY <1>1, <1>4 DEF IInv, Placed
  <2>. QED BY <1>1, <1>2, <1>4, <2>1, CrashStep
<1>5. CASE /\ file' \in Onward([file EXCEPT !.cur = @ + k])
           /\ UNCHANGED <<size, due, fault>>
  <2>1. /\ moved' \in [from : Nat, to : Nat, skew : Nat]
        /\ moved'.from = file.base + file.cur /\ moved'.to = file.base + file.cur + k
        /\ moved'.skew = 0 /\ moved'.from = moved.to
    BY <1>1, <1>2, CopyFields
  <2>2. /\ file' \in FileType /\ file'.mode = "r" /\ file'.gross = file.gross
        /\ file.ill => file'.ill
        /\ file'.at # "mapped" => file'.ill
        /\ file'.base + file'.cur = file.base + file.cur + k
        /\ file'.cur <= file'.len /\ file'.base + file'.len <= size
        /\ file'.cur < file'.len => file'.last = file'.base
        /\ file'.last = file'.base
           \/ (file'.last = file'.base + file'.len /\ file'.last = size)
        /\ file'.cur = file'.len /\ ~file'.ill => file'.base + file'.len = size
    BY <1>1, <1>2, <1>5, OnwardFields
  <2>3. IInv'
    BY <1>1, <1>5, <2>1, <2>2 DEF IInv, Typed, Idle, Placed, Reads, Writes, Limit
  <2>4. Mode \in {"well", "ill"} /\ Mode' \in {Mode, "ill"} /\ (file.ill => Mode' = "ill")
    BY <1>1, <1>5, <2>2 DEF Mode, FileType
  <2>5. Limit' = Limit /\ Limit = size
    BY <1>1, <1>5, <2>2 DEF Limit
  <2>6. moved'.from <= moved'.to /\ moved'.to <= size
    BY <1>1, <1>2, <2>1 DEF FileType, IInv, Typed, Reads
  <2>7. moved'.to = moved'.from => moved'.to = size \/ file.ill
    BY <1>1, <1>2, <2>1 DEF FileType, IInv, Typed, Reads
  <2>. QED BY <2>1, <2>3, <2>4, <2>5, <2>6, <2>7 DEF Promise!Move
<1>. QED BY <1>3, <1>4, <1>5

LEMMA WriteStep ==
  ASSUME FileAssumption, IInv, NEW n \in Nat \ {0}, Write(n)
  PROVE  IInv' /\ UNCHANGED Promise!vars
<1>1. /\ file.mode = "w" /\ due' = [sent |-> 0, left |-> n]
      /\ UNCHANGED <<file, size, moved, fault>>
  BY DEF Write
<1>2. IInv'
  BY <1>1 DEF IInv, Typed, Idle, Placed, Reads, Writes, Limit
<1>. QED BY <1>1, <1>2 DEF Promise!vars, Mode, Limit

LEMMA WriteOnStep ==
  ASSUME FileAssumption, IInv, WriteOn
  PROVE  IInv' /\ (Promise!Move \/ Promise!Break)
<1> DEFINE room == file.len - file.cur
           k == Lesser(due.left, room)
           f == [file EXCEPT !.cur = @ + k]
<1>1. /\ due.left > 0 /\ fault = "none" /\ Copy(k, due.sent)
      /\ file \in FileType /\ due \in [sent : Nat, left : Nat]
      /\ size \in Nat /\ Window \in Nat \ {0}
  BY DEF WriteOn, IInv, Typed, FileAssumption
<1>2. file.mode = "w" /\ NoWrite.left = 0
  BY <1>1 DEF IInv, Idle, Reads, FileType, NoWrite
<1>3. /\ file.cur <= file.len /\ (file.at # "mapped" => file.ill)
      /\ file.last = file.base /\ file.len = Window
      /\ file.prot = "w" => file.base = 0
      /\ file.prot # "w" => Window <= file.base
      /\ file.cur = file.len => file.ill
      /\ due.sent > 0 => file.prot # "w" \/ file.cur = file.len
      /\ file.base + file.cur <= Limit
  BY <1>1, <1>2 DEF IInv, Placed, Writes
<1>4. Limit \in Nat /\ Limit <= Window /\ Limit <= size
      /\ (Limit = Window \/ Limit = size)
  BY <1>1, <1>2, LesserOfTwo DEF Limit
<1>5. /\ room \in Nat /\ k \in Nat /\ k <= room /\ k <= due.left
      /\ k = 0 => file.cur = file.len
      /\ k = IF due.left <= room THEN due.left ELSE room
  BY <1>1, <1>3 DEF FileType, Lesser
<1>6. /\ f \in FileType /\ f.mode = "w" /\ f.cur = file.cur + k /\ f.last = file.last
      /\ f.gross = file.gross /\ f.at = file.at /\ f.prot = file.prot
      /\ f.base = file.base /\ f.len = file.len /\ f.ill = file.ill
  BY <1>1, <1>2, <1>5 DEF FileType
<1>7. \/ /\ Crash /\ k > 0
         /\ file.at # "mapped" \/ file.prot # "w" \/ file.base + file.cur + k > size
      \/ /\ k = 0 \/ (/\ file.at = "mapped" /\ file.prot = "w"
                      /\ file.base + file.cur + k <= size)
         /\ file' \in IF f.cur = f.len THEN Remap(f) ELSE {f}
         /\ due' = IF due.left <= room THEN NoWrite
                   ELSE [sent |-> due.sent + k, left |-> due.left - k]
         /\ UNCHANGED <<size, fault>>
  <2>1. file.base + file.cur + k \in Nat
    BY <1>1, <1>5 DEF FileType
  <2>. QED BY <1>1, <1>5, <2>1 DEF WriteOn
<1>8. /\ moved' \in [from : Nat, to : Nat, skew : Nat]
      /\ moved'.from = file.base + file.cur /\ moved'.to = file.base + file.cur + k
      /\ k = 0 \/ due.sent = 0 => moved'.skew = 0
      /\ moved'.from = moved.to
  BY <1>1, <1>2, <1>5, CopyFields
<1>. HIDE DEF room, k, f
<1>9. CASE /\ Crash /\ k > 0
           /\ file.at # "mapped" \/ file.prot # "w" \/ file.base + file.cur + k > size
  <2>1. file.ill \/ moved'.to > Limit
    BY <1>1, <1>3, <1>4, <1>5, <1>8, <1>9 DEF FileType
  <2>2. due.sent \in Nat
    BY <1>1
  <2>. QED BY <1>1, <1>2, <1>5, <1>9, <2>1, <2>2, CrashStep
<1>10. CASE /\ k = 0 \/ (/\ file.at = "mapped" /\ file.prot = "w"
                         /\ file.base + file.cur + k <= size)
            /\ file' \in IF f.cur = f.len THEN Remap(f) ELSE {f}
            /\ due' = IF due.left <= room THEN NoWrite
                      ELSE [sent |-> due.sent + k, left |-> due.left - k]
            /\ UNCHANGED <<size, fault>>
  <2>1. /\ file' \in FileType /\ file'.mode = "w"
        /\ \/ /\ file'.last = f.last /\ file'.at = f.at /\ file'.prot = f.prot
              /\ file'.base = f.base /\ file'.len = f.len /\ file'.cur = f.cur
              /\ f.cur = f.len => file'.ill
              /\ f.ill => file'.ill
           \/ /\ f.cur = f.len
              /\ f.at = "mapped" /\ file'.last = f.last + f.len /\ file'.base = file'.last
              /\ file'.prot = "r" /\ file'.cur = 0 /\ file'.at \in {"mapped", "failed"}
              /\ file'.len = Window
              /\ file'.at = "failed" => file'.ill
              /\ f.ill => file'.ill
    <3>1. CASE f.cur # f.len
      BY <1>6, <1>10, <3>1
    <3>2. CASE f.cur = f.len
      <4>1. file' \in Remap(f)
        BY <1>10, <3>2
      <4>. QED BY <1>6, <3>2, <4>1, RemapFields, FileAssumption
    <3>. QED BY <3>1, <3>2
  <2>2. /\ file'.last = file'.base /\ file'.len = Window
        /\ file'.base + file'.cur = file.base + file.cur + k
        /\ file'.cur <= file'.len /\ (file'.at # "mapped" => file'.ill)
        /\ file'.prot = "w" => file'.base = 0
        /\ file'.prot # "w" => Window <= file'.base
        /\ file'.cur = file'.len => file'.ill
        /\ file.ill => file'.ill
        /\ f.cur = f.len => file'.prot # "w" \/ file'.cur = file'.len
    BY <1>1, <1>3, <1>5, <1>6, <2>1 DEF FileType, room
  <2>3. /\ due' \in [sent : Nat, left : Nat] /\ (due'.left = 0 => due' = NoWrite)
        /\ due'.sent > 0 => f.cur = f.len
    BY <1>1, <1>3, <1>5, <1>6, <1>10 DEF room, FileType, NoWrite
  <2>4. moved'.skew = 0
    BY <1>1, <1>3, <1>5, <1>8, <1>10 DEF room, FileType
  <2>5. moved'.from <= moved'.to /\ moved'.to <= Limit
    BY <1>1, <1>3, <1>4, <1>5, <1>8, <1>10 DEF room, FileType
  <2>6. Limit' = Limit
    BY <1>2, <1>10, <2>1 DEF Limit
  <2>7. moved'.to = moved'.from => file'.ill
    BY <1>1, <1>3, <1>5, <1>8, <2>2 DEF FileType
  <2>8. Mode \in {"well", "ill"} /\ Mode' \in {Mode, "ill"} /\ (file'.ill => Mode' = "ill")
    BY <1>1, <1>2, <1>10, <2>1, <2>2 DEF Mode, FileType
  <2>9. IInv'
    <3>1. Typed'
      BY <1>1, <1>8, <1>10, <2>1, <2>3 DEF Typed
    <3>2. Idle' /\ Reads'
      BY <2>1 DEF Idle, Reads
    <3>3. Placed'
      BY <1>8, <2>2 DEF Placed
    <3>4. Writes'
      BY <1>8, <2>2, <2>3, <2>5, <2>6 DEF Writes
    <3>. QED BY <3>1, <3>2, <3>3, <3>4 DEF IInv
  <2>. QED BY <1>8, <2>4, <2>5, <2>6, <2>7, <2>8, <2>9 DEF Promise!Move
<1>. QED BY <1>7, <1>9, <1>10

-----------------------------------------------------------------------------
LEMMA StepOfTheWindow ==
  ASSUME FileAssumption, IInv, [FileNext]_fileVars
  PROVE  IInv' /\ [Promise!Next]_Promise!vars
<1>1. ASSUME NEW s \in Sizes, Open(s) PROVE IInv' /\ [Promise!Next]_Promise!vars
  BY <1>1, OpenStep, FileAssumption DEF Promise!Next
<1>2. ASSUME NEW s \in Sizes \cup {0}, NEW fsize \in Sizes, Create(s, fsize)
      PROVE  IInv' /\ [Promise!Next]_Promise!vars
  BY <1>2, CreateStep, FileAssumption DEF Promise!Next
<1>3. ASSUME NEW n \in Lens, Read(n) PROVE IInv' /\ [Promise!Next]_Promise!vars
  BY <1>3, ReadStep, FileAssumption DEF Promise!Next, FileAssumption
<1>4. ASSUME NEW n \in Lens, Write(n) PROVE IInv' /\ [Promise!Next]_Promise!vars
  BY <1>4, WriteStep, FileAssumption DEF FileAssumption
<1>5. CASE WriteOn
  BY <1>5, WriteOnStep, FileAssumption DEF Promise!Next
<1>6. CASE Close
  BY <1>6, CloseStep, FileAssumption DEF Promise!Next
<1>7. CASE UNCHANGED fileVars
  <2>1. IInv'
    BY <1>7 DEF fileVars, IInv, Typed, Idle, Placed, Reads, Writes, Limit
  <2>. QED BY <1>7, <2>1 DEF fileVars, Promise!vars, Mode, Limit
<1>. QED BY <1>1, <1>2, <1>3, <1>4, <1>5, <1>6, <1>7 DEF FileNext

LEMMA StartOfTheWindow ==
  ASSUME FileAssumption, FileInit
  PROVE  IInv /\ Promise!Init
<1>1. file.mode = "closed" /\ file \in FileType
  BY DEF FileInit, Closed, FileType
<1>2. IInv
  BY <1>1 DEF FileInit, IInv, Typed, Idle, Placed, Reads, Writes, NoWrite, Promise!Nothing
<1>3. Mode = "idle" /\ Limit = 0
  BY <1>1, LesserOfTwo DEF FileInit, Mode, Limit, FileAssumption
<1>. QED BY <1>2, <1>3 DEF FileInit, Promise!Init

\* art_filemmap.c implements Stream: whatever files are opened and created,
\* read and written, and whichever mmap and munmap fail.
THEOREM Refinement == FileSpec => ImplementsStream
<1>1. FileInit => IInv /\ Promise!Init
  BY StartOfTheWindow, FileAssumption
<1>2. IInv /\ [FileNext]_fileVars => IInv' /\ [Promise!Next]_Promise!vars
  BY StepOfTheWindow, FileAssumption
<1>. QED BY <1>1, <1>2, PTL DEF FileSpec, ImplementsStream, Promise!Spec

-----------------------------------------------------------------------------
(***************************************************************************)
(* art_conf_init uses its file as a stream, and has all of it in order     *)
(* when it parses, unless a system call failed; for any windows and files. *)
(***************************************************************************)

Stages == {"start", "read", "parse", "parsed", "refused", "crashed", "NULL", "done"}

\* The loop has read what the stream has moved.
Loading ==
  /\ load \in [stage : Stages, readed : Nat]
  /\ load.stage = "start" => load.readed = 0
  /\ load.stage \in {"read", "parse"} =>
       /\ file.mode = "r" /\ file.gross > 0 /\ fault = "none"
       /\ load.readed = moved.to
       /\ load.stage = "parse" /\ load.readed < file.gross => file.ill

CInv == IInv /\ Loading

-----------------------------------------------------------------------------
LEMMA LoadedByInvariant ==
  ASSUME CInv
  PROVE  LoadedInOrder
<1>1. ASSUME load.stage \in {"read", "parse"}
      PROVE  load.readed = moved.to /\ load.readed <= file.gross
             /\ (load.stage = "parse" /\ load.readed < file.gross => file.ill)
  <2>1. file.mode = "r" /\ fault = "none" /\ file \in FileType /\ size \in Nat
    BY <1>1 DEF CInv, Loading, IInv, Typed
  <2>2. moved.to = file.base + file.cur /\ file.cur <= file.len
        /\ file.base + file.len <= file.gross
    BY <2>1 DEF CInv, IInv, Placed, Reads
  <2>. QED BY <1>1, <2>1, <2>2 DEF CInv, Loading, FileType
<1>. QED BY <1>1 DEF LoadedInOrder

LEMMA StageFields ==
  ASSUME Loading, NEW end \in Stages, Stage(end)
  PROVE  /\ load' \in [stage : Stages, readed : Nat]
         /\ load'.stage = end /\ load'.readed = load.readed
BY DEF Loading, Stage

LEMMA StartStep ==
  ASSUME FileAssumption, CInv, NEW s \in Sizes, Start(s)
  PROVE  CInv' /\ [Promise!Next]_Promise!vars
<1>0. load.stage = "start" /\ load.readed = 0
  BY DEF Start, CInv, Loading
<1>1. CASE s > 0 /\ Open(s) /\ Stage("read")
  <2>1. IInv' /\ Promise!Begin
    BY <1>1, OpenStep, FileAssumption DEF CInv
  <2>2. fault = "none" /\ file.mode = "closed"
    BY <1>1 DEF CInv, IInv, Idle, Open
  <2>3. moved'.to = 0 /\ fault' = "none"
    BY <1>1, <2>2 DEF Open, Promise!Nothing
  <2>4. file' \in Mapped([Closed EXCEPT !.mode = "r", !.gross = s], Lesser(Window, s), "r")
    BY <1>1 DEF Open
  <2>5. file'.mode = "r" /\ file'.gross = s
    BY <2>4 DEF Mapped, Closed
  <2>6. load' \in [stage : Stages, readed : Nat] /\ load'.stage = "read" /\ load'.readed = 0
    BY <1>0, <1>1, StageFields DEF CInv, Stages
  <2>. QED BY <1>1, <2>1, <2>3, <2>5, <2>6 DEF CInv, Loading, Promise!Next
<1>2. ASSUME NEW end \in {"NULL", "crashed"}, Stage(end), UNCHANGED fileVars
      PROVE  CInv' /\ [Promise!Next]_Promise!vars
  <2>1. IInv' /\ [Promise!Next]_Promise!vars
    BY <1>2, StepOfTheWindow, FileAssumption DEF CInv
  <2>2. load' \in [stage : Stages, readed : Nat] /\ load'.stage = end
    BY <1>2, StageFields DEF CInv, Stages
  <2>. QED BY <2>1, <2>2 DEF CInv, Loading
<1>. QED BY <1>1, <1>2 DEF Start

LEMMA FillStep ==
  ASSUME FileAssumption, CInv, Fill
  PROVE  CInv' /\ [Promise!Next]_Promise!vars
<1> DEFINE i == moved'.to - moved'.from
<1>1. /\ load.stage = "read" /\ Read(file.gross) /\ fault = "none"
      /\ file.mode = "r" /\ file.gross \in Nat \ {0} /\ load.readed = moved.to
      /\ load \in [stage : Stages, readed : Nat]
  BY DEF Fill, CInv, Loading, IInv, Typed, FileType
<1>room. file.len - file.cur \in Nat
  BY <1>1 DEF CInv, IInv, Typed, Placed, FileType
<1>2. IInv' /\ (Promise!Move \/ Promise!Break)
  BY <1>1, ReadStep, FileAssumption DEF CInv
<1>3. /\ moved'.from = moved.to /\ moved'.to \in Nat /\ moved'.from \in Nat
      /\ moved'.from <= moved'.to
  <2>1. Copy(Lesser(file.gross, file.len - file.cur), 0)
    BY <1>1 DEF Read
  <2>2. Lesser(file.gross, file.len - file.cur) \in Nat
    BY <1>1, <1>room, LesserOfTwo
  <2>. QED BY <1>1, <2>1, <2>2, CopyFields DEF CInv
<1>4. load'.readed = moved'.to /\ load'.readed \in Nat
  BY <1>1, <1>3 DEF Fill
<1>5. load'.stage = IF fault' # "none" THEN "crashed"
                    ELSE IF load'.readed >= file.gross \/ i = 0 THEN "parse" ELSE "read"
  BY <1>4 DEF Fill
<1>6. fault' = "none" => /\ file'.mode = "r" /\ file'.gross = file.gross
                         /\ i = 0 => moved'.to = file.gross \/ file'.ill
  <2>1. SUFFICES ASSUME fault' = "none"
                 PROVE  /\ file'.mode = "r" /\ file'.gross = file.gross
                        /\ i = 0 => moved'.to = file.gross \/ file'.ill
    OBVIOUS
  <2>2. file' \in Onward([file EXCEPT !.cur = @ + Lesser(file.gross, file.len - file.cur)])
    BY <1>1, <2>1 DEF Read, Crash
  <2>3. file.mode = "r" /\ Lesser(file.gross, file.len - file.cur) \in Nat
        /\ Lesser(file.gross, file.len - file.cur) <= file.len - file.cur
    BY <1>1, <1>room, LesserOfTwo
  <2>4. file'.mode = "r" /\ file'.gross = file.gross
    BY <2>2, <2>3, OnwardFields, FileAssumption DEF CInv
  <2>5. Mode' \in {"well", "ill"} /\ (Mode' = "ill" => file'.ill)
    BY <2>1, <2>4 DEF Mode
  <2>6. Promise!Move
    BY <1>2, <2>5 DEF Promise!Break
  <2>7. Limit = file.gross
    BY <1>1 DEF Limit, CInv, IInv, Reads
  <2>. QED BY <1>3, <2>4, <2>5, <2>6, <2>7 DEF Promise!Move
<1>. HIDE DEF i
<1>7. i = 0 <=> moved'.to = moved'.from
  BY <1>3 DEF i
<1>8. load' \in [stage : Stages, readed : Nat]
  BY <1>4, <1>5 DEF Fill, Stages
<1>. QED BY <1>1, <1>2, <1>4, <1>5, <1>6, <1>8 DEF CInv, Loading, Promise!Next

\* The parser leaves the file alone.
LEMMA ParserStep ==
  ASSUME FileAssumption, CInv, UNCHANGED fileVars,
         UNCHANGED load \/ Stage("parsed") \/ Stage("refused") \/ Stage("crashed")
  PROVE  CInv' /\ [Promise!Next]_Promise!vars
<1>1. IInv' /\ [Promise!Next]_Promise!vars
  BY StepOfTheWindow, FileAssumption DEF CInv
<1>2. CASE UNCHANGED load
  BY <1>1, <1>2 DEF CInv, Loading, fileVars
<1>3. ASSUME NEW end \in {"parsed", "refused", "crashed"}, Stage(end)
      PROVE  Loading'
  <2>1. load' \in [stage : Stages, readed : Nat] /\ load'.stage = end
    BY <1>3, StageFields DEF CInv, Stages
  <2>. QED BY <2>1 DEF Loading
<1>. QED BY <1>1, <1>2, <1>3 DEF CInv

LEMMA FinishStep ==
  ASSUME FileAssumption, CInv, Finish
  PROVE  CInv' /\ [Promise!Next]_Promise!vars
<1>1. IInv' /\ [Promise!Next]_Promise!vars
  BY CloseStep, FileAssumption DEF CInv, Finish, Promise!Next
<1>2. PICK end \in {"done", "NULL"} : Stage(end)
  BY DEF Finish
<1>3. load' \in [stage : Stages, readed : Nat] /\ load'.stage = end
  BY <1>2, StageFields DEF CInv, Stages
<1>. QED BY <1>1, <1>3 DEF CInv, Loading

LEMMA StepOfTheReader ==
  ASSUME FileAssumption, CInv, [Next]_vars
  PROVE  CInv' /\ [Promise!Next]_Promise!vars
<1>1. ASSUME NEW s \in Sizes, Start(s) PROVE CInv' /\ [Promise!Next]_Promise!vars
  BY <1>1, StartStep, FileAssumption
<1>2. CASE Fill
  BY <1>2, FillStep, FileAssumption
<1>3. CASE Finish
  BY <1>3, FinishStep, FileAssumption
<1>4. CASE NoArrays \/ AtEnd
  BY <1>4, ParserStep, FileAssumption DEF NoArrays, AtEnd
<1>5. ASSUME NEW c, Skip(c) \/ Blank(c) PROVE CInv' /\ [Promise!Next]_Promise!vars
  BY <1>5, ParserStep, FileAssumption DEF Skip, Blank
<1>6. ASSUME NEW c, Text(c) \/ Escape(c) PROVE CInv' /\ [Promise!Next]_Promise!vars
  <2>1. UNCHANGED fileVars
    BY <1>6 DEF Text, Escape, Reading
  <2>2. UNCHANGED load \/ Stage("parsed") \/ Stage("refused")
    BY <1>6 DEF Text, Escape, Refuse
  <2>. QED BY <2>1, <2>2, ParserStep, FileAssumption
<1>7. ASSUME NEW c, Command(c) PROVE CInv' /\ [Promise!Next]_Promise!vars
  <2>1. UNCHANGED fileVars
    BY <1>7 DEF Command, Reading
  <2>2. UNCHANGED load \/ Stage("refused") \/ Stage("crashed")
    BY <1>7 DEF Command, Refuse
  <2>. QED BY <2>1, <2>2, ParserStep, FileAssumption
<1>8. CASE load.stage = "start" /\ FileNext /\ UNCHANGED confVars
  <2>1. IInv' /\ [Promise!Next]_Promise!vars
    BY <1>8, StepOfTheWindow, FileAssumption DEF CInv
  <2>2. load' = load /\ load.stage = "start"
    BY <1>8 DEF confVars
  <2>. QED BY <2>1, <2>2 DEF CInv, Loading
<1>9. CASE UNCHANGED vars
  BY <1>9, ParserStep, FileAssumption DEF vars, confVars
<1>. QED BY <1>1, <1>2, <1>3, <1>4, <1>5, <1>6, <1>7, <1>8, <1>9 DEF Next

LEMMA Beginning ==
  ASSUME FileAssumption, Init
  PROVE  CInv /\ Promise!Init
BY StartOfTheWindow, FileAssumption DEF Init, CInv, Loading, Stages

\* art_conf_init and whoever else uses files see them as streams, for any
\* size of the window, the pages and the files.
THEOREM StreamKept == Spec => ImplementsStream
<1>1. Init => CInv /\ Promise!Init
  BY Beginning, FileAssumption
<1>2. CInv /\ [Next]_vars => CInv' /\ [Promise!Next]_Promise!vars
  BY StepOfTheReader, FileAssumption
<1>. QED BY <1>1, <1>2, PTL DEF Spec, ImplementsStream, Promise!Spec

\* art_conf_init has read the beginning of its file when it parses, and all
\* of it unless a system call failed; never more than its buffer takes.
THEOREM LoadKept == Spec => []LoadedInOrder
<1>1. Init => CInv
  BY Beginning, FileAssumption
<1>2. CInv /\ [Next]_vars => CInv'
  BY StepOfTheReader, FileAssumption
<1>3. CInv => LoadedInOrder
  BY LoadedByInvariant
<1>. QED BY <1>1, <1>2, <1>3, PTL DEF Spec

-----------------------------------------------------------------------------
(***************************************************************************)
(* What art_conf_parse builds is what the file says.  The sets of commands *)
(* and of characters of which AsWritten takes the k-th member have their   *)
(* members listed in order as witnesses, to which a step adds at the end.  *)
(***************************************************************************)

\* s lists the n numbers S in order.
Enum(s, n, S) ==
  /\ n \in Nat /\ s \in [1 .. n -> Nat]
  /\ \A a, b \in 1 .. n : a < b => s[a] < s[b]
  /\ \A k \in 1 .. n : s[k] \in S
  /\ \A i \in S : \E k \in 1 .. n : s[k] = i

\* The list s of n, and the m numbers behind a.
Extend(s, n, a, m) == [k \in 1 .. n + m |-> IF k <= n THEN s[k] ELSE a + (k - n)]

LEMMA EnumNone == Enum([k \in 1 .. 0 |-> 0], 0, {})
BY DEF Enum

LEMMA EnumCounts ==
  ASSUME NEW s, NEW n, NEW S, Enum(s, n, S)
  PROVE  S \subseteq Nat /\ IsFiniteSet(S) /\ Cardinality(S) = n
<1>1. n \in Nat /\ s \in [1 .. n -> S] /\ S \subseteq Nat
  BY DEF Enum
<1>2. \A a, b \in 1 .. n : s[a] = s[b] => a = b
  BY DEF Enum
<1>3. s \in Bijection(1 .. n, S)
  BY <1>1, <1>2 DEF Bijection, Injection, Surjection, IsInjective, Enum
<1>4. ExistsBijection(1 .. n, S)
  BY <1>3 DEF ExistsBijection
<1>5. IsFiniteSet(1 .. n)
  BY <1>1, FS_Interval
<1>. QED BY <1>1, <1>4, <1>5, FS_Bijection, FS_CountingElements

LEMMA EnumPart ==
  ASSUME NEW s, NEW n, NEW S, Enum(s, n, S), NEW k \in 1 .. n
  PROVE  Cardinality({j \in S : j <= s[k]}) = k
<1> DEFINE t == [a \in 1 .. k |-> s[a]]
           T == {j \in S : j <= s[k]}
<1>1. n \in Nat /\ k \in Nat /\ \A a \in 1 .. n : s[a] \in Nat /\ s[a] \in S
  BY DEF Enum
<1>2. \A a, b \in 1 .. n : a < b => s[a] < s[b]
  BY DEF Enum
<1>3. \A a \in 1 .. k : a \in 1 .. n /\ t[a] = s[a]
  BY <1>1
<1>4. \A a \in 1 .. n : a <= k <=> s[a] <= s[k]
  <2>1. SUFFICES ASSUME NEW a \in 1 .. n PROVE a <= k <=> s[a] <= s[k]
    OBVIOUS
  <2>2. a < k \/ a = k \/ k < a
    BY <1>1
  <2>. QED BY <1>1, <1>2, <2>2
<1>5. t \in [1 .. k -> Nat]
  BY <1>1, <1>3
<1> HIDE DEF t
<1>6. \A a, b \in 1 .. k : a < b => t[a] < t[b]
  BY <1>2, <1>3
<1>7. \A a \in 1 .. k : t[a] \in T
  BY <1>1, <1>3, <1>4
<1>8. \A i \in T : \E a \in 1 .. k : t[a] = i
  <2>1. SUFFICES ASSUME NEW i \in T PROVE \E a \in 1 .. k : t[a] = i
    OBVIOUS
  <2>2. PICK a \in 1 .. n : s[a] = i
    BY DEF Enum
  <2>3. a \in 1 .. k
    BY <1>1, <1>4, <2>2
  <2>. QED BY <1>3, <2>2, <2>3
<1> HIDE DEF T
<1>9. Enum(t, k, T)
  BY <1>1, <1>5, <1>6, <1>7, <1>8 DEF Enum
<1>. QED BY <1>9, EnumCounts DEF T

LEMMA EnumNth ==
  ASSUME NEW s, NEW n, NEW S, Enum(s, n, S), NEW k \in 1 .. n
  PROVE  Nth(S, k) = s[k] /\ s[k] \in S
<1>1. s[k] \in S /\ Cardinality({j \in S : j <= s[k]}) = k
  BY EnumPart DEF Enum
<1>2. \A i \in S : Cardinality({j \in S : j <= i}) = k => i = s[k]
  <2>1. SUFFICES ASSUME NEW i \in S, Cardinality({j \in S : j <= i}) = k PROVE i = s[k]
    OBVIOUS
  <2>2. PICK a \in 1 .. n : s[a] = i
    BY DEF Enum
  <2>3. Cardinality({j \in S : j <= s[a]}) = a
    BY EnumPart
  <2>. QED BY <2>1, <2>2, <2>3
<1>. QED BY <1>1, <1>2 DEF Nth

\* Numbers above all the others come last.
LEMMA EnumExtends ==
  ASSUME NEW s, NEW n, NEW S, Enum(s, n, S), NEW a \in Nat, NEW m \in Nat,
         \A i \in S : i <= a, NEW T, T = S \cup (a + 1 .. a + m)
  PROVE  /\ Enum(Extend(s, n, a, m), n + m, T)
         /\ \A k \in 1 .. n : Extend(s, n, a, m)[k] = s[k]
         /\ \A k \in 1 .. m : Extend(s, n, a, m)[n + k] = a + k
<1> DEFINE t == Extend(s, n, a, m)
<1>1. n \in Nat /\ n + m \in Nat /\ \A k \in 1 .. n : s[k] \in Nat /\ s[k] \in S /\ s[k] <= a
  BY DEF Enum
<1>2. \A k \in 1 .. n : k \in 1 .. n + m /\ t[k] = s[k]
  BY <1>1 DEF Extend
<1>3. \A k \in 1 .. m : n + k \in 1 .. n + m /\ t[n + k] = a + k
  BY <1>1 DEF Extend
<1>4. \A k \in 1 .. n + m : k \in 1 .. n \/ (k > n /\ k - n \in 1 .. m /\ t[k] = a + (k - n))
  BY <1>1 DEF Extend
<1>5. t \in [1 .. n + m -> Nat]
  <2>1. \A k \in 1 .. n + m : t[k] \in Nat
    BY <1>1, <1>2, <1>4
  <2>. QED BY <2>1 DEF Extend
<1> HIDE DEF t
<1>6. \A i, j \in 1 .. n + m : i < j => t[i] < t[j]
  <2>1. SUFFICES ASSUME NEW i \in 1 .. n + m, NEW j \in 1 .. n + m, i < j
                 PROVE  t[i] < t[j]
    OBVIOUS
  <2>2. CASE j \in 1 .. n
    <3>1. i \in 1 .. n
      BY <1>1, <2>1, <2>2
    <3>. QED BY <1>2, <2>1, <2>2, <3>1 DEF Enum
  <2>3. CASE i \in 1 .. n /\ j \notin 1 .. n
    <3>1. t[i] <= a /\ t[i] \in Nat
      BY <1>1, <1>2, <2>3
    <3>2. t[j] = a + (j - n) /\ j - n \in 1 .. m
      BY <1>4, <2>3
    <3>. QED BY <1>1, <3>1, <3>2
  <2>4. CASE i \notin 1 .. n /\ j \notin 1 .. n
    <3>1. t[i] = a + (i - n) /\ t[j] = a + (j - n)
      BY <1>4, <2>4
    <3>. QED BY <1>1, <2>1, <3>1
  <2>5. i \notin 1 .. n => j \notin 1 .. n
    BY <1>1, <2>1
  <2>. QED BY <2>2, <2>3, <2>4, <2>5
<1>7. \A k \in 1 .. n + m : t[k] \in T
  <2>1. SUFFICES ASSUME NEW k \in 1 .. n + m PROVE t[k] \in T
    OBVIOUS
  <2>2. CASE k \in 1 .. n
    BY <1>1, <1>2, <2>2
  <2>3. CASE k \notin 1 .. n
    <3>1. t[k] = a + (k - n) /\ k - n \in 1 .. m
      BY <1>4, <2>3
    <3>2. t[k] \in a + 1 .. a + m
      BY <1>1, <3>1
    <3>. QED BY <3>2
  <2>. QED BY <2>2, <2>3
<1>8. \A i \in T : \E k \in 1 .. n + m : t[k] = i
  <2>1. ASSUME NEW i \in S PROVE \E k \in 1 .. n + m : t[k] = i
    <3>1. PICK k \in 1 .. n : s[k] = i
      BY DEF Enum
    <3>. QED BY <1>2, <3>1
  <2>2. ASSUME NEW i \in a + 1 .. a + m PROVE \E k \in 1 .. n + m : t[k] = i
    <3>1. i - a \in 1 .. m /\ a + (i - a) = i
      OBVIOUS
    <3>. QED BY <1>3, <3>1
  <2>. QED BY <2>1, <2>2
<1>9. Enum(t, n + m, T)
  BY <1>1, <1>5, <1>6, <1>7, <1>8 DEF Enum
<1>. QED BY <1>2, <1>3, <1>9 DEF t

\* The characters read of a command.
Chr == [kind : {"text", "blank", "esc"}, pos : Nat]

Grown(r, e, q) ==
  /\ r \in Seq(Chr) /\ q \in Seq(Chr) /\ e \in Chr /\ Len(r) \in Nat /\ Len(q) = Len(r) + 1
  /\ \A k \in 1 .. Len(r) : q[k] = r[k] /\ r[k] \in Chr
  /\ q[Len(r) + 1] = e

LEMMA GrownIs ==
  ASSUME NEW r \in Seq(Chr), NEW e \in Chr
  PROVE  Grown(r, e, Append(r, e))
BY AppendProperties DEF Grown

LeftText(r, i)  == \E j \in 1 .. i : r[j].kind = "text" /\ \A k \in j .. i : r[k].kind # "esc"
RightText(r, i) ==
  \E j \in i .. Len(r) : r[j].kind = "text" /\ \A k \in i .. j : r[k].kind # "esc"

LEMMA KeptIs ==
  ASSUME NEW r \in Seq(Chr)
  PROVE  Kept(r) = {i \in 1 .. Len(r) : LeftText(r, i) /\ RightText(r, i)}
<1>1. Len(r) \in Nat /\ DOMAIN r = 1 .. Len(r)
  OBVIOUS
<1>2. \A i \in 1 .. Len(r) :
        LeftText(r, i) <=> \E j \in 1 .. i : /\ r[j].kind = "text"
                                             /\ \A k \in i .. j \cup j .. i : r[k].kind # "esc"
  <2>1. \A i \in 1 .. Len(r) : \A j \in 1 .. i : i .. j \cup j .. i = j .. i
    BY <1>1
  <2>. QED BY <2>1 DEF LeftText
<1>3. \A i \in 1 .. Len(r) :
        RightText(r, i) <=> \E j \in i .. Len(r) :
                              /\ r[j].kind = "text"
                              /\ \A k \in i .. j \cup j .. i : r[k].kind # "esc"
  <2>1. \A i \in 1 .. Len(r) : \A j \in i .. Len(r) : i .. j \cup j .. i = i .. j
    BY <1>1
  <2>. QED BY <2>1 DEF RightText
<1>. QED BY <1>1, <1>2, <1>3 DEF Kept

\* A character behind leaves what is left of the others as it is.
LEMMA LeftStays ==
  ASSUME NEW r, NEW e, NEW q, Grown(r, e, q), NEW i \in 1 .. Len(r)
  PROVE  LeftText(q, i) <=> LeftText(r, i)
<1>1. Len(r) \in Nat
  BY DEF Grown
<1>2. \A j \in 1 .. i : q[j] = r[j] /\ \A k \in j .. i : q[k] = r[k]
  BY <1>1 DEF Grown
<1>. QED BY <1>2 DEF LeftText

LEMMA RightStays ==
  ASSUME NEW r, NEW e, NEW q, Grown(r, e, q), NEW i \in 1 .. Len(r)
  PROVE  /\ RightText(r, i) => RightText(q, i)
         /\ RightText(q, i) => \/ RightText(r, i)
                               \/ e.kind = "text" /\ \A k \in i .. Len(r) : r[k].kind # "esc"
<1>1. /\ Len(r) \in Nat /\ Len(q) = Len(r) + 1 /\ q[Len(r) + 1] = e
      /\ \A k \in 1 .. Len(r) : q[k] = r[k]
  BY DEF Grown
<1>2. ASSUME RightText(r, i) PROVE RightText(q, i)
  <2>1. PICK j \in i .. Len(r) : r[j].kind = "text" /\ \A k \in i .. j : r[k].kind # "esc"
    BY <1>2 DEF RightText
  <2>2. j \in i .. Len(q) /\ q[j] = r[j] /\ \A k \in i .. j : q[k] = r[k]
    BY <1>1
  <2>. QED BY <2>1, <2>2 DEF RightText
<1>3. ASSUME RightText(q, i), ~RightText(r, i)
      PROVE  e.kind = "text" /\ \A k \in i .. Len(r) : r[k].kind # "esc"
  <2>1. PICK j \in i .. Len(q) : q[j].kind = "text" /\ \A k \in i .. j : q[k].kind # "esc"
    BY <1>3 DEF RightText
  <2>2. CASE j \in i .. Len(r)
    <3>1. q[j] = r[j] /\ \A k \in i .. j : q[k] = r[k]
      BY <1>1, <2>2
    <3>. QED BY <1>3, <2>1, <2>2, <3>1 DEF RightText
  <2>3. CASE j = Len(r) + 1
    <3>1. \A k \in i .. Len(r) : k \in i .. j /\ q[k] = r[k]
      BY <1>1, <2>3
    <3>. QED BY <1>1, <2>1, <2>3, <3>1
  <2>. QED BY <1>1, <2>2, <2>3
<1>. QED BY <1>2, <1>3

\* The m characters behind the a-th are kept in q, and of the others those of r.
Adds(r, q, a, m) ==
  /\ Kept(q) = Kept(r) \cup (a + 1 .. a + m)
  /\ \A i \in Kept(r) : i <= a

LEMMA KeptByBlank ==
  ASSUME NEW r, NEW e, NEW q, Grown(r, e, q), e.kind # "text"
  PROVE  Kept(q) = Kept(r)
<1>1. r \in Seq(Chr) /\ q \in Seq(Chr) /\ Len(r) \in Nat /\ Len(q) = Len(r) + 1
      /\ q[Len(r) + 1] = e
  BY DEF Grown
<1>2. \A i \in 1 .. Len(r) : i \in 1 .. Len(q) /\ (LeftText(q, i) <=> LeftText(r, i))
                             /\ (RightText(q, i) <=> RightText(r, i))
  BY <1>1, LeftStays, RightStays
<1>3. ~RightText(q, Len(r) + 1)
  <2>1. \A j \in Len(r) + 1 .. Len(q) : q[j] = e
    BY <1>1
  <2>. QED BY <2>1 DEF RightText
<1>4. \A i \in 1 .. Len(q) : i \in 1 .. Len(r) \/ i = Len(r) + 1
  BY <1>1
<1>5. Kept(q) = {i \in 1 .. Len(q) : LeftText(q, i) /\ RightText(q, i)}
      /\ Kept(r) = {i \in 1 .. Len(r) : LeftText(r, i) /\ RightText(r, i)}
  BY <1>1, KeptIs
<1>. QED BY <1>2, <1>3, <1>4, <1>5

\* The characters of r behind the b-th are blanks, and it is none.
Trailing(r, b) ==
  /\ b \in 0 .. Len(r)
  /\ \A k \in b + 1 .. Len(r) : r[k].kind = "blank"
  /\ IF b = 0 THEN r = <<>> ELSE r[b].kind \in {"text", "esc"}

\* A text keeps the blanks between it and the one before.
LEMMA KeptByText ==
  ASSUME NEW r, NEW e, NEW q, Grown(r, e, q), e.kind = "text",
         NEW b, Trailing(r, b), b > 0, r[b].kind = "text"
  PROVE  Adds(r, q, b, Len(r) - b + 1)
<1>1. r \in Seq(Chr) /\ q \in Seq(Chr) /\ Len(r) \in Nat /\ Len(q) = Len(r) + 1
      /\ q[Len(r) + 1] = e /\ \A k \in 1 .. Len(r) : q[k] = r[k]
  BY DEF Grown
<1>2. b \in 1 .. Len(r) /\ \A k \in b + 1 .. Len(r) : r[k].kind = "blank"
  BY <1>1 DEF Trailing
<1>3. Kept(q) = {i \in 1 .. Len(q) : LeftText(q, i) /\ RightText(q, i)}
      /\ Kept(r) = {i \in 1 .. Len(r) : LeftText(r, i) /\ RightText(r, i)}
  BY <1>1, KeptIs
<1>4. \A i \in 1 .. b : i \in 1 .. Len(r) /\ i \in 1 .. Len(q)
                        /\ (i \in Kept(q) <=> i \in Kept(r))
  <2>1. SUFFICES ASSUME NEW i \in 1 .. b
                 PROVE  i \in 1 .. Len(r) /\ i \in 1 .. Len(q) /\ (i \in Kept(q) <=> i \in Kept(r))
    OBVIOUS
  <2>2. i \in 1 .. Len(r) /\ i \in 1 .. Len(q)
    BY <1>1, <1>2
  <2>3. LeftText(q, i) <=> LeftText(r, i)
    BY <2>2, LeftStays
  <2>4. ASSUME RightText(q, i), ~RightText(r, i) PROVE FALSE
    <3>1. \A k \in i .. Len(r) : r[k].kind # "esc"
      BY <2>2, <2>4, RightStays
    <3>2. b \in i .. Len(r) /\ \A k \in i .. b : k \in i .. Len(r)
      BY <1>1, <1>2
    <3>. QED BY <2>4, <3>1, <3>2 DEF RightText
  <2>5. RightText(q, i) <=> RightText(r, i)
    BY <2>2, <2>4, RightStays
  <2>. QED BY <1>3, <2>2, <2>3, <2>5
<1>5. \A i \in b + 1 .. Len(q) : i \in 1 .. Len(q) /\ i \in Kept(q)
  <2>1. SUFFICES ASSUME NEW i \in b + 1 .. Len(q) PROVE i \in 1 .. Len(q) /\ i \in Kept(q)
    OBVIOUS
  <2>2. b \in 1 .. i /\ q[b].kind = "text" /\ i \in 1 .. Len(q)
    BY <1>1, <1>2
  <2>3. \A k \in b .. Len(q) : q[k].kind # "esc"
    <3>1. SUFFICES ASSUME NEW k \in b .. Len(q) PROVE q[k].kind # "esc"
      OBVIOUS
    <3>2. k = b \/ k = Len(r) + 1 \/ (k \in b + 1 .. Len(r) /\ q[k] = r[k])
      BY <1>1, <1>2
    <3>. QED BY <1>1, <1>2, <2>2, <3>2
  <2>4. LeftText(q, i)
    <3>1. \A k \in b .. i : k \in b .. Len(q)
      BY <1>1, <1>2
    <3>. QED BY <2>2, <2>3, <3>1 DEF LeftText
  <2>5. RightText(q, i)
    <3>1. Len(q) \in i .. Len(q) /\ \A k \in i .. Len(q) : k \in b .. Len(q)
      BY <1>1, <1>2
    <3>. QED BY <1>1, <2>3, <3>1 DEF RightText
  <2>. QED BY <1>3, <2>2, <2>4, <2>5
<1>6. \A i \in Kept(r) : i \in 1 .. b
  <2>1. SUFFICES ASSUME NEW i \in 1 .. Len(r), RightText(r, i) PROVE i \in 1 .. b
    BY <1>3
  <2>2. PICK j \in i .. Len(r) : r[j].kind = "text"
    BY <2>1 DEF RightText
  <2>3. j \notin b + 1 .. Len(r)
    BY <1>2, <2>2
  <2>. QED BY <1>1, <1>2, <2>3
<1>7. \A i \in 1 .. Len(q) : i \in 1 .. b \/ i \in b + 1 .. Len(q)
  BY <1>1, <1>2
<1>8. b + (Len(r) - b + 1) = Len(q)
  BY <1>1, <1>2
<1>9. Kept(q) \subseteq 1 .. Len(q)
  BY <1>3
<1>10. Kept(q) = Kept(r) \cup (b + 1 .. Len(q))
  BY <1>4, <1>5, <1>6, <1>7, <1>9
<1>11. \A i \in Kept(r) : i <= b
  BY <1>6
<1>12. Kept(q) = Kept(r) \cup (b + 1 .. b + (Len(r) - b + 1))
  BY <1>8, <1>10, Zenon
<1>. QED BY <1>11, <1>12, Zenon DEF Adds

\* The first text, at all or behind a line's end, keeps none.
LEMMA KeptByFirst ==
  ASSUME NEW r, NEW e, NEW q, Grown(r, e, q), e.kind = "text",
         NEW b, Trailing(r, b), b > 0 => r[b].kind = "esc"
  PROVE  Adds(r, q, Len(r), 1)
<1>1. r \in Seq(Chr) /\ q \in Seq(Chr) /\ Len(r) \in Nat /\ Len(q) = Len(r) + 1
      /\ q[Len(r) + 1] = e /\ \A k \in 1 .. Len(r) : q[k] = r[k]
  BY DEF Grown
<1>2. b \in 0 .. Len(r) /\ (\A k \in b + 1 .. Len(r) : r[k].kind = "blank")
      /\ (b = 0 => r = <<>>)
  BY DEF Trailing
<1>3. Kept(q) = {i \in 1 .. Len(q) : LeftText(q, i) /\ RightText(q, i)}
      /\ Kept(r) = {i \in 1 .. Len(r) : LeftText(r, i) /\ RightText(r, i)}
  BY <1>1, KeptIs
<1>4. \A i \in 1 .. Len(r) : i \in 1 .. Len(q) /\ (i \in Kept(q) <=> i \in Kept(r))
  <2>1. SUFFICES ASSUME NEW i \in 1 .. Len(r)
                 PROVE  i \in 1 .. Len(q) /\ (i \in Kept(q) <=> i \in Kept(r))
    OBVIOUS
  <2>2. i \in 1 .. Len(q)
    BY <1>1
  <2>3. LeftText(q, i) <=> LeftText(r, i)
    BY LeftStays
  <2>4. ASSUME LeftText(r, i), RightText(q, i), ~RightText(r, i) PROVE FALSE
    <3>1. \A k \in i .. Len(r) : r[k].kind # "esc"
      BY <2>4, RightStays
    <3>2. PICK j \in 1 .. i : r[j].kind = "text" /\ \A k \in j .. i : r[k].kind # "esc"
      BY <2>4 DEF LeftText
    <3>3. b \in 1 .. Len(r) /\ r[b].kind = "esc"
      <4>1. b # 0
        BY <1>2
      <4>. QED BY <1>1, <1>2, <4>1
    <3>4. j \notin b + 1 .. Len(r)
      BY <1>2, <3>2
    <3>5. b \in j .. i \/ b \in i .. Len(r)
      BY <1>1, <3>3, <3>4
    <3>. QED BY <3>1, <3>2, <3>3, <3>5
  <2>. QED BY <1>3, <2>2, <2>3, <2>4, RightStays
<1>5. Len(q) \in Kept(q)
  <2>1. \A k \in Len(q) .. Len(q) : q[k] = e
    BY <1>1
  <2>2. Len(q) \in 1 .. Len(q) /\ Len(q) \in Len(q) .. Len(q)
    BY <1>1
  <2>. QED BY <1>3, <2>1, <2>2 DEF LeftText, RightText
<1>6. \A i \in 1 .. Len(q) : i \in 1 .. Len(r) \/ i = Len(q)
  BY <1>1
<1>7. Len(r) + 1 .. Len(r) + 1 = {Len(q)}
  BY <1>1
<1>8. Kept(q) \subseteq 1 .. Len(q) /\ Kept(r) \subseteq 1 .. Len(r)
  BY <1>3
<1>9. Kept(q) = Kept(r) \cup {Len(q)}
  BY <1>4, <1>5, <1>6, <1>8
<1>10. \A i \in Kept(r) : i <= Len(r)
  BY <1>1, <1>8
<1>. QED BY <1>7, <1>9, <1>10 DEF Adds

LEMMA MeantIs ==
  ASSUME NEW r \in Seq(Chr), NEW s, NEW c, Enum(s, c, Kept(r))
  PROVE  /\ c \in Nat /\ Meant(r) \in Seq(Nat) /\ Len(Meant(r)) = c
         /\ Meant(r) = [k \in 1 .. c |-> r[s[k]].pos]
<1>1. c \in Nat /\ Cardinality(Kept(r)) = c
  BY EnumCounts DEF Enum
<1>2. \A k \in 1 .. c : Nth(Kept(r), k) = s[k] /\ s[k] \in Kept(r)
  BY EnumNth
<1>3. Meant(r) = [k \in 1 .. c |-> r[s[k]].pos]
  BY <1>1, <1>2 DEF Meant
<1>4. \A k \in 1 .. c : r[s[k]].pos \in Nat
  <2>1. \A k \in 1 .. Len(r) : r[k] \in Chr
    OBVIOUS
  <2>2. \A x \in Chr : x.pos \in Nat
    BY DEF Chr
  <2>3. \A k \in 1 .. c : s[k] \in 1 .. Len(r)
    BY <1>2, KeptIs
  <2>. QED BY <2>1, <2>2, <2>3
<1>5. Meant(r) \in [1 .. c -> Nat]
  BY <1>3, <1>4
<1>6. Meant(r) \in Seq(Nat) /\ Len(Meant(r)) = c
  BY <1>1, <1>5
<1>. QED BY <1>1, <1>3, <1>6

\* A text that is added behind some of the blanks.
LEMMA MeantGrows ==
  ASSUME NEW r, NEW e, NEW q, Grown(r, e, q), NEW s, NEW c, Enum(s, c, Kept(r)),
         NEW a \in Nat, NEW m \in Nat, Adds(r, q, a, m)
  PROVE  /\ Enum(Extend(s, c, a, m), c + m, Kept(q))
         /\ Meant(q) \in Seq(Nat) /\ Len(Meant(q)) = c + m
         /\ \A k \in 1 .. c : Meant(q)[k] = Meant(r)[k]
         /\ \A k \in 1 .. m : Meant(q)[c + k] = q[a + k].pos
<1> DEFINE t == Extend(s, c, a, m)
<1>1. r \in Seq(Chr) /\ q \in Seq(Chr) /\ \A k \in 1 .. Len(r) : q[k] = r[k]
  BY DEF Grown
<1>2. /\ Enum(t, c + m, Kept(q)) /\ \A k \in 1 .. c : t[k] = s[k]
      /\ \A k \in 1 .. m : t[c + k] = a + k
  BY EnumExtends DEF Adds
<1> HIDE DEF t
<1>3. /\ Meant(q) \in Seq(Nat) /\ Len(Meant(q)) = c + m
      /\ Meant(q) = [k \in 1 .. c + m |-> q[t[k]].pos]
  BY <1>1, <1>2, MeantIs
<1>4. c \in Nat /\ Meant(r) = [k \in 1 .. c |-> r[s[k]].pos]
  BY <1>1, MeantIs
<1>5. \A k \in 1 .. c : s[k] \in 1 .. Len(r)
  BY <1>1, KeptIs DEF Enum
<1>6. \A k \in 1 .. c : k \in 1 .. c + m
  BY <1>4
<1>7. \A k \in 1 .. m : c + k \in 1 .. c + m
  BY <1>4
<1>8. \A k \in 1 .. c : Meant(q)[k] = Meant(r)[k]
  BY <1>1, <1>2, <1>3, <1>4, <1>5, <1>6
<1>9. \A k \in 1 .. m : Meant(q)[c + k] = q[a + k].pos
  BY <1>2, <1>3, <1>7
<1>. QED BY <1>2, <1>3, <1>8, <1>9 DEF t

-----------------------------------------------------------------------------
(* The characters that are read *)

Offsets == Seq(Nat)

Scans ==
  [pos : Nat, phase : {"between", "comment", "command"}, buf : Offsets, span : Offsets,
   gap : Offsets, lf : BOOLEAN]

LEMMA Joined ==
  ASSUME NEW u \in Offsets, NEW v \in Offsets
  PROVE  /\ u \o v \in Offsets /\ Len(u) \in Nat /\ Len(v) \in Nat
         /\ Len(u \o v) = Len(u) + Len(v)
         /\ \A k \in 1 .. Len(u) : (u \o v)[k] = u[k]
         /\ \A k \in 1 .. Len(v) : (u \o v)[Len(u) + k] = v[k]
         /\ u \o <<>> = u /\ <<>> \o u = u
<1>1. /\ u \o v \in Seq(Nat) /\ Len(u) \in Nat /\ Len(v) \in Nat
      /\ Len(u \o v) = Len(u) + Len(v)
      /\ \A k \in 1 .. Len(u) + Len(v) :
           (u \o v)[k] = IF k <= Len(u) THEN u[k] ELSE v[k - Len(u)]
  BY ConcatProperties DEF Offsets
<1>2. \A k \in 1 .. Len(u) : k \in 1 .. Len(u) + Len(v) /\ k <= Len(u)
  BY <1>1
<1>3. \A k \in 1 .. Len(v) : /\ Len(u) + k \in 1 .. Len(u) + Len(v) /\ ~(Len(u) + k <= Len(u))
                            /\ (Len(u) + k) - Len(u) = k
  BY <1>1
<1>4. u \o <<>> = u /\ <<>> \o u = u
  BY ConcatEmptySeq DEF Offsets
<1>. QED BY <1>1, <1>2, <1>3, <1>4 DEF Offsets

LEMMA JoinedTwice ==
  ASSUME NEW u \in Offsets, NEW v \in Offsets, NEW w \in Offsets
  PROVE  (u \o v) \o w = u \o (v \o w)
<1> DEFINE Assoc(S) == \A x, y, z \in S : (x \o y) \o z = x \o (y \o z)
<1>1. \A S : Assoc(Seq(S))
  BY ConcatAssociative
<1> HIDE DEF Assoc
<1>2. Assoc(Offsets)
  BY <1>1 DEF Offsets
<1>. QED BY <1>2, Zenon DEF Assoc

LEMMA SameOffsets ==
  ASSUME NEW u \in Offsets, NEW v \in Offsets, Len(u) = Len(v),
         \A k \in 1 .. Len(u) : u[k] = v[k]
  PROVE  u = v
BY SeqEqual DEF Offsets

LEMMA ScanFields ==
  ASSUME NEW sc \in Scans
  PROVE  sc.pos \in Nat /\ sc.buf \in Seq(Nat) /\ sc.span \in Seq(Nat) /\ sc.gap \in Seq(Nat)
BY DEF Scans, Offsets

\* The blanks that sc holds back are the last that were read, behind a
\* text, the end of a line, or nothing.
Waits(sc, r, b) ==
  /\ b \in Nat /\ b + Len(sc.gap) = Len(r)
  /\ \A k \in 1 .. Len(sc.gap) : r[b + k] = [kind |-> "blank", pos |-> sc.gap[k]]
  /\ IF b = 0 THEN r = <<>> /\ ~sc.lf
     ELSE r[b].kind = IF sc.lf THEN "esc" ELSE "text"

\* What sc has copied and spans is the text of what was read.
Scanned(sc, r) ==
  /\ sc \in Scans /\ r \in Seq(Chr)
  /\ sc.phase = "command" <=> r # <<>>
  /\ \E b : Waits(sc, r, b)
  /\ \E s, c : Enum(s, c, Kept(r))
  /\ Meant(r) = sc.buf \o sc.span
  /\ sc.lf => sc.span = <<>>

LEMMA WaitsTrails ==
  ASSUME NEW sc, NEW r, NEW b, Scanned(sc, r), Waits(sc, r, b)
  PROVE  /\ Trailing(r, b) /\ Len(r) \in Nat /\ Len(sc.gap) \in Nat
         /\ b \in Nat /\ b + Len(sc.gap) = Len(r) /\ r \in Seq(Chr)
<1>1. r \in Seq(Chr) /\ Len(r) \in Nat /\ Len(sc.gap) \in Nat
  BY ScanFields DEF Scanned
<1>2. \A k \in b + 1 .. Len(r) : k - b \in 1 .. Len(sc.gap) /\ b + (k - b) = k
  BY <1>1 DEF Waits
<1>3. \A k \in b + 1 .. Len(r) : r[k].kind = "blank"
  <2>1. SUFFICES ASSUME NEW k \in b + 1 .. Len(r) PROVE r[k].kind = "blank"
    OBVIOUS
  <2>2. r[b + (k - b)] = [kind |-> "blank", pos |-> sc.gap[k - b]] /\ b + (k - b) = k
    BY <1>2 DEF Waits
  <2>. QED BY <2>2
<1>4. b \in Nat /\ b \in 0 .. Len(r)
  BY <1>1 DEF Waits
<1>. QED BY <1>1, <1>3, <1>4 DEF Trailing, Waits

LEMMA FreshScanned ==
  ASSUME NEW p \in Nat, NEW ph \in {"between", "comment"}
  PROVE  Scanned([Fresh(p) EXCEPT !.phase = ph], <<>>)
<1> DEFINE sc == [Fresh(p) EXCEPT !.phase = ph]
<1>1. /\ sc \in Scans /\ sc.phase # "command" /\ sc.gap = <<>> /\ sc.buf = <<>>
      /\ sc.span = <<>> /\ ~sc.lf
  <2>1. <<>> \in Offsets
    BY DEF Offsets
  <2>2. Fresh(p) \in Scans
    BY <2>1 DEF Fresh, Scans
  <2>. QED BY <2>1, <2>2 DEF Fresh, Scans
<1> HIDE DEF sc
<1>2. Waits(sc, <<>>, 0)
  BY <1>1 DEF Waits
<1>3. <<>> \in Seq(Chr) /\ Len(<<>>) = 0
  OBVIOUS
<1>4. Kept(<<>>) = {}
  <2>1. 1 .. 0 = {}
    OBVIOUS
  <2>. QED BY <1>3, <2>1, KeptIs
<1>5. Enum([k \in 1 .. 0 |-> 0], 0, Kept(<<>>))
  BY <1>4, EnumNone
<1>6. Meant(<<>>) \in Seq(Nat) /\ Len(Meant(<<>>)) = 0
  BY <1>3, <1>5, MeantIs
<1>7. Meant(<<>>) = <<>> \o <<>>
  BY <1>6
<1>. QED BY <1>1, <1>2, <1>3, <1>5, <1>7 DEF Scanned, sc

LEMMA BlankScanned ==
  ASSUME NEW sc, NEW r, Scanned(sc, r), sc.phase = "command"
  PROVE  Scanned([sc EXCEPT !.pos = @ + 1, !.gap = Append(@, sc.pos)],
                 Append(r, [kind |-> "blank", pos |-> sc.pos]))
<1> DEFINE e == [kind |-> "blank", pos |-> sc.pos]
           q == Append(r, e)
           d == [sc EXCEPT !.pos = @ + 1, !.gap = Append(@, sc.pos)]
           g == Len(sc.gap)
<1>1. sc \in Scans /\ r \in Seq(Chr) /\ r # <<>>
  BY DEF Scanned
<1>2. e \in Chr /\ e.kind = "blank" /\ g \in Nat
  BY <1>1, ScanFields DEF Chr
<1>3. /\ Append(sc.gap, sc.pos) \in Seq(Nat) /\ Len(Append(sc.gap, sc.pos)) = g + 1
      /\ \A k \in 1 .. g : Append(sc.gap, sc.pos)[k] = sc.gap[k]
      /\ Append(sc.gap, sc.pos)[g + 1] = sc.pos
  BY <1>1, ScanFields, AppendProperties
<1>4. /\ d \in Scans /\ d.phase = "command" /\ d.gap = Append(sc.gap, sc.pos) /\ d.lf = sc.lf
      /\ d.buf = sc.buf /\ d.span = sc.span
  <2>1. sc.pos + 1 \in Nat /\ Append(sc.gap, sc.pos) \in Offsets
    BY <1>1, <1>3, ScanFields DEF Offsets
  <2>. QED BY <1>1, <2>1 DEF Scans
<1>5. Grown(r, e, q)
  BY <1>1, <1>2, GrownIs
<1> HIDE DEF d, q, g
<1>6. Kept(q) = Kept(r) /\ Len(q) = Len(r) + 1 /\ Len(r) \in Nat /\ q \in Seq(Chr)
      /\ (\A k \in 1 .. Len(r) : q[k] = r[k]) /\ q[Len(r) + 1] = e
  <2>1. e.kind # "text"
    BY <1>2
  <2>. QED BY <1>5, <2>1, KeptByBlank DEF Grown
<1>7. PICK b : Waits(sc, r, b)
  BY DEF Scanned
<1>8. b \in Nat /\ b # 0 /\ b + g = Len(r)
  BY <1>1, <1>7 DEF Waits, g
<1>9. Waits(d, q, b)
  <2>1. b + Len(d.gap) = Len(q)
    <3>1. Len(d.gap) = g + 1
      BY <1>3, <1>4
    <3>. QED BY <1>2, <1>6, <1>8, <3>1
  <2>2. \A k \in 1 .. g + 1 : q[b + k] = [kind |-> "blank", pos |-> d.gap[k]]
    <3>1. ASSUME NEW k \in 1 .. g PROVE q[b + k] = [kind |-> "blank", pos |-> d.gap[k]]
      <4>1. b + k \in 1 .. Len(r) /\ r[b + k] = [kind |-> "blank", pos |-> sc.gap[k]]
        BY <1>2, <1>7, <1>8 DEF Waits, g
      <4>. QED BY <1>3, <1>4, <1>6, <4>1
    <3>2. q[b + (g + 1)] = [kind |-> "blank", pos |-> d.gap[g + 1]]
      <4>1. b + (g + 1) = Len(r) + 1
        BY <1>2, <1>8
      <4>. QED BY <1>3, <1>4, <1>6, <4>1
    <3>3. \A k \in 1 .. g + 1 : k \in 1 .. g \/ k = g + 1
      BY <1>2
    <3>. QED BY <3>1, <3>2, <3>3
  <2>3. q[b] = r[b]
    BY <1>2, <1>6, <1>8
  <2>. QED BY <1>3, <1>4, <1>7, <1>8, <2>1, <2>2, <2>3 DEF Waits
<1>10. PICK s, c : Enum(s, c, Kept(r))
  BY DEF Scanned
<1>11. Meant(q) = Meant(r)
  <2>1. c \in Nat /\ Meant(r) = [k \in 1 .. c |-> r[s[k]].pos]
        /\ Meant(q) = [k \in 1 .. c |-> q[s[k]].pos]
    BY <1>1, <1>6, <1>10, MeantIs
  <2>2. \A k \in 1 .. c : s[k] \in 1 .. Len(r)
    BY <1>1, <1>10, KeptIs DEF Enum
  <2>. QED BY <1>6, <2>1, <2>2
<1>12. q # <<>>
  BY <1>6
<1>. QED BY <1>4, <1>6, <1>9, <1>10, <1>11, <1>12 DEF Scanned, d, q

LEMMA EscapeScanned ==
  ASSUME NEW sc, NEW r, Scanned(sc, r)
  PROVE  Scanned([sc EXCEPT !.phase = "command", !.pos = @ + 1, !.buf = @ \o sc.span,
                            !.span = <<>>, !.gap = <<>>, !.lf = TRUE],
                 Append(r, [kind |-> "esc", pos |-> sc.pos]))
<1> DEFINE e == [kind |-> "esc", pos |-> sc.pos]
           q == Append(r, e)
           d == [sc EXCEPT !.phase = "command", !.pos = @ + 1, !.buf = @ \o sc.span,
                           !.span = <<>>, !.gap = <<>>, !.lf = TRUE]
<1>1. sc \in Scans /\ r \in Seq(Chr)
  BY DEF Scanned
<1>2. e \in Chr /\ e.kind = "esc"
  BY <1>1, ScanFields DEF Chr
<1>3. sc.buf \o sc.span \in Seq(Nat) /\ (sc.buf \o sc.span) \o <<>> = sc.buf \o sc.span
  BY <1>1, ScanFields, ConcatProperties, ConcatEmptySeq
<1>4. /\ d \in Scans /\ d.phase = "command" /\ d.gap = <<>> /\ d.lf
      /\ d.buf = sc.buf \o sc.span /\ d.span = <<>>
  <2>1. sc.pos + 1 \in Nat /\ sc.buf \o sc.span \in Offsets /\ <<>> \in Offsets
    BY <1>1, <1>3, ScanFields DEF Offsets
  <2>. QED BY <1>1, <2>1 DEF Scans
<1>5. Grown(r, e, q)
  BY <1>1, <1>2, GrownIs
<1> HIDE DEF d, q
<1>6. Kept(q) = Kept(r) /\ Len(q) = Len(r) + 1 /\ Len(r) \in Nat /\ q \in Seq(Chr)
      /\ (\A k \in 1 .. Len(r) : q[k] = r[k]) /\ q[Len(r) + 1] = e
  <2>1. e.kind # "text"
    BY <1>2
  <2>. QED BY <1>5, <2>1, KeptByBlank DEF Grown
<1>7. Waits(d, q, Len(q))
  BY <1>2, <1>4, <1>6 DEF Waits
<1>8. PICK s, c : Enum(s, c, Kept(r))
  BY DEF Scanned
<1>9. Meant(q) = Meant(r)
  <2>1. c \in Nat /\ Meant(r) = [k \in 1 .. c |-> r[s[k]].pos]
        /\ Meant(q) = [k \in 1 .. c |-> q[s[k]].pos]
    BY <1>1, <1>6, <1>8, MeantIs
  <2>2. \A k \in 1 .. c : s[k] \in 1 .. Len(r)
    BY <1>1, <1>8, KeptIs DEF Enum
  <2>. QED BY <1>6, <2>1, <2>2
<1>10. q # <<>>
  BY <1>6
<1>11. Meant(q) = d.buf \o d.span
  BY <1>3, <1>4, <1>9 DEF Scanned
<1>. QED BY <1>4, <1>6, <1>7, <1>8, <1>10, <1>11 DEF Scanned, d, q

LEMMA MeantJoins ==
  ASSUME NEW r, NEW e, NEW q, Grown(r, e, q), NEW s, NEW c, Enum(s, c, Kept(r)),
         NEW a \in Nat, NEW v \in Offsets, NEW m, m = Len(v), Adds(r, q, a, m),
         \A k \in 1 .. m : q[a + k].pos = v[k]
  PROVE  Meant(q) = Meant(r) \o v /\ \E t, n : Enum(t, n, Kept(q))
<1>1. m \in Nat /\ r \in Seq(Chr)
  BY DEF Grown, Offsets
<1> DEFINE u == Meant(r)
           x == Meant(q)
           w == u \o v
<1>2. u \in Offsets /\ Len(u) = c /\ c \in Nat
  BY <1>1, MeantIs DEF Offsets
<1>3. /\ Enum(Extend(s, c, a, m), c + m, Kept(q))
      /\ x \in Offsets /\ Len(x) = c + m
      /\ \A k \in 1 .. c : x[k] = u[k]
      /\ \A k \in 1 .. m : x[c + k] = v[k]
  BY <1>1, MeantGrows DEF Offsets
<1>4. /\ w \in Offsets /\ Len(w) = c + m
      /\ \A k \in 1 .. c : w[k] = u[k]
      /\ \A k \in 1 .. m : w[c + k] = v[k]
  BY <1>2, Joined
<1> HIDE DEF u, x, w
<1>5. \A k \in 1 .. c + m : x[k] = w[k]
  <2>1. SUFFICES ASSUME NEW k \in 1 .. c + m PROVE x[k] = w[k]
    OBVIOUS
  <2>2. k \in 1 .. c \/ (k - c \in 1 .. m /\ c + (k - c) = k)
    BY <1>1, <1>2
  <2>. QED BY <1>3, <1>4, <2>2
<1>6. x = w
  BY <1>3, <1>4, <1>5, SameOffsets
<1>. QED BY <1>3, <1>6 DEF u, x, w

LEMMA TextScanned ==
  ASSUME NEW sc, NEW r, Scanned(sc, r)
  PROVE  Scanned([sc EXCEPT !.phase = "command", !.pos = @ + 1, !.gap = <<>>, !.lf = FALSE,
                            !.span = IF sc.lf THEN <<sc.pos>> ELSE @ \o sc.gap \o <<sc.pos>>],
                 Append(r, [kind |-> "text", pos |-> sc.pos]))
<1> DEFINE e == [kind |-> "text", pos |-> sc.pos]
           q == Append(r, e)
           p == <<sc.pos>>
           d == [sc EXCEPT !.phase = "command", !.pos = @ + 1, !.gap = <<>>, !.lf = FALSE,
                           !.span = IF sc.lf THEN p ELSE @ \o sc.gap \o p]
           more == IF sc.lf THEN p ELSE sc.span \o sc.gap \o p
<1>1. sc \in Scans /\ r \in Seq(Chr)
  BY DEF Scanned
<1>2. e \in Chr /\ e.kind = "text" /\ e.pos = sc.pos
  BY <1>1, ScanFields DEF Chr
<1>3. /\ p \in Offsets /\ Len(p) = 1 /\ p[1] = sc.pos
      /\ sc.buf \in Offsets /\ sc.span \in Offsets /\ sc.gap \in Offsets
  BY <1>1, ScanFields DEF Offsets
<1> HIDE DEF p
<1>4. more \in Offsets
  BY <1>3, Joined
<1>5. d \in Scans /\ d.phase = "command" /\ d.gap = <<>> /\ ~d.lf /\ d.buf = sc.buf
      /\ d.span = more
  <2>1. sc.pos + 1 \in Nat /\ more \in Offsets /\ <<>> \in Offsets
    <3>1. <<>> \in Offsets
      BY DEF Offsets
    <3>. QED BY <1>1, <1>4, <3>1, ScanFields
  <2>2. d = [sc EXCEPT !.phase = "command", !.pos = @ + 1, !.gap = <<>>, !.lf = FALSE,
                       !.span = more]
    BY <1>1 DEF Scans
  <2> HIDE DEF d, more
  <2>. QED BY <1>1, <2>1, <2>2 DEF Scans
<1>6. Grown(r, e, q)
  BY <1>1, <1>2, GrownIs
<1> HIDE DEF d, q, e
<1>7. /\ Len(q) = Len(r) + 1 /\ Len(r) \in Nat /\ q \in Seq(Chr)
      /\ (\A k \in 1 .. Len(r) : q[k] = r[k]) /\ q[Len(r) + 1] = e
  BY <1>6 DEF Grown
<1>8. Waits(d, q, Len(q))
  <2>1. Len(q) # 0 /\ Len(q) \in Nat /\ Len(d.gap) = 0 /\ q[Len(q)].kind = "text"
    BY <1>2, <1>5, <1>7
  <2>. QED BY <1>5, <2>1 DEF Waits
<1>9. PICK s, c : Enum(s, c, Kept(r))
  BY DEF Scanned
<1>10. PICK b : Waits(sc, r, b)
  BY DEF Scanned
<1>11. Trailing(r, b) /\ b \in Nat /\ b + Len(sc.gap) = Len(r) /\ Len(sc.gap) \in Nat
  BY <1>10, WaitsTrails
<1>12. Meant(r) = sc.buf \o sc.span
  BY DEF Scanned
<1>13. /\ Meant(q) = Meant(r) \o (IF b = 0 \/ sc.lf THEN p ELSE sc.gap \o p)
       /\ \E t, n : Enum(t, n, Kept(q))
  <2>1. CASE b = 0 \/ sc.lf
    <3>1. b > 0 => r[b].kind = "esc"
      BY <1>10, <2>1 DEF Waits
    <3>2. Adds(r, q, Len(r), 1)
      BY <1>2, <1>6, <1>11, <3>1, KeptByFirst
    <3>3. \A k \in 1 .. 1 : q[Len(r) + k].pos = p[k]
      BY <1>2, <1>3, <1>7
    <3>4. Meant(q) = Meant(r) \o p /\ \E t, n : Enum(t, n, Kept(q))
      BY <1>3, <1>6, <1>7, <1>9, <3>2, <3>3, MeantJoins
    <3>. QED BY <2>1, <3>4
  <2>2. CASE b # 0 /\ ~sc.lf
    <3> DEFINE v == sc.gap \o p
               g == Len(sc.gap)
               m == Len(r) - b + 1
    <3>1. b > 0 /\ r[b].kind = "text"
      BY <1>10, <1>11, <2>2 DEF Waits
    <3>2. Adds(r, q, b, m)
      BY <1>2, <1>6, <1>11, <3>1, KeptByText
    <3>3. /\ v \in Offsets /\ Len(v) = g + 1
          /\ \A k \in 1 .. g : v[k] = sc.gap[k]
          /\ v[g + 1] = p[1]
      <4>1. v \in Offsets /\ Len(v) = g + Len(p) /\ (\A k \in 1 .. g : v[k] = sc.gap[k])
            /\ \A k \in 1 .. Len(p) : v[g + k] = p[k]
        BY <1>3, Joined
      <4> HIDE DEF v, g
      <4>. QED BY <1>3, <4>1
    <3> HIDE DEF v
    <3>4. m = g + 1
      BY <1>7, <1>11
    <3>5. \A k \in 1 .. g + 1 : q[b + k].pos = v[k]
      <4>1. ASSUME NEW k \in 1 .. g PROVE q[b + k].pos = v[k]
        <5>1. b + k \in 1 .. Len(r) /\ r[b + k] = [kind |-> "blank", pos |-> sc.gap[k]]
          BY <1>10, <1>11 DEF Waits
        <5>2. q[b + k] = r[b + k]
          BY <1>7, <1>11, <5>1
        <5>. QED BY <3>3, <5>1, <5>2
      <4>2. q[b + (g + 1)].pos = v[g + 1]
        <5>1. b + (g + 1) = Len(r) + 1
          BY <1>7, <1>11
        <5>. QED BY <1>2, <1>3, <1>7, <3>3, <5>1
      <4>3. \A k \in 1 .. g + 1 : k \in 1 .. g \/ k = g + 1
        BY <1>11
      <4>. QED BY <4>1, <4>2, <4>3
    <3> HIDE DEF g, m
    <3>6. Meant(q) = Meant(r) \o v /\ \E t, n : Enum(t, n, Kept(q))
      BY <1>6, <1>9, <1>11, <3>2, <3>3, <3>4, <3>5, MeantJoins
    <3>. QED BY <2>2, <3>6 DEF v
  <2>. QED BY <2>1, <2>2
<1>14. Meant(q) = d.buf \o d.span
  <2>1. CASE sc.lf
    <3>1. sc.span = <<>>
      BY <2>1 DEF Scanned
    <3>2. Meant(r) = sc.buf
      BY <1>3, <1>12, <3>1, Joined
    <3>. QED BY <1>5, <1>13, <2>1, <3>2 DEF more
  <2>2. CASE ~sc.lf /\ b = 0
    <3>1. r = <<>>
      BY <1>10, <2>2 DEF Waits
    <3>2. sc.gap = <<>>
      BY <1>3, <1>11, <2>2, <3>1
    <3>3. sc.span \o sc.gap = sc.span
      BY <1>3, <3>2, Joined
    <3>4. d.span = sc.span \o p
      BY <1>5, <2>2, <3>3 DEF more
    <3>5. Meant(q) = (sc.buf \o sc.span) \o p
      BY <1>12, <1>13, <2>2
    <3>6. Meant(q) = sc.buf \o (sc.span \o p)
      BY <1>3, <3>5, JoinedTwice, Zenon
    <3>. QED BY <1>5, <3>4, <3>6
  <2>3. CASE ~sc.lf /\ b # 0
    <3>1. Meant(q) = (sc.buf \o sc.span) \o (sc.gap \o p)
      BY <1>12, <1>13, <2>3
    <3>2. sc.gap \o p \in Offsets
      BY <1>3, Joined
    <3>3. Meant(q) = sc.buf \o (sc.span \o (sc.gap \o p))
      BY <1>3, <3>1, <3>2, JoinedTwice, Zenon
    <3>4. d.span = (sc.span \o sc.gap) \o p
      BY <1>5, <2>3 DEF more
    <3>5. d.span = sc.span \o (sc.gap \o p)
      BY <1>3, <3>4, JoinedTwice
    <3>. QED BY <1>5, <3>3, <3>5
  <2>. QED BY <2>1, <2>2, <2>3
<1>15. q # <<>>
  BY <1>7
<1>. QED BY <1>5, <1>7, <1>8, <1>13, <1>14, <1>15 DEF Scanned, d, q, e, p

-----------------------------------------------------------------------------
(* The commands that were read *)

Cmds == [type : {"NAME", "VALUE", "INSIDE", "DONE"}, raw : Seq(Chr)]

\* ds are the commands cs and x.
More(cs, x, ds) ==
  /\ cs \in Seq(Cmds) /\ ds \in Seq(Cmds) /\ x \in Cmds
  /\ Len(cs) \in Nat /\ Len(ds) = Len(cs) + 1
  /\ (\A k \in 1 .. Len(cs) : ds[k] = cs[k] /\ cs[k] \in Cmds) /\ ds[Len(cs) + 1] = x

LEMMA MoreIs ==
  ASSUME NEW cs \in Seq(Cmds), NEW x \in Cmds
  PROVE  More(cs, x, Append(cs, x))
BY AppendProperties DEF More

\* The last command that begins or ends a block, and the last name.
LastEnd(cs, e) ==
  /\ e \in 0 .. Len(cs) /\ (e = 0 \/ cs[e].type \in {"INSIDE", "DONE"})
  /\ \A k \in e + 1 .. Len(cs) : cs[k].type \notin {"INSIDE", "DONE"}

LastName(cs, l) ==
  /\ l \in 0 .. Len(cs) /\ (l = 0 \/ cs[l].type = "NAME")
  /\ \A k \in l + 1 .. Len(cs) : cs[k].type # "NAME"

Names(cs) == {i \in 1 .. Len(cs) : cs[i].type = "NAME"}
Opens(cs) == {i \in 1 .. Len(cs) : cs[i].type = "INSIDE"}
NamesOut(cs) == {i \in Names(cs) : Place(cs, i) = 0 \/ cs[Place(cs, i)].type = "DONE"}
NamesIn(cs, b) == {i \in Names(cs) : Place(cs, i) = b}

\* That of the first i commands which is a place is one of them.
PlacesFound(cs) == \A i \in 1 .. Len(cs) : Place(cs, i) \in 0 .. Len(cs)

LEMMA LastIs ==
  ASSUME NEW cs, NEW x, NEW ds, More(cs, x, ds)
  PROVE  /\ \A e : LastEnd(cs, e) =>
              LastEnd(ds, IF x.type \in {"INSIDE", "DONE"} THEN Len(cs) + 1 ELSE e)
         /\ \A l : LastName(cs, l) => LastName(ds, IF x.type = "NAME" THEN Len(cs) + 1 ELSE l)
<1>1. /\ Len(cs) \in Nat /\ Len(ds) = Len(cs) + 1 /\ ds[Len(cs) + 1] = x
      /\ \A k \in 1 .. Len(cs) : ds[k] = cs[k]
  BY DEF More
<1>2. \A k \in Len(cs) + 2 .. Len(ds) : FALSE
  BY <1>1
<1>3. ASSUME NEW e, LastEnd(cs, e)
      PROVE  LastEnd(ds, IF x.type \in {"INSIDE", "DONE"} THEN Len(cs) + 1 ELSE e)
  <2>1. CASE x.type \in {"INSIDE", "DONE"}
    BY <1>1, <1>2, <2>1 DEF LastEnd
  <2>2. CASE x.type \notin {"INSIDE", "DONE"}
    <3>1. e \in 0 .. Len(ds) /\ (e = 0 \/ ds[e].type \in {"INSIDE", "DONE"})
      BY <1>1, <1>3 DEF LastEnd
    <3>2. \A k \in e + 1 .. Len(ds) : ds[k].type \notin {"INSIDE", "DONE"}
      BY <1>1, <1>3, <2>2 DEF LastEnd
    <3>. QED BY <2>2, <3>1, <3>2 DEF LastEnd
  <2>. QED BY <2>1, <2>2
<1>4. ASSUME NEW l, LastName(cs, l)
      PROVE  LastName(ds, IF x.type = "NAME" THEN Len(cs) + 1 ELSE l)
  <2>1. CASE x.type = "NAME"
    BY <1>1, <1>2, <2>1 DEF LastName
  <2>2. CASE x.type # "NAME"
    <3>1. l \in 0 .. Len(ds) /\ (l = 0 \/ ds[l].type = "NAME")
      BY <1>1, <1>4 DEF LastName
    <3>2. \A k \in l + 1 .. Len(ds) : ds[k].type # "NAME"
      BY <1>1, <1>4, <2>2 DEF LastName
    <3>. QED BY <2>2, <3>1, <3>2 DEF LastName
  <2>. QED BY <2>1, <2>2
<1>. QED BY <1>3, <1>4

LEMMA PlaceIs ==
  ASSUME NEW cs, NEW x, NEW ds, More(cs, x, ds), NEW e, LastEnd(cs, e)
  PROVE  /\ \A i \in 1 .. Len(cs) : Place(ds, i) = Place(cs, i)
         /\ Place(ds, Len(cs) + 1) = e
<1>1. /\ Len(cs) \in Nat /\ Len(ds) = Len(cs) + 1
      /\ \A k \in 1 .. Len(cs) : ds[k] = cs[k]
  BY DEF More
<1>2. ASSUME NEW i \in 1 .. Len(cs) PROVE Place(ds, i) = Place(cs, i)
  <2>1. \A j \in 1 .. i - 1 : ds[j] = cs[j]
    BY <1>1
  <2>2. {j \in 1 .. i - 1 : ds[j].type \in {"INSIDE", "DONE"}}
        = {j \in 1 .. i - 1 : cs[j].type \in {"INSIDE", "DONE"}}
    BY <2>1
  <2>. QED BY <2>2, Zenon DEF Place
<1>3. Place(ds, Len(cs) + 1) = e
  <2> DEFINE S == {0} \cup {j \in 1 .. (Len(cs) + 1) - 1 : ds[j].type \in {"INSIDE", "DONE"}}
  <2>1. (Len(cs) + 1) - 1 = Len(cs)
    BY <1>1
  <2>2. e \in S
    BY <1>1, <2>1 DEF LastEnd
  <2>3. \A j \in S : j \in Nat /\ j <= e
    <3>1. SUFFICES ASSUME NEW j \in 1 .. Len(cs), ds[j].type \in {"INSIDE", "DONE"}
                   PROVE  j <= e
      BY <2>1 DEF LastEnd
    <3>2. cs[j].type \in {"INSIDE", "DONE"}
      BY <1>1, <3>1
    <3>. QED BY <3>2 DEF LastEnd
  <2>4. Place(ds, Len(cs) + 1) = Max(S)
    BY Zenon DEF Place
  <2> HIDE DEF S
  <2>5. \A m \in S : (\A j \in S : m >= j) => m = e
    BY <2>2, <2>3
  <2>6. e \in S /\ \A j \in S : e >= j
    BY <2>2, <2>3
  <2>7. Max(S) = e
    BY <2>5, <2>6 DEF Max
  <2>. QED BY <2>4, <2>7
<1>. QED BY <1>2, <1>3

LEMMA PlacesKnown ==
  ASSUME NEW cs, NEW x, NEW ds, More(cs, x, ds), NEW e, LastEnd(cs, e), PlacesFound(cs)
  PROVE  PlacesFound(ds)
<1>1. Len(cs) \in Nat /\ Len(ds) = Len(cs) + 1
  BY DEF More
<1>2. \A i \in 1 .. Len(ds) : i \in 1 .. Len(cs) \/ i = Len(cs) + 1
  BY <1>1
<1>3. e \in 0 .. Len(ds) /\ \A j \in 0 .. Len(cs) : j \in 0 .. Len(ds)
  BY <1>1 DEF LastEnd
<1>. QED BY <1>2, <1>3, PlaceIs DEF PlacesFound

LEMMA NamesGrow ==
  ASSUME NEW cs, NEW x, NEW ds, More(cs, x, ds)
  PROVE  /\ Names(ds) = IF x.type = "NAME" THEN Names(cs) \cup {Len(cs) + 1} ELSE Names(cs)
         /\ Opens(ds) = IF x.type = "INSIDE" THEN Opens(cs) \cup {Len(cs) + 1} ELSE Opens(cs)
<1>1. /\ Len(cs) \in Nat /\ Len(ds) = Len(cs) + 1 /\ ds[Len(cs) + 1] = x
      /\ \A k \in 1 .. Len(cs) : ds[k] = cs[k]
  BY DEF More
<1>2. \A i : i \in 1 .. Len(ds) <=> i \in 1 .. Len(cs) \/ i = Len(cs) + 1
  BY <1>1
<1>. QED BY <1>1, <1>2 DEF Names, Opens

\* A name is outside or in the block that the last command opened.
LEMMA OutGrows ==
  ASSUME NEW cs, NEW x, NEW ds, More(cs, x, ds), NEW e, LastEnd(cs, e), PlacesFound(cs)
  PROVE  NamesOut(ds) = IF x.type = "NAME" /\ (e = 0 \/ cs[e].type = "DONE")
                        THEN NamesOut(cs) \cup {Len(cs) + 1} ELSE NamesOut(cs)
<1> DEFINE n == Len(cs)
<1>1. n \in Nat /\ \A k \in 1 .. n : ds[k] = cs[k]
  BY DEF More
<1>2. (\A i \in 1 .. n : Place(ds, i) = Place(cs, i)) /\ Place(ds, n + 1) = e
  BY PlaceIs
<1>3. \A i \in Names(cs) : i \in 1 .. n /\ Place(cs, i) \in 0 .. n
  BY DEF Names, PlacesFound
<1>4. \A i \in Names(cs) : i \in NamesOut(cs)
        <=> Place(ds, i) = 0 \/ ds[Place(ds, i)].type = "DONE"
  <2>1. \A j \in 0 .. n : j = 0 \/ ds[j] = cs[j]
    BY <1>1
  <2>. QED BY <1>2, <1>3, <2>1 DEF NamesOut
<1>5. e = 0 \/ ds[e] = cs[e]
  BY <1>1 DEF LastEnd
<1>6. NamesOut(cs) \subseteq Names(cs)
  BY DEF NamesOut
<1>7. Names(ds) = IF x.type = "NAME" THEN Names(cs) \cup {n + 1} ELSE Names(cs)
  BY NamesGrow
<1> HIDE DEF n
<1>8. NamesOut(ds) = {i \in Names(ds) : Place(ds, i) = 0 \/ ds[Place(ds, i)].type = "DONE"}
  BY DEF NamesOut
<1>9. CASE x.type = "NAME"
  <2>1. \A i \in NamesOut(ds) : i \in NamesOut(cs) \/ (i = n + 1 /\ (e = 0 \/ cs[e].type = "DONE"))
    BY <1>2, <1>4, <1>5, <1>7, <1>8, <1>9
  <2>2. \A i \in NamesOut(cs) : i \in NamesOut(ds)
    BY <1>4, <1>6, <1>7, <1>8, <1>9
  <2>3. e = 0 \/ cs[e].type = "DONE" => n + 1 \in NamesOut(ds)
    BY <1>2, <1>5, <1>7, <1>8, <1>9
  <2>. QED BY <1>9, <2>1, <2>2, <2>3 DEF n
<1>10. CASE x.type # "NAME"
  BY <1>4, <1>6, <1>7, <1>8, <1>10
<1>. QED BY <1>9, <1>10

LEMMA InGrows ==
  ASSUME NEW cs, NEW x, NEW ds, More(cs, x, ds), NEW e, LastEnd(cs, e), PlacesFound(cs), NEW b
  PROVE  /\ NamesIn(ds, b) = IF x.type = "NAME" /\ e = b
                             THEN NamesIn(cs, b) \cup {Len(cs) + 1} ELSE NamesIn(cs, b)
         /\ NamesIn(ds, Len(cs) + 1) = {}
<1> DEFINE n == Len(cs)
<1>1. n \in Nat
  BY DEF More
<1>2. (\A i \in 1 .. n : Place(ds, i) = Place(cs, i)) /\ Place(ds, n + 1) = e
  BY PlaceIs
<1>3. \A i \in Names(cs) : i \in 1 .. n /\ Place(cs, i) \in 0 .. n
  BY DEF Names, PlacesFound
<1>4. Names(ds) = IF x.type = "NAME" THEN Names(cs) \cup {n + 1} ELSE Names(cs)
  BY NamesGrow
<1>5. e \in 0 .. n
  BY DEF LastEnd
<1>6. \A i \in Names(ds) : Place(ds, i) # n + 1
  <2>1. \A j \in 0 .. n : j # n + 1
    BY <1>1
  <2>. QED BY <1>2, <1>3, <1>4, <1>5, <2>1
<1>7. \A i \in Names(cs) : i \in Names(ds) /\ Place(ds, i) = Place(cs, i)
  BY <1>2, <1>3, <1>4
<1>8. \A i \in Names(ds) : i \in Names(cs) \/ (x.type = "NAME" /\ i = n + 1)
  BY <1>4
<1>9. x.type = "NAME" => n + 1 \in Names(ds)
  BY <1>4
<1>. QED BY <1>2, <1>6, <1>7, <1>8, <1>9 DEF NamesIn

-----------------------------------------------------------------------------
(* The tokens *)

Rows == Seq(Tokens)

\* tok has the name that was read at i, and the last value given to it.
Told(cs, tok, i) ==
  /\ tok \in Tokens /\ Says(tok.name, cs[i].raw)
  /\ \/ Value(cs, i) = {} /\ tok.value = None
     \/ \E v \in Value(cs, i) : /\ \A w \in Value(cs, i) : w <= v
                                /\ Says(tok.value, cs[v].raw)

Listed(cs, tokens, is) ==
  \E s, n : /\ Enum(s, n, is)
            /\ \/ tokens = None /\ n = 0
               \/ /\ tokens \in Rows /\ Len(tokens) = n
                  /\ \A k \in 1 .. n : Told(cs, tokens[k], s[k])

\* t lists what s does, and the number behind a.
EnumMore(s, n, T, a, t) ==
  Enum(t, n + 1, T) /\ t[n + 1] = a + 1 /\ \A k \in 1 .. n : t[k] = s[k]

LEMMA EnumLater ==
  ASSUME NEW s, NEW n, NEW S, Enum(s, n, S), NEW a \in Nat, \A i \in S : i <= a,
         NEW T, T = S \cup {a + 1}
  PROVE  \E t : EnumMore(s, n, T, a, t)
<1>1. T = S \cup (a + 1 .. a + 1) /\ 1 \in Nat
  OBVIOUS
<1> DEFINE t == Extend(s, n, a, 1)
<1>2. /\ Enum(t, n + 1, T) /\ \A k \in 1 .. n : t[k] = s[k]
      /\ \A k \in 1 .. 1 : t[n + k] = a + k
  BY <1>1, EnumExtends
<1>3. 1 \in 1 .. 1
  OBVIOUS
<1> HIDE DEF t
<1>4. t[n + 1] = a + 1
  BY <1>2, <1>3, Zenon
<1>. QED BY <1>2, <1>4 DEF EnumMore

LEMMA LastNameIs ==
  ASSUME NEW cs, NEW x, NEW ds, More(cs, x, ds), NEW l, LastName(cs, l)
  PROVE  l \in Nat /\ (\A i \in Names(cs) : i <= l) /\ (l # 0 => l \in Names(cs))
<1>1. Len(cs) \in Nat /\ l \in 0 .. Len(cs)
  BY DEF More, LastName
<1>2. \A i \in 1 .. Len(cs) : i <= l \/ i \in l + 1 .. Len(cs)
  BY <1>1
<1>. QED BY <1>1, <1>2 DEF LastName, Names

LEMMA ValueIs ==
  ASSUME NEW cs, NEW x, NEW ds, More(cs, x, ds), NEW l, LastName(cs, l)
  PROVE  /\ \A i \in Names(cs) :
              Value(ds, i) = IF x.type = "VALUE" /\ i = l THEN Value(cs, i) \cup {Len(cs) + 1}
                             ELSE Value(cs, i)
         /\ \A i \in Names(cs) : \A v \in Value(cs, i) : v \in 1 .. Len(cs) /\ ds[v] = cs[v]
         /\ Value(ds, Len(cs) + 1) = {}
<1> DEFINE n == Len(cs)
<1>1. /\ n \in Nat /\ Len(ds) = n + 1 /\ ds[n + 1] = x
      /\ \A k \in 1 .. n : ds[k] = cs[k]
  BY DEF More
<1>2. l \in Nat /\ (\A i \in Names(cs) : i <= l) /\ (l # 0 => l \in Names(cs))
  BY LastNameIs
<1>3. \A k \in l + 1 .. n : cs[k].type # "NAME"
  BY DEF LastName
<1> HIDE DEF n
<1>4. \A i \in Names(cs) : i \in 1 .. n
  BY DEF Names, n
<1>5. ASSUME NEW i \in Names(cs), NEW j \in 1 .. n
      PROVE  j \in Value(ds, i) <=> j \in Value(cs, i)
  <2>1. i \in Nat /\ Len(cs) = n /\ \A k \in i + 1 .. j : k \in 1 .. n /\ ds[k] = cs[k]
    BY <1>1, <1>4 DEF n
  <2>2. j \in i + 1 .. Len(ds) <=> j \in i + 1 .. Len(cs)
    BY <1>1, <2>1
  <2>3. ds[j] = cs[j]
    BY <1>1
  <2>. QED BY <2>1, <2>2, <2>3 DEF Value
<1>6. ASSUME NEW i \in Names(cs)
      PROVE  n + 1 \in Value(ds, i) <=> x.type = "VALUE" /\ i = l
  <2>1. i \in Nat /\ i <= l /\ l \in Names(cs) /\ l \in 1 .. n /\ i \in 1 .. n
    BY <1>1, <1>2, <1>4
  <2>2. n + 1 \in i + 1 .. Len(ds)
    BY <1>1, <2>1
  <2>3. CASE i = l
    <3>1. \A k \in i + 1 .. n + 1 : k \in l + 1 .. n \/ k = n + 1
      BY <1>1, <2>1, <2>3
    <3>2. \A k \in l + 1 .. n : ds[k] = cs[k]
      BY <1>1, <2>1
    <3>3. x.type = "VALUE" => \A k \in i + 1 .. n + 1 : ds[k].type # "NAME"
      BY <1>1, <1>3, <3>1, <3>2
    <3>. QED BY <1>1, <2>2, <2>3, <3>3 DEF Value
  <2>4. CASE i # l
    <3>1. l \in i + 1 .. n + 1 /\ ds[l] = cs[l]
      BY <1>1, <2>1, <2>4
    <3>2. ds[l].type = "NAME"
      BY <2>1, <3>1 DEF Names
    <3>. QED BY <2>4, <3>1, <3>2 DEF Value
  <2>. QED BY <2>3, <2>4
<1>7. ASSUME NEW i \in Names(cs)
      PROVE  /\ \A v \in Value(ds, i) : v \in 1 .. n \/ v = n + 1
             /\ \A v \in Value(cs, i) : v \in 1 .. n
  <2>1. i \in Nat
    BY <1>1, <1>4
  <2>2. /\ \A v \in Value(ds, i) : v \in i + 1 .. n + 1
        /\ \A v \in Value(cs, i) : v \in i + 1 .. n
    BY <1>1 DEF Value, n
  <2>. QED BY <1>1, <2>1, <2>2
<1>8. ASSUME NEW i \in Names(cs)
      PROVE  Value(ds, i) = IF x.type = "VALUE" /\ i = l THEN Value(cs, i) \cup {n + 1}
                            ELSE Value(cs, i)
  BY <1>5, <1>6, <1>7
<1>9. Value(ds, n + 1) = {}
  <2>1. \A v \in n + 1 + 1 .. Len(ds) : FALSE
    BY <1>1
  <2>. QED BY <2>1 DEF Value
<1>10. \A i \in Names(cs) : \A v \in Value(cs, i) : v \in 1 .. n /\ ds[v] = cs[v]
  BY <1>1, <1>7
<1>. QED BY <1>8, <1>9, <1>10 DEF n

LEMMA ToldStays ==
  ASSUME NEW cs, NEW x, NEW ds, More(cs, x, ds), NEW l, LastName(cs, l),
         NEW i \in Names(cs), x.type # "VALUE" \/ i # l, NEW tok, Told(cs, tok, i)
  PROVE  Told(ds, tok, i)
<1>1. Value(ds, i) = Value(cs, i) /\ \A v \in Value(cs, i) : ds[v] = cs[v]
  BY ValueIs
<1>2. ds[i] = cs[i]
  BY DEF Names, More
<1>. QED BY <1>1, <1>2 DEF Told

LEMMA ToldFirst ==
  ASSUME NEW cs, NEW x, NEW ds, More(cs, x, ds), NEW l, LastName(cs, l),
         NEW text \in Texts, Says(text, x.raw)
  PROVE  Told(ds, Token(text), Len(cs) + 1)
<1>1. Value(ds, Len(cs) + 1) = {} /\ ds[Len(cs) + 1] = x
  BY ValueIs DEF More
<1>2. Token(text) \in Tokens /\ Token(text).name = text /\ Token(text).value = None
  BY DEF Token, Tokens
<1>. QED BY <1>1, <1>2 DEF Told

LEMMA ToldValue ==
  ASSUME NEW cs, NEW x, NEW ds, More(cs, x, ds), NEW l \in Names(cs), LastName(cs, l),
         x.type = "VALUE", NEW text \in Texts, Says(text, x.raw), NEW tok, Told(cs, tok, l)
  PROVE  Told(ds, [tok EXCEPT !.value = text], l)
<1> DEFINE new == [tok EXCEPT !.value = text]
<1>1. new \in Tokens /\ new.name = tok.name /\ new.value = text
  BY DEF Told, Tokens
<1>2. ds[l] = cs[l] /\ ds[Len(cs) + 1] = x /\ Len(cs) \in Nat
  BY DEF Names, More
<1>3. /\ Value(ds, l) = Value(cs, l) \cup {Len(cs) + 1}
      /\ \A v \in Value(cs, l) : v \in 1 .. Len(cs)
  BY ValueIs
<1>4. Len(cs) + 1 \in Value(ds, l) /\ \A w \in Value(ds, l) : w <= Len(cs) + 1
  BY <1>2, <1>3
<1> HIDE DEF new
<1>5. Says(new.name, ds[l].raw) /\ Says(new.value, ds[Len(cs) + 1].raw)
  BY <1>1, <1>2 DEF Told
<1>. QED BY <1>1, <1>4, <1>5 DEF Told, new

LEMMA ListedNone ==
  ASSUME NEW cs
  PROVE  Listed(cs, None, {}) /\ Listed(cs, <<>>, {})
<1>1. <<>> \in Rows /\ Len(<<>>) = 0 /\ \A k \in 1 .. 0 : FALSE
  BY DEF Rows
<1>. QED BY <1>1, EnumNone DEF Listed

LEMMA ListedStays ==
  ASSUME NEW cs, NEW x, NEW ds, More(cs, x, ds), NEW l, LastName(cs, l),
         NEW is, is \subseteq Names(cs), x.type # "VALUE" \/ l \notin is,
         NEW tokens, Listed(cs, tokens, is)
  PROVE  Listed(ds, tokens, is)
<1>1. PICK s, n : /\ Enum(s, n, is)
                  /\ \/ tokens = None /\ n = 0
                     \/ /\ tokens \in Rows /\ Len(tokens) = n
                        /\ \A k \in 1 .. n : Told(cs, tokens[k], s[k])
  BY DEF Listed
<1>2. \A k \in 1 .. n : s[k] \in is /\ s[k] \in Names(cs)
  BY <1>1 DEF Enum
<1>3. \A k \in 1 .. n : Told(cs, tokens[k], s[k]) => Told(ds, tokens[k], s[k])
  BY <1>2, ToldStays
<1>. QED BY <1>1, <1>3 DEF Listed

LEMMA RowsGrow ==
  ASSUME NEW tokens \in Rows, NEW tok \in Tokens
  PROVE  /\ Append(tokens, tok) \in Rows /\ Len(Append(tokens, tok)) = Len(tokens) + 1
         /\ Len(tokens) \in Nat /\ Append(tokens, tok)[Len(tokens) + 1] = tok
         /\ \A k \in 1 .. Len(tokens) : Append(tokens, tok)[k] = tokens[k]
BY AppendProperties DEF Rows

Give(tokens, i, text) == [tokens EXCEPT ![i].value = text]

LEMMA RowsSet ==
  ASSUME NEW tokens \in Rows, NEW text \in Texts, NEW i \in 1 .. Len(tokens),
         NEW new, Give(tokens, i, text) = new
  PROVE  /\ new \in Rows /\ Len(new) = Len(tokens) /\ Len(tokens) \in Nat
         /\ new[i] = [tokens[i] EXCEPT !.value = text]
         /\ \A k \in 1 .. Len(tokens) : k # i => new[k] = tokens[k]
<1> DEFINE tok == [tokens[i] EXCEPT !.value = text]
<1>1. tokens[i] \in Tokens
  BY DEF Rows
<1>2. tok \in Tokens
  BY <1>1 DEF Tokens
<1>3. new = [tokens EXCEPT ![i] = tok]
  BY DEF Give
<1> HIDE DEF tok
<1>4. new \in Seq(Tokens) /\ Len(new) = Len(tokens)
  BY <1>2, <1>3, ExceptSeq DEF Rows
<1>5. new[i] = tok /\ \A k \in 1 .. Len(tokens) : k # i => new[k] = tokens[k]
  BY <1>3 DEF Rows
<1>6. Len(tokens) \in Nat
  BY DEF Rows
<1>. QED BY <1>4, <1>5, <1>6 DEF tok, Rows

LEMMA GiveLen ==
  ASSUME NEW tokens \in Rows, NEW text \in Texts, NEW i \in 1 .. Len(tokens)
  PROVE  Give(tokens, i, text) \in Rows /\ Len(Give(tokens, i, text)) = Len(tokens)
<1> DEFINE new == Give(tokens, i, text)
<1>1. Give(tokens, i, text) = new
  OBVIOUS
<1> HIDE DEF new
<1>2. new \in Rows /\ Len(new) = Len(tokens)
  BY <1>1, RowsSet
<1>. QED BY <1>2 DEF new

LEMMA ListedMore ==
  ASSUME NEW cs, NEW x, NEW ds, More(cs, x, ds), NEW l, LastName(cs, l), x.type # "VALUE",
         NEW is, is \subseteq Names(cs), NEW js, js = is \cup {Len(cs) + 1},
         NEW text \in Texts, Says(text, x.raw),
         NEW tokens, Listed(cs, tokens, is), tokens # None
  PROVE  Listed(ds, Append(tokens, Token(text)), js)
<1>1. PICK s, n : /\ Enum(s, n, is) /\ tokens \in Rows /\ Len(tokens) = n
                  /\ \A k \in 1 .. n : Told(cs, tokens[k], s[k])
  BY DEF Listed
<1>2. \A k \in 1 .. n : s[k] \in Names(cs)
  BY <1>1 DEF Enum
<1>3. \A k \in 1 .. n : Told(ds, tokens[k], s[k])
  BY <1>1, <1>2, ToldStays
<1> DEFINE new == Append(tokens, Token(text))
<1>4. Told(ds, Token(text), Len(cs) + 1)
  BY ToldFirst
<1>5. /\ new \in Rows /\ Len(new) = n + 1 /\ n \in Nat /\ new[n + 1] = Token(text)
      /\ \A k \in 1 .. n : new[k] = tokens[k]
  BY <1>1, <1>4, RowsGrow DEF Told
<1>6. /\ Len(cs) \in Nat /\ \A i \in is : i <= Len(cs)
  BY DEF More, Names
<1>8. PICK t : EnumMore(s, n, js, Len(cs), t)
  BY <1>1, <1>6, EnumLater
<1>9. /\ Enum(t, n + 1, js) /\ t[n + 1] = Len(cs) + 1
      /\ \A k \in 1 .. n : t[k] = s[k]
  BY <1>8 DEF EnumMore
<1>10. \A k \in 1 .. n + 1 : k \in 1 .. n \/ k = n + 1
  BY <1>5
<1> HIDE DEF new
<1>11. \A k \in 1 .. n + 1 : Told(ds, new[k], t[k])
  BY <1>3, <1>4, <1>5, <1>9, <1>10
<1>12. Listed(ds, new, js)
  BY <1>5, <1>9, <1>11 DEF Listed
<1>. QED BY <1>12 DEF new

LEMMA ListedValue ==
  ASSUME NEW cs, NEW x, NEW ds, More(cs, x, ds), NEW l, LastName(cs, l), x.type = "VALUE",
         NEW is, is \subseteq Names(cs), l \in is, NEW text \in Texts, Says(text, x.raw),
         NEW tokens, Listed(cs, tokens, is), NEW i, i = Len(tokens)
  PROVE  Listed(ds, Give(tokens, i, text), is) /\ tokens \in Rows /\ i \in 1 .. Len(tokens)
<1>1. PICK s, n : /\ Enum(s, n, is)
                  /\ \/ tokens = None /\ n = 0
                     \/ /\ tokens \in Rows /\ Len(tokens) = n
                        /\ \A k \in 1 .. n : Told(cs, tokens[k], s[k])
  BY DEF Listed
<1>2. /\ n \in Nat /\ \A k \in 1 .. n : s[k] \in Nat /\ s[k] \in is
      /\ \A a, b \in 1 .. n : a < b => s[a] < s[b]
  BY <1>1 DEF Enum
<1>3. PICK c \in 1 .. n : s[c] = l
  BY <1>1 DEF Enum
<1>4. l \in Nat /\ \A j \in is : j <= l
  BY LastNameIs
<1>5. s[n] = l /\ n \in 1 .. n
  <2>1. n \in 1 .. n
    BY <1>2, <1>3
  <2>2. s[n] \in Nat /\ s[n] <= l /\ (c < n => s[c] < s[n])
    BY <1>2, <1>4, <2>1
  <2>3. c = n
    BY <1>2, <1>3, <1>4, <2>2
  <2>. QED BY <1>3, <2>1, <2>3
<1>6. /\ tokens \in Rows /\ Len(tokens) = n /\ i = n
      /\ \A k \in 1 .. n : Told(cs, tokens[k], s[k])
  BY <1>1, <1>5
<1> DEFINE new == Give(tokens, i, text)
<1>0. Give(tokens, i, text) = new
  OBVIOUS
<1> HIDE DEF new
<1>7. /\ new \in Rows /\ Len(new) = n /\ new[n] = [tokens[n] EXCEPT !.value = text]
      /\ \A k \in 1 .. n : k # n => new[k] = tokens[k]
  <2>1. i \in 1 .. Len(tokens)
    BY <1>5, <1>6
  <2>2. /\ new \in Rows /\ Len(new) = Len(tokens) /\ Len(tokens) \in Nat
        /\ new[i] = [tokens[i] EXCEPT !.value = text]
        /\ \A k \in 1 .. Len(tokens) : k # i => new[k] = tokens[k]
    BY <1>0, <1>6, <2>1, RowsSet
  <2>. QED BY <1>6, <2>2, Zenon
<1>8. Told(ds, [tokens[n] EXCEPT !.value = text], l)
  BY <1>5, <1>6, ToldValue
<1>9. \A k \in 1 .. n : k # n => s[k] # l
  BY <1>2, <1>5
<1>10. \A k \in 1 .. n : k # n => Told(ds, tokens[k], s[k])
  BY <1>2, <1>6, <1>9, ToldStays
<1>11. \A k \in 1 .. n : Told(ds, new[k], s[k])
  BY <1>5, <1>7, <1>8, <1>10
<1>12. Listed(ds, new, is)
  BY <1>1, <1>7, <1>11 DEF Listed
<1>. QED BY <1>5, <1>6, <1>12 DEF new

\* The witnesses are what Lists speaks of.
LEMMA ListedLists ==
  ASSUME ConfAssumption, NEW cs, NEW tokens, NEW is, is \subseteq Names(cs),
         Listed(cs, tokens, is), Len(cs) \in Nat
  PROVE  Lists(cs, tokens, is)
<1>1. PICK s, n : /\ Enum(s, n, is)
                  /\ \/ tokens = None /\ n = 0
                     \/ /\ tokens \in Rows /\ Len(tokens) = n
                        /\ \A k \in 1 .. n : Told(cs, tokens[k], s[k])
  BY DEF Listed
<1>2. Cardinality(is) = n
  BY <1>1, EnumCounts
<1>3. CASE tokens = None
  <2>1. n = 0
    BY <1>1, <1>3 DEF Rows, ConfAssumption
  <2>2. is = {}
    BY <1>1, <2>1 DEF Enum
  <2>. QED BY <1>3, <2>2 DEF Lists
<1>4. CASE tokens # None
  <2>1. /\ tokens \in Rows /\ Len(tokens) = n
        /\ \A k \in 1 .. n : Told(cs, tokens[k], s[k])
    BY <1>1, <1>4
  <2>2. DOMAIN tokens = 1 .. n
    BY <2>1 DEF Rows
  <2>3. ASSUME NEW k \in 1 .. n
        PROVE  LET i == Nth(is, k)
               IN  /\ Says(tokens[k].name, cs[i].raw)
                   /\ IF Value(cs, i) = {} THEN tokens[k].value = None
                      ELSE Says(tokens[k].value, cs[Max(Value(cs, i))].raw)
    <3>1. Nth(is, k) = s[k] /\ s[k] \in Names(cs)
      BY <1>1, EnumNth
    <3>2. Told(cs, tokens[k], s[k])
      BY <2>1
    <3>3. \A j \in Value(cs, s[k]) : j \in Nat
      BY <3>1 DEF Value, Names
    <3>4. CASE Value(cs, s[k]) = {}
      BY <3>1, <3>2, <3>4 DEF Told
    <3>5. CASE Value(cs, s[k]) # {}
      <4>1. PICK v \in Value(cs, s[k]) : /\ \A w \in Value(cs, s[k]) : w <= v
                                         /\ Says(tokens[k].value, cs[v].raw)
        BY <3>2, <3>5 DEF Told
      <4>2. \A m \in Value(cs, s[k]) : (\A w \in Value(cs, s[k]) : m >= w) => m = v
        BY <3>3, <4>1
      <4>3. \A w \in Value(cs, s[k]) : v >= w
        BY <3>3, <4>1
      <4>4. Max(Value(cs, s[k])) = v
        BY <4>2, <4>3 DEF Max
      <4>. QED BY <3>1, <3>2, <3>5, <4>1, <4>4 DEF Told
    <3>. QED BY <3>4, <3>5
  <2>. QED BY <1>2, <1>4, <2>1, <2>2, <2>3 DEF Lists
<1>. QED BY <1>3, <1>4

-----------------------------------------------------------------------------
(* The blocks, and what was built of the commands *)

Blocks == [name : Texts, token : Rows \cup {None}]
BlockRows == Seq(Blocks)
Confs ==
  [token : Rows, block : BlockRows, inblock : BOOLEAN,
   last : {None} \cup [block : Nat, i : Nat]]

\* blk is what the command at o opened.
BlockListed(cs, blk, o) ==
  blk \in Blocks /\ Says(blk.name, cs[o].raw) /\ Listed(cs, blk.token, NamesIn(cs, o))

BlocksListed(cs, blocks, bs) ==
  /\ blocks \in BlockRows /\ Enum(bs, Len(blocks), Opens(cs))
  /\ \A b \in 1 .. Len(blocks) : BlockListed(cs, blocks[b], bs[b])

\* f is in a block when one was opened and not closed since: then in its last.
Stands(cs, f, bs, e) ==
  IF f.inblock THEN Len(f.block) # 0 /\ bs[Len(f.block)] = e
  ELSE e = 0 \/ cs[e].type = "DONE"

\* The last token is that of the last name l.
Points(cs, f, bs, l) ==
  \/ l = 0 /\ f.last = None
  \/ l \in NamesOut(cs) /\ f.last = [block |-> 0, i |-> Len(f.token)]
  \/ \E b \in 1 .. Len(f.block) :
       l \in NamesIn(cs, bs[b]) /\ f.last = [block |-> b, i |-> Len(f.block[b].token)]

BuiltBy(f, cs, e, l, bs) ==
  /\ f \in Confs /\ cs \in Seq(Cmds) /\ PlacesFound(cs)
  /\ LastEnd(cs, e) /\ LastName(cs, l)
  /\ Listed(cs, f.token, NamesOut(cs)) /\ BlocksListed(cs, f.block, bs)
  /\ Stands(cs, f, bs, e) /\ Points(cs, f, bs, l)

Built(f, cs) == \E e, l, bs : BuiltBy(f, cs, e, l, bs)

LEMMA NamesApart ==
  ASSUME NEW cs, NEW o \in Opens(cs)
  PROVE  /\ NamesOut(cs) \subseteq Names(cs) /\ NamesIn(cs, o) \subseteq Names(cs)
         /\ \A i \in NamesIn(cs, o) : i \notin NamesOut(cs) /\ Place(cs, i) = o
<1>1. o \in 1 .. Len(cs) /\ cs[o].type = "INSIDE" /\ o # 0
  BY DEF Opens
<1>. QED BY <1>1 DEF NamesOut, NamesIn

LEMMA BlockStays ==
  ASSUME NEW cs, NEW x, NEW ds, More(cs, x, ds), PlacesFound(cs),
         NEW e, LastEnd(cs, e), NEW l, LastName(cs, l), NEW o \in Opens(cs),
         x.type = "NAME" => e # o, x.type = "VALUE" => l \notin NamesIn(cs, o),
         NEW blk, BlockListed(cs, blk, o)
  PROVE  BlockListed(ds, blk, o)
<1>1. NamesIn(cs, o) \subseteq Names(cs) /\ ds[o] = cs[o]
  BY NamesApart DEF Opens, More
<1>2. NamesIn(ds, o) = NamesIn(cs, o)
  BY InGrows
<1>3. Listed(cs, blk.token, NamesIn(cs, o)) /\ (x.type # "VALUE" \/ l \notin NamesIn(cs, o))
  BY DEF BlockListed
<1>4. Listed(ds, blk.token, NamesIn(cs, o))
  BY <1>1, <1>3, ListedStays
<1>. QED BY <1>1, <1>2, <1>4 DEF BlockListed

\* All blocks but the k-th stay as they are.
Others(cs, x, ds, e, l, blocks, new, bs, k) ==
  /\ new \in BlockRows /\ Len(new) = Len(blocks)
  /\ \A b \in 1 .. Len(blocks) :
       IF b = k THEN BlockListed(ds, new[b], bs[b])
       ELSE /\ new[b] = blocks[b] /\ (x.type = "NAME" => e # bs[b])
            /\ x.type = "VALUE" => l \notin NamesIn(cs, bs[b])

LEMMA BlocksStay ==
  ASSUME NEW cs, NEW x, NEW ds, More(cs, x, ds), PlacesFound(cs), x.type # "INSIDE",
         NEW e, LastEnd(cs, e), NEW l, LastName(cs, l),
         NEW blocks, NEW bs, BlocksListed(cs, blocks, bs),
         NEW new, NEW k, Others(cs, x, ds, e, l, blocks, new, bs, k)
  PROVE  BlocksListed(ds, new, bs)
<1>1. Opens(ds) = Opens(cs)
  BY NamesGrow
<1>2. \A b \in 1 .. Len(blocks) : bs[b] \in Opens(cs) /\ BlockListed(cs, blocks[b], bs[b])
  BY DEF BlocksListed, Enum
<1>3. ASSUME NEW b \in 1 .. Len(blocks) PROVE BlockListed(ds, new[b], bs[b])
  <2>1. CASE b = k
    BY <2>1 DEF Others
  <2>2. CASE b # k
    <3>1. /\ new[b] = blocks[b] /\ (x.type = "NAME" => e # bs[b])
          /\ x.type = "VALUE" => l \notin NamesIn(cs, bs[b])
      BY <2>2 DEF Others
    <3>2. BlockListed(ds, blocks[b], bs[b])
      BY <1>2, <3>1, BlockStays
    <3>. QED BY <3>1, <3>2
  <2>. QED BY <2>1, <2>2
<1>. QED BY <1>1, <1>3 DEF BlocksListed, Others

\* A block is opened.
LEMMA BlocksMore ==
  ASSUME NEW cs, NEW x, NEW ds, More(cs, x, ds), PlacesFound(cs), x.type = "INSIDE",
         NEW e, LastEnd(cs, e), NEW l, LastName(cs, l),
         NEW blocks, NEW bs, BlocksListed(cs, blocks, bs),
         NEW blk \in Blocks, Says(blk.name, x.raw), blk.token \in {None, <<>>}
  PROVE  /\ Append(blocks, blk) \in BlockRows /\ Len(Append(blocks, blk)) = Len(blocks) + 1
         /\ Len(blocks) \in Nat /\ \A b \in 1 .. Len(blocks) : Append(blocks, blk)[b] = blocks[b]
         /\ \E t : /\ BlocksListed(ds, Append(blocks, blk), t)
                   /\ EnumMore(bs, Len(blocks), Opens(ds), Len(cs), t)
<1> DEFINE n == Len(blocks)
           new == Append(blocks, blk)
<1>1. /\ new \in BlockRows /\ Len(new) = n + 1 /\ n \in Nat /\ new[n + 1] = blk
      /\ \A b \in 1 .. n : new[b] = blocks[b]
  <2>1. blocks \in Seq(Blocks)
    BY DEF BlocksListed, BlockRows
  <2>. QED BY <2>1, AppendProperties DEF BlockRows
<1> HIDE DEF new
<1>2. /\ Len(cs) \in Nat /\ Enum(bs, n, Opens(cs)) /\ \A i \in Opens(cs) : i <= Len(cs)
  BY DEF More, Opens, BlocksListed
<1>3. Opens(ds) = Opens(cs) \cup {Len(cs) + 1}
  BY NamesGrow
<1>4. PICK t : EnumMore(bs, n, Opens(ds), Len(cs), t)
  BY <1>2, <1>3, EnumLater
<1>5. Enum(t, n + 1, Opens(ds)) /\ t[n + 1] = Len(cs) + 1 /\ \A b \in 1 .. n : t[b] = bs[b]
  BY <1>4 DEF EnumMore
<1>6. \A b \in 1 .. n : bs[b] \in Opens(cs) /\ BlockListed(cs, blocks[b], bs[b])
  BY DEF BlocksListed, Enum
<1>7. \A b \in 1 .. n : BlockListed(ds, blocks[b], bs[b])
  BY <1>6, BlockStays
<1>8. BlockListed(ds, blk, Len(cs) + 1)
  <2>1. ds[Len(cs) + 1] = x /\ NamesIn(ds, Len(cs) + 1) = {}
    BY InGrows DEF More
  <2>. QED BY <2>1, ListedNone DEF BlockListed
<1>9. \A b \in 1 .. n + 1 : b \in 1 .. n \/ b = n + 1
  BY <1>1
<1>10. \A b \in 1 .. n + 1 : BlockListed(ds, new[b], t[b])
  BY <1>1, <1>5, <1>7, <1>8, <1>9
<1>11. BlocksListed(ds, new, t)
  BY <1>1, <1>5, <1>10 DEF BlocksListed
<1>. QED BY <1>1, <1>4, <1>11 DEF new

-----------------------------------------------------------------------------
(* A command is taken in *)

\* x comes after cs, of which f is built; ds are the commands then.
Taken(f, cs, x, ds, e, l, bs) == More(cs, x, ds) /\ BuiltBy(f, cs, e, l, bs)

LEMMA TakenFields ==
  ASSUME NEW f, NEW cs, NEW x, NEW ds, NEW e, NEW l, NEW bs, Taken(f, cs, x, ds, e, l, bs)
  PROVE  /\ Len(cs) \in Nat /\ ds \in Seq(Cmds) /\ PlacesFound(ds) /\ (e # 0 => ds[e] = cs[e])
         /\ LastEnd(ds, IF x.type \in {"INSIDE", "DONE"} THEN Len(cs) + 1 ELSE e)
         /\ LastName(ds, IF x.type = "NAME" THEN Len(cs) + 1 ELSE l)
         /\ f.token \in Rows /\ f.block \in BlockRows /\ Len(f.block) \in Nat
         /\ \A b \in 1 .. Len(f.block) :
              /\ bs[b] \in Opens(cs) /\ bs[b] # 0 /\ cs[bs[b]].type = "INSIDE"
              /\ \A c \in 1 .. Len(f.block) : bs[b] = bs[c] => b = c
<1>1. /\ More(cs, x, ds) /\ LastEnd(cs, e) /\ LastName(cs, l) /\ PlacesFound(cs)
      /\ f \in Confs /\ BlocksListed(cs, f.block, bs)
  BY DEF Taken, BuiltBy
<1>2. Len(cs) \in Nat /\ ds \in Seq(Cmds) /\ (e # 0 => ds[e] = cs[e])
  BY <1>1 DEF More, LastEnd
<1>3. PlacesFound(ds)
  BY <1>1, PlacesKnown
<1>4. f.token \in Rows /\ f.block \in BlockRows
  BY <1>1 DEF Confs
<1>5. Len(f.block) \in Nat /\ Enum(bs, Len(f.block), Opens(cs))
  BY <1>1 DEF BlocksListed, Enum
<1>6. /\ \A b \in 1 .. Len(f.block) : bs[b] \in Opens(cs) /\ bs[b] \in Nat
      /\ \A b, c \in 1 .. Len(f.block) : b < c => bs[b] < bs[c]
  BY <1>5 DEF Enum
<1>7. \A b, c \in 1 .. Len(f.block) : bs[b] = bs[c] => b = c
  BY <1>5, <1>6
<1>8. \A o \in Opens(cs) : o # 0 /\ cs[o].type = "INSIDE"
  BY DEF Opens
<1>. QED BY <1>1, <1>2, <1>3, <1>4, <1>5, <1>6, <1>7, <1>8, LastIs

LEMMA RowsAreTokens ==
  ASSUME ConfAssumption, NEW tokens \in Rows
  PROVE  tokens # None
BY DEF ConfAssumption, Rows

LEMMA NameOutside ==
  ASSUME ConfAssumption,
         NEW f, NEW cs, NEW x, NEW ds, NEW e, NEW l, NEW bs, Taken(f, cs, x, ds, e, l, bs),
         NEW text \in Texts, Says(text, x.raw), x.type = "NAME", ~f.inblock,
         NEW r \in Confs, r.token = Append(f.token, Token(text)), r.block = f.block,
         r.inblock = f.inblock, r.last = [block |-> 0, i |-> Len(f.token) + 1]
  PROVE  Built(r, ds)
<1> DEFINE n == Len(cs)
<1>1. /\ More(cs, x, ds) /\ LastEnd(cs, e) /\ LastName(cs, l) /\ PlacesFound(cs)
      /\ Listed(cs, f.token, NamesOut(cs)) /\ BlocksListed(cs, f.block, bs)
      /\ e = 0 \/ cs[e].type = "DONE"
  BY DEF Taken, BuiltBy, Stands
<1>2. /\ ds \in Seq(Cmds) /\ PlacesFound(ds) /\ (e # 0 => ds[e] = cs[e])
      /\ LastEnd(ds, e) /\ LastName(ds, n + 1)
      /\ f.token \in Rows /\ f.block \in BlockRows
      /\ \A b \in 1 .. Len(f.block) : bs[b] # 0 /\ cs[bs[b]].type = "INSIDE"
  BY TakenFields
<1>3. NamesOut(ds) = NamesOut(cs) \cup {n + 1}
  BY <1>1, OutGrows
<1>4. NamesOut(cs) \subseteq Names(cs) /\ f.token # None
  BY <1>2, RowsAreTokens DEF NamesOut
<1>5. Listed(ds, r.token, NamesOut(ds))
  BY <1>1, <1>3, <1>4, ListedMore
<1>6. BlocksListed(ds, f.block, bs)
  <2>1. \A b \in 1 .. Len(f.block) : e # bs[b]
    BY <1>1, <1>2
  <2>2. Others(cs, x, ds, e, l, f.block, f.block, bs, 0)
    BY <1>2, <2>1 DEF Others
  <2>. QED BY <1>1, <2>2, BlocksStay
<1>7. Stands(ds, r, bs, e)
  BY <1>1, <1>2 DEF Stands
<1>8. Points(ds, r, bs, n + 1)
  <2>1. Len(r.token) = Len(f.token) + 1
    BY <1>2, RowsGrow DEF Token, Tokens
  <2>. QED BY <1>3, <2>1 DEF Points
<1> HIDE DEF n
<1>9. BuiltBy(r, ds, e, n + 1, bs)
  BY <1>2, <1>5, <1>6, <1>7, <1>8 DEF BuiltBy
<1>. QED BY <1>9 DEF Built

\* r is f but for the tokens of its b-th block.
Refilled(f, r, b, tokens) ==
  /\ r \in Confs /\ r.token = f.token /\ r.inblock = f.inblock /\ Len(r.block) = Len(f.block)
  /\ \A c \in 1 .. Len(f.block) : c # b => r.block[c] = f.block[c]
  /\ r.block[b] \in Blocks /\ r.block[b].name = f.block[b].name /\ r.block[b].token = tokens

LEMMA NameInside ==
  ASSUME NEW f, NEW cs, NEW x, NEW ds, NEW e, NEW l, NEW bs, Taken(f, cs, x, ds, e, l, bs),
         NEW text \in Texts, Says(text, x.raw), x.type = "NAME", f.inblock,
         NEW b, b = Len(f.block), f.block[b].token # None,
         NEW r, Refilled(f, r, b, Append(f.block[b].token, Token(text))),
         r.last = [block |-> b, i |-> Len(f.block[b].token) + 1]
  PROVE  Built(r, ds)
<1> DEFINE n == Len(cs)
           m == Len(f.block)
<1>0. /\ r \in Confs /\ r.token = f.token /\ r.inblock = f.inblock
      /\ Len(r.block) = Len(f.block)
      /\ \A c \in 1 .. Len(f.block) : c # b => r.block[c] = f.block[c]
      /\ r.block[b] \in Blocks /\ r.block[b].name = f.block[b].name
      /\ r.block[b].token = Append(f.block[b].token, Token(text))
  BY DEF Refilled
<1>1. /\ More(cs, x, ds) /\ LastEnd(cs, e) /\ LastName(cs, l) /\ PlacesFound(cs)
      /\ Listed(cs, f.token, NamesOut(cs)) /\ BlocksListed(cs, f.block, bs)
      /\ m # 0 /\ bs[m] = e
  BY DEF Taken, BuiltBy, Stands
<1>2. /\ ds \in Seq(Cmds) /\ PlacesFound(ds) /\ LastEnd(ds, e) /\ LastName(ds, n + 1)
      /\ m \in Nat
      /\ \A c \in 1 .. m : bs[c] # 0 /\ bs[c] \in Opens(cs) /\ cs[bs[c]].type = "INSIDE"
      /\ \A c, d \in 1 .. m : bs[c] = bs[d] => c = d
  BY TakenFields
<1>3. b \in 1 .. m /\ e # 0 /\ cs[e].type # "DONE" /\ e \in Opens(cs) /\ e = bs[b]
  BY <1>1, <1>2
<1>4. NamesOut(ds) = NamesOut(cs) /\ NamesIn(ds, e) = NamesIn(cs, e) \cup {n + 1}
  BY <1>1, <1>3, OutGrows, InGrows
<1>5. /\ NamesOut(cs) \subseteq Names(cs) /\ NamesIn(cs, e) \subseteq Names(cs)
  BY <1>3, NamesApart
<1>6. Listed(ds, r.token, NamesOut(ds))
  BY <1>0, <1>1, <1>4, <1>5, ListedStays
<1>7. BlockListed(cs, f.block[b], e)
  BY <1>1, <1>3 DEF BlocksListed
<1>8. BlockListed(ds, r.block[b], e)
  <2>1. Listed(ds, r.block[b].token, NamesIn(ds, e))
    <3>1. Listed(cs, f.block[b].token, NamesIn(cs, e))
      BY <1>7 DEF BlockListed
    <3>2. Listed(ds, Append(f.block[b].token, Token(text)), NamesIn(ds, e))
      BY <1>1, <1>4, <1>5, <3>1, ListedMore
    <3>. QED BY <1>0, <3>2
  <2>2. ds[e] = cs[e]
    BY <1>3, TakenFields
  <2>. QED BY <1>0, <1>7, <2>1, <2>2 DEF BlockListed
<1>9. BlocksListed(ds, r.block, bs)
  <2>1. \A c \in 1 .. m : c # b => e # bs[c]
    BY <1>2, <1>3
  <2>2. r.block \in BlockRows
    BY <1>0 DEF Confs
  <2>3. Others(cs, x, ds, e, l, f.block, r.block, bs, b)
    BY <1>0, <1>3, <1>8, <2>1, <2>2 DEF Others
  <2>. QED BY <1>1, <2>3, BlocksStay
<1>10. Stands(ds, r, bs, e)
  BY <1>0, <1>1 DEF Stands
<1>11. Points(ds, r, bs, n + 1)
  <2>1. Len(r.block[b].token) = Len(f.block[b].token) + 1
    <3>1. f.block[b].token \in Rows /\ Token(text) \in Tokens
      BY <1>7 DEF BlockListed, Blocks, Token, Tokens
    <3>. QED BY <1>0, <3>1, RowsGrow
  <2>2. n + 1 \in NamesIn(ds, bs[b])
    BY <1>3, <1>4
  <2>3. b \in 1 .. Len(r.block) /\ r.last = [block |-> b, i |-> Len(r.block[b].token)]
    BY <1>0, <1>3, <2>1
  <2>. QED BY <2>2, <2>3 DEF Points
<1> HIDE DEF n, m
<1>12. BuiltBy(r, ds, e, n + 1, bs)
  BY <1>0, <1>2, <1>6, <1>9, <1>10, <1>11 DEF BuiltBy
<1>. QED BY <1>12 DEF Built

LEMMA ValueOutside ==
  ASSUME NEW f, NEW cs, NEW x, NEW ds, NEW e, NEW l, NEW bs, Taken(f, cs, x, ds, e, l, bs),
         NEW text \in Texts, Says(text, x.raw), x.type = "VALUE", l \in NamesOut(cs),
         NEW r \in Confs, r.token = Give(f.token, Len(f.token), text), r.block = f.block,
         r.inblock = f.inblock, r.last = f.last, f.last = [block |-> 0, i |-> Len(f.token)]
  PROVE  Built(r, ds)
<1>1. /\ More(cs, x, ds) /\ LastEnd(cs, e) /\ LastName(cs, l) /\ PlacesFound(cs)
      /\ Listed(cs, f.token, NamesOut(cs)) /\ BlocksListed(cs, f.block, bs)
      /\ Stands(cs, f, bs, e)
  BY DEF Taken, BuiltBy
<1>2. /\ ds \in Seq(Cmds) /\ PlacesFound(ds) /\ (e # 0 => ds[e] = cs[e])
      /\ LastEnd(ds, e) /\ LastName(ds, l)
      /\ f.token \in Rows /\ f.block \in BlockRows
      /\ \A b \in 1 .. Len(f.block) : bs[b] \in Opens(cs)
  BY TakenFields
<1>3. NamesOut(ds) = NamesOut(cs) /\ NamesOut(cs) \subseteq Names(cs)
  <2>1. NamesOut(ds) = NamesOut(cs)
    BY <1>1, OutGrows
  <2>. QED BY <2>1 DEF NamesOut
<1>4. /\ Listed(ds, r.token, NamesOut(ds)) /\ Len(f.token) \in 1 .. Len(f.token)
  BY <1>1, <1>3, ListedValue
<1>5. BlocksListed(ds, f.block, bs)
  <2>1. \A b \in 1 .. Len(f.block) : l \notin NamesIn(cs, bs[b])
    BY <1>2, NamesApart
  <2>2. Others(cs, x, ds, e, l, f.block, f.block, bs, 0)
    BY <1>2, <2>1 DEF Others
  <2>. QED BY <1>1, <2>2, BlocksStay
<1>6. Stands(ds, r, bs, e)
  BY <1>1, <1>2 DEF Stands
<1>7. Points(ds, r, bs, l)
  <2>1. Len(r.token) = Len(f.token)
    BY <1>2, <1>4, GiveLen
  <2>. QED BY <1>3, <2>1 DEF Points
<1>8. BuiltBy(r, ds, e, l, bs)
  BY <1>2, <1>4, <1>5, <1>6, <1>7 DEF BuiltBy
<1>. QED BY <1>8 DEF Built

LEMMA ValueInside ==
  ASSUME NEW f, NEW cs, NEW x, NEW ds, NEW e, NEW l, NEW bs, Taken(f, cs, x, ds, e, l, bs),
         NEW text \in Texts, Says(text, x.raw), x.type = "VALUE",
         NEW b \in 1 .. Len(f.block), l \in NamesIn(cs, bs[b]),
         NEW r, Refilled(f, r, b, Give(f.block[b].token, Len(f.block[b].token), text)),
         r.last = f.last, f.last = [block |-> b, i |-> Len(f.block[b].token)]
  PROVE  Built(r, ds)
<1>0. /\ r \in Confs /\ r.token = f.token /\ r.inblock = f.inblock
      /\ Len(r.block) = Len(f.block)
      /\ \A c \in 1 .. Len(f.block) : c # b => r.block[c] = f.block[c]
      /\ r.block[b] \in Blocks /\ r.block[b].name = f.block[b].name
      /\ r.block[b].token = Give(f.block[b].token, Len(f.block[b].token), text)
  BY DEF Refilled
<1> DEFINE o == bs[b]
<1>1. /\ More(cs, x, ds) /\ LastEnd(cs, e) /\ LastName(cs, l) /\ PlacesFound(cs)
      /\ Listed(cs, f.token, NamesOut(cs)) /\ BlocksListed(cs, f.block, bs)
      /\ Stands(cs, f, bs, e)
  BY DEF Taken, BuiltBy
<1>2. /\ ds \in Seq(Cmds) /\ PlacesFound(ds) /\ (e # 0 => ds[e] = cs[e])
      /\ LastEnd(ds, e) /\ LastName(ds, l)
      /\ \A c \in 1 .. Len(f.block) : bs[c] \in Opens(cs)
      /\ \A c, d \in 1 .. Len(f.block) : bs[c] = bs[d] => c = d
  BY TakenFields
<1> HIDE DEF o
<1>3. /\ NamesOut(ds) = NamesOut(cs) /\ NamesIn(ds, o) = NamesIn(cs, o) /\ o \in Opens(cs)
      /\ l \in NamesIn(cs, o)
  BY <1>1, <1>2, OutGrows, InGrows DEF o
<1>4. /\ NamesOut(cs) \subseteq Names(cs) /\ NamesIn(cs, o) \subseteq Names(cs)
      /\ l \notin NamesOut(cs) /\ Place(cs, l) = o
  BY <1>3, NamesApart
<1>5. Listed(ds, r.token, NamesOut(ds))
  BY <1>0, <1>1, <1>3, <1>4, ListedStays
<1>6. BlockListed(cs, f.block[b], o)
  BY <1>1 DEF BlocksListed, o
<1>7. /\ Listed(ds, Give(f.block[b].token, Len(f.block[b].token), text), NamesIn(ds, o))
      /\ f.block[b].token \in Rows
      /\ Len(f.block[b].token) \in 1 .. Len(f.block[b].token)
  <2>1. Listed(cs, f.block[b].token, NamesIn(cs, o))
    BY <1>6 DEF BlockListed
  <2>. QED BY <1>1, <1>3, <1>4, <2>1, ListedValue
<1>8. BlockListed(ds, r.block[b], o)
  <2>1. ds[o] = cs[o]
    BY <1>1, <1>3 DEF Opens, More
  <2>. QED BY <1>0, <1>6, <1>7, <2>1 DEF BlockListed
<1>9. BlocksListed(ds, r.block, bs)
  <2>1. \A c \in 1 .. Len(f.block) : c # b => l \notin NamesIn(cs, bs[c])
    <3>1. \A c \in 1 .. Len(f.block) : l \in NamesIn(cs, bs[c]) => Place(cs, l) = bs[c]
      BY <1>2, NamesApart
    <3>. QED BY <1>2, <1>4, <3>1 DEF o
  <2>2. r.block \in BlockRows
    BY <1>0 DEF Confs
  <2>3. Others(cs, x, ds, e, l, f.block, r.block, bs, b)
    BY <1>0, <1>8, <2>1, <2>2 DEF Others, o
  <2>. QED BY <1>1, <2>3, BlocksStay
<1>10. Stands(ds, r, bs, e)
  BY <1>0, <1>1, <1>2 DEF Stands
<1>11. Points(ds, r, bs, l)
  <2>1. Len(r.block[b].token) = Len(f.block[b].token)
    BY <1>0, <1>7, GiveLen
  <2>2. b \in 1 .. Len(r.block) /\ r.last = [block |-> b, i |-> Len(r.block[b].token)]
    BY <1>0, <2>1
  <2>. QED BY <1>3, <2>2 DEF Points, o
<1>12. BuiltBy(r, ds, e, l, bs)
  BY <1>0, <1>2, <1>5, <1>9, <1>10, <1>11 DEF BuiltBy
<1>. QED BY <1>12 DEF Built

LEMMA BlockOpened ==
  ASSUME NEW f, NEW cs, NEW x, NEW ds, NEW e, NEW l, NEW bs, Taken(f, cs, x, ds, e, l, bs),
         x.type = "INSIDE", NEW blk \in Blocks, Says(blk.name, x.raw),
         blk.token \in {None, <<>>},
         NEW r \in Confs, r.token = f.token, r.block = Append(f.block, blk), r.inblock,
         r.last = f.last
  PROVE  Built(r, ds)
<1> DEFINE n == Len(cs)
           m == Len(f.block)
<1>1. /\ More(cs, x, ds) /\ LastEnd(cs, e) /\ LastName(cs, l) /\ PlacesFound(cs)
      /\ Listed(cs, f.token, NamesOut(cs)) /\ BlocksListed(cs, f.block, bs)
      /\ Points(cs, f, bs, l)
  BY DEF Taken, BuiltBy
<1>2. /\ ds \in Seq(Cmds) /\ PlacesFound(ds) /\ LastEnd(ds, n + 1) /\ LastName(ds, l)
      /\ m \in Nat /\ n \in Nat /\ \A b \in 1 .. m : bs[b] \in Opens(cs)
  BY TakenFields
<1>3. NamesOut(ds) = NamesOut(cs) /\ NamesOut(cs) \subseteq Names(cs)
      /\ \A o : NamesIn(ds, o) = NamesIn(cs, o)
  <2>1. NamesOut(ds) = NamesOut(cs) /\ \A o : NamesIn(ds, o) = NamesIn(cs, o)
    BY <1>1, OutGrows, InGrows
  <2>. QED BY <2>1 DEF NamesOut
<1>4. Listed(ds, r.token, NamesOut(ds))
  BY <1>1, <1>3, ListedStays
<1>5. /\ Len(r.block) = m + 1 /\ \A b \in 1 .. m : r.block[b] = f.block[b]
      /\ \E t : BlocksListed(ds, r.block, t) /\ EnumMore(bs, m, Opens(ds), n, t)
  BY <1>1, BlocksMore
<1>6. PICK t : BlocksListed(ds, r.block, t) /\ EnumMore(bs, m, Opens(ds), n, t)
  BY <1>5
<1>7. t[m + 1] = n + 1 /\ \A b \in 1 .. m : t[b] = bs[b]
  BY <1>6 DEF EnumMore
<1>8. Stands(ds, r, t, n + 1)
  BY <1>2, <1>5, <1>7 DEF Stands
<1>9. Points(ds, r, t, l)
  <2>1. CASE l = 0 /\ f.last = None
    BY <2>1 DEF Points
  <2>2. CASE l \in NamesOut(cs) /\ f.last = [block |-> 0, i |-> Len(f.token)]
    BY <1>3, <2>2 DEF Points
  <2>3. ASSUME NEW b \in 1 .. m, l \in NamesIn(cs, bs[b]),
               f.last = [block |-> b, i |-> Len(f.block[b].token)]
        PROVE  Points(ds, r, t, l)
    <3>1. /\ b \in 1 .. Len(r.block) /\ l \in NamesIn(ds, t[b])
          /\ r.last = [block |-> b, i |-> Len(r.block[b].token)]
      BY <1>2, <1>3, <1>5, <1>7, <2>3
    <3>. QED BY <3>1 DEF Points
  <2>. QED BY <1>1, <2>1, <2>2, <2>3 DEF Points
<1> HIDE DEF n, m
<1>10. BuiltBy(r, ds, n + 1, l, t)
  BY <1>2, <1>4, <1>6, <1>8, <1>9 DEF BuiltBy
<1>. QED BY <1>10 DEF Built

LEMMA BlockClosed ==
  ASSUME NEW f, NEW cs, NEW x, NEW ds, NEW e, NEW l, NEW bs, Taken(f, cs, x, ds, e, l, bs),
         x.type = "DONE",
         NEW r \in Confs, r.token = f.token, r.block = f.block, ~r.inblock, r.last = f.last
  PROVE  Built(r, ds)
<1> DEFINE n == Len(cs)
<1>1. /\ More(cs, x, ds) /\ LastEnd(cs, e) /\ LastName(cs, l) /\ PlacesFound(cs)
      /\ Listed(cs, f.token, NamesOut(cs)) /\ BlocksListed(cs, f.block, bs)
      /\ Points(cs, f, bs, l)
  BY DEF Taken, BuiltBy
<1>2. /\ ds \in Seq(Cmds) /\ PlacesFound(ds) /\ LastEnd(ds, n + 1) /\ LastName(ds, l)
      /\ f.block \in BlockRows
  BY TakenFields
<1>3. NamesOut(ds) = NamesOut(cs) /\ NamesOut(cs) \subseteq Names(cs)
      /\ \A o : NamesIn(ds, o) = NamesIn(cs, o)
  <2>1. NamesOut(ds) = NamesOut(cs) /\ \A o : NamesIn(ds, o) = NamesIn(cs, o)
    BY <1>1, OutGrows, InGrows
  <2>. QED BY <2>1 DEF NamesOut
<1>4. Listed(ds, r.token, NamesOut(ds))
  BY <1>1, <1>3, ListedStays
<1>5. BlocksListed(ds, r.block, bs)
  <2>1. Others(cs, x, ds, e, l, f.block, f.block, bs, 0)
    BY <1>2 DEF Others
  <2>. QED BY <1>1, <2>1, BlocksStay
<1>6. Stands(ds, r, bs, n + 1)
  <2>1. ds[n + 1] = x
    BY <1>1 DEF More
  <2>. QED BY <2>1 DEF Stands
<1>7. Points(ds, r, bs, l)
  BY <1>1, <1>3 DEF Points
<1> HIDE DEF n
<1>8. BuiltBy(r, ds, n + 1, l, bs)
  BY <1>2, <1>4, <1>5, <1>6, <1>7 DEF BuiltBy
<1>. QED BY <1>8 DEF Built

\* The texts a command may leave are those that its characters say.
LEMMA FoundSays ==
  ASSUME ConfAssumption, Scanned(scan, raw), NEW text \in Found
  PROVE  text \in Texts /\ Says(text, raw)
<1> DEFINE m == scan.buf \o scan.span
<1>1. m \in Seq(Nat) /\ m = Meant(raw)
  <2>1. m \in Offsets
    BY Joined DEF Scanned, Scans
  <2>. QED BY <2>1 DEF Scanned, Offsets
<1>2. text = m \/ (Len(m) = BufSize /\ text = Append(m, None))
  BY DEF Found
<1> HIDE DEF m
<1>3. m \in Seq(Nat \cup {None})
  BY <1>1
<1>4. Append(m, None) \in Seq(Nat \cup {None})
  BY <1>3, AppendProperties
<1>. QED BY <1>1, <1>2, <1>3, <1>4 DEF Says, Texts

LEMMA BlocksSet ==
  ASSUME NEW blocks \in BlockRows, NEW b \in 1 .. Len(blocks), NEW blk \in Blocks,
         NEW new, [blocks EXCEPT ![b] = blk] = new
  PROVE  /\ new \in BlockRows /\ Len(new) = Len(blocks) /\ new[b] = blk
         /\ \A c \in 1 .. Len(blocks) : c # b => new[c] = blocks[c]
<1>1. new \in Seq(Blocks) /\ Len(new) = Len(blocks)
  BY ExceptSeq DEF BlockRows
<1>2. new[b] = blk /\ \A c \in 1 .. Len(blocks) : c # b => new[c] = blocks[c]
  BY DEF BlockRows
<1>. QED BY <1>1, <1>2 DEF BlockRows

LEMMA NamedBuilt ==
  ASSUME ConfAssumption, NEW cs, Built(conf, cs), NEW x, NEW ds, More(cs, x, ds),
         x.type = "NAME", NEW text \in Texts, Says(text, x.raw), Named(text) # None
  PROVE  Built(Named(text), ds)
<1>1. PICK e, l, bs : BuiltBy(conf, cs, e, l, bs)
  BY DEF Built
<1>2. Taken(conf, cs, x, ds, e, l, bs)
  BY <1>1 DEF Taken
<1>3. /\ conf \in Confs /\ conf.token \in Rows /\ conf.block \in BlockRows
      /\ Len(conf.block) \in Nat /\ Token(text) \in Tokens
  BY <1>1, <1>2, TakenFields DEF BuiltBy, Token, Tokens
<1>4. CASE ~conf.inblock
  <2> DEFINE new == Append(conf.token, Token(text))
             last == [block |-> 0, i |-> Len(conf.token) + 1]
             r == [conf EXCEPT !.token = new, !.last = last]
  <2>1. Named(text) = r
    BY <1>4 DEF Named
  <2>2. new \in Rows /\ last \in [block : Nat, i : Nat]
    BY <1>3, RowsGrow
  <2> HIDE DEF new, last
  <2>3. /\ r \in Confs /\ r.token = new /\ r.block = conf.block /\ r.inblock = conf.inblock
        /\ r.last = last
    BY <1>3, <2>2 DEF Confs
  <2> HIDE DEF r
  <2>4. Built(r, ds)
    BY <1>2, <1>4, <2>3, NameOutside DEF new, last
  <2>. QED BY <2>1, <2>4
<1>5. CASE conf.inblock
  <2> DEFINE b == Len(conf.block)
             old == conf.block[b]
             rows == Append(old.token, Token(text))
             blk == [old EXCEPT !.token = rows]
             new == [conf.block EXCEPT ![b] = blk]
             last == [block |-> b, i |-> Len(old.token) + 1]
             r == [conf EXCEPT !.block = new, !.last = last]
  <2>1. old.token # None /\ Named(text) = r
    BY <1>5, Zenon DEF Named
  <2>2. b \in 1 .. Len(conf.block)
    BY <1>1, <1>3, <1>5 DEF BuiltBy, Stands
  <2>3. old \in Blocks
    BY <1>3, <2>2 DEF BlockRows
  <2>4. old.token \in Rows
    BY <2>1, <2>3 DEF Blocks
  <2>5. rows \in Rows /\ last \in [block : Nat, i : Nat]
    <3>1. rows \in Rows /\ Len(old.token) \in Nat
      BY <1>3, <2>4, RowsGrow
    <3>. QED BY <1>3, <3>1
  <2> HIDE DEF rows, last
  <2>6. blk \in Blocks /\ blk.name = old.name /\ blk.token = rows
    BY <2>3, <2>5 DEF Blocks
  <2>7. [conf.block EXCEPT ![b] = blk] = new
    OBVIOUS
  <2> HIDE DEF blk, new
  <2>8. /\ new \in BlockRows /\ Len(new) = Len(conf.block) /\ new[b] = blk
        /\ \A c \in 1 .. Len(conf.block) : c # b => new[c] = conf.block[c]
    BY <1>3, <2>2, <2>6, <2>7, BlocksSet
  <2>9. /\ r \in Confs /\ r.token = conf.token /\ r.block = new /\ r.inblock = conf.inblock
        /\ r.last = last
    BY <1>3, <2>5, <2>8 DEF Confs
  <2> HIDE DEF r
  <2>10. Refilled(conf, r, b, rows)
    BY <2>6, <2>8, <2>9 DEF Refilled
  <2>11. Built(r, ds)
    BY <1>2, <1>5, <2>1, <2>9, <2>10, NameInside DEF rows, last
  <2>. QED BY <2>1, <2>11
<1>. QED BY <1>4, <1>5

LEMMA ValuedBuilt ==
  ASSUME ConfAssumption, NEW cs, Built(conf, cs), NEW x, NEW ds, More(cs, x, ds),
         x.type = "VALUE", NEW text \in Texts, Says(text, x.raw), Valued(text) # None
  PROVE  Built(Valued(text), ds)
<1>1. PICK e, l, bs : BuiltBy(conf, cs, e, l, bs)
  BY DEF Built
<1>2. Taken(conf, cs, x, ds, e, l, bs)
  BY <1>1 DEF Taken
<1>3. /\ conf \in Confs /\ conf.token \in Rows /\ conf.block \in BlockRows
      /\ Len(conf.block) \in Nat /\ LastName(cs, l) /\ More(cs, x, ds)
      /\ Listed(cs, conf.token, NamesOut(cs)) /\ BlocksListed(cs, conf.block, bs)
  BY <1>1, <1>2, TakenFields DEF BuiltBy
<1>4. conf.last # None
  BY Zenon DEF Valued
<1>5. CASE l \in NamesOut(cs) /\ conf.last = [block |-> 0, i |-> Len(conf.token)]
  <2> DEFINE i == Len(conf.token)
             new == Give(conf.token, i, text)
             r == [conf EXCEPT !.token = new]
  <2>1. conf.last.block = 0 /\ conf.last.i = i
    BY <1>5
  <2>2. Valued(text) = [conf EXCEPT !.token[i].value = text]
    BY <1>4, <2>1, Zenon DEF Valued
  <2>3. Valued(text) = r
    BY <2>2 DEF Give
  <2>4. new \in Rows
    <3>1. NamesOut(cs) \subseteq Names(cs)
      BY DEF NamesOut
    <3>2. i \in 1 .. Len(conf.token)
      BY <1>3, <1>5, <3>1, ListedValue
    <3>. QED BY <1>3, <3>2, GiveLen
  <2> HIDE DEF new
  <2>5. /\ r \in Confs /\ r.token = new /\ r.block = conf.block /\ r.inblock = conf.inblock
        /\ r.last = conf.last
    BY <1>3, <2>4 DEF Confs
  <2> HIDE DEF r
  <2>6. Built(r, ds)
    BY <1>2, <1>5, <2>5, ValueOutside DEF new
  <2>. QED BY <2>3, <2>6
<1>6. ASSUME NEW b \in 1 .. Len(conf.block), l \in NamesIn(cs, bs[b]),
             conf.last = [block |-> b, i |-> Len(conf.block[b].token)]
      PROVE  Built(Valued(text), ds)
  <2> DEFINE old == conf.block[b]
             i == Len(old.token)
             rows == Give(old.token, i, text)
             blk == [old EXCEPT !.token = rows]
             new == [conf.block EXCEPT ![b] = blk]
             r == [conf EXCEPT !.block = new]
  <2>1. conf.last.block = b /\ conf.last.i = i /\ b # 0
    BY <1>6
  <2>2. Valued(text) = [conf EXCEPT !.block[b].token[i].value = text]
    BY <1>4, <2>1, Zenon DEF Valued
  <2>3. Valued(text) = r
    BY <2>2 DEF Give
  <2>4. old \in Blocks
    BY <1>3 DEF BlockRows
  <2>5. rows \in Rows
    <3>1. NamesIn(cs, bs[b]) \subseteq Names(cs)
      BY DEF NamesIn
    <3>2. Listed(cs, old.token, NamesIn(cs, bs[b]))
      BY <1>3 DEF BlocksListed, BlockListed
    <3> HIDE DEF old
    <3>3. old.token \in Rows /\ i \in 1 .. Len(old.token)
      BY <1>3, <1>6, <3>1, <3>2, ListedValue
    <3>. QED BY <3>3, GiveLen
  <2> HIDE DEF rows
  <2>6. blk \in Blocks /\ blk.name = old.name /\ blk.token = rows
    BY <2>4, <2>5 DEF Blocks
  <2>7. [conf.block EXCEPT ![b] = blk] = new
    OBVIOUS
  <2> HIDE DEF blk, new
  <2>8. /\ new \in BlockRows /\ Len(new) = Len(conf.block) /\ new[b] = blk
        /\ \A c \in 1 .. Len(conf.block) : c # b => new[c] = conf.block[c]
    BY <1>3, <2>6, <2>7, BlocksSet
  <2>9. /\ r \in Confs /\ r.token = conf.token /\ r.block = new /\ r.inblock = conf.inblock
        /\ r.last = conf.last
    BY <1>3, <2>8 DEF Confs
  <2> HIDE DEF r
  <2>10. Refilled(conf, r, b, rows)
    BY <2>6, <2>8, <2>9 DEF Refilled
  <2>11. Built(r, ds)
    BY <1>2, <1>6, <2>9, <2>10, ValueInside DEF rows
  <2>. QED BY <2>3, <2>11
<1>7. Points(cs, conf, bs, l)
  BY <1>1 DEF BuiltBy
<1>. QED BY <1>4, <1>5, <1>6, <1>7, Zenon DEF Points

LEMMA InsideBuilt ==
  ASSUME NEW cs, Built(conf, cs), NEW x, NEW ds, More(cs, x, ds), x.type = "INSIDE",
         NEW text \in Texts, Says(text, x.raw), NEW tokens \in {<<>>, None}
  PROVE  Built(Inside(text, tokens), ds)
<1>1. PICK e, l, bs : BuiltBy(conf, cs, e, l, bs)
  BY DEF Built
<1>2. Taken(conf, cs, x, ds, e, l, bs)
  BY <1>1 DEF Taken
<1> DEFINE blk == [name |-> text, token |-> tokens]
           new == Append(conf.block, blk)
           r == [conf EXCEPT !.block = new, !.inblock = TRUE]
<1>3. Inside(text, tokens) = r
  BY DEF Inside
<1>4. blk \in Blocks /\ blk.name = text /\ blk.token = tokens
  <2>1. <<>> \in Rows
    BY DEF Rows
  <2>. QED BY <2>1 DEF Blocks
<1> HIDE DEF blk
<1>5. conf \in Confs /\ BlocksListed(cs, conf.block, bs) /\ PlacesFound(cs)
      /\ LastEnd(cs, e) /\ LastName(cs, l)
  BY <1>1 DEF BuiltBy
<1>6. new \in BlockRows
  BY <1>4, <1>5, BlocksMore
<1> HIDE DEF new
<1>7. /\ r \in Confs /\ r.token = conf.token /\ r.block = new /\ r.inblock
      /\ r.last = conf.last
  BY <1>5, <1>6 DEF Confs
<1> HIDE DEF r
<1>8. Built(r, ds)
  BY <1>2, <1>4, <1>7, BlockOpened DEF new
<1>. QED BY <1>3, <1>8

LEMMA DoneBuilt ==
  ASSUME NEW cs, Built(conf, cs), NEW x, NEW ds, More(cs, x, ds), x.type = "DONE"
  PROVE  Built([conf EXCEPT !.inblock = FALSE], ds)
<1>1. PICK e, l, bs : BuiltBy(conf, cs, e, l, bs)
  BY DEF Built
<1>2. Taken(conf, cs, x, ds, e, l, bs) /\ conf \in Confs
  BY <1>1 DEF Taken, BuiltBy
<1> DEFINE r == [conf EXCEPT !.inblock = FALSE]
<1>3. /\ r \in Confs /\ r.token = conf.token /\ r.block = conf.block /\ ~r.inblock
      /\ r.last = conf.last
  BY <1>2 DEF Confs
<1> HIDE DEF r
<1>4. Built(r, ds)
  BY <1>2, <1>3, BlockClosed
<1>. QED BY <1>4 DEF r

LEMMA NothingBuilt == Built(NoConf, <<>>)
<1>1. Names(<<>>) = {} /\ Opens(<<>>) = {} /\ NamesOut(<<>>) = {} /\ PlacesFound(<<>>)
  BY DEF Names, Opens, NamesOut, PlacesFound
<1>2. LastEnd(<<>>, 0) /\ LastName(<<>>, 0)
  BY DEF LastEnd, LastName
<1>3. <<>> \in Rows /\ <<>> \in BlockRows /\ Len(<<>>) = 0
  BY DEF Rows, BlockRows
<1>4. NoConf \in Confs
  BY <1>3 DEF NoConf, Confs
<1>5. Listed(<<>>, NoConf.token, NamesOut(<<>>))
  BY <1>1, ListedNone DEF NoConf
<1>6. \E bs : BlocksListed(<<>>, NoConf.block, bs)
  BY <1>1, <1>3, EnumNone DEF BlocksListed, NoConf
<1>7. \A bs : Stands(<<>>, NoConf, bs, 0) /\ Points(<<>>, NoConf, bs, 0)
  BY DEF Stands, Points, NoConf
<1>. QED BY <1>1, <1>2, <1>4, <1>5, <1>6, <1>7 DEF Built, BuiltBy

-----------------------------------------------------------------------------
(* What is built is what the file says, at every step *)

\* Until the reader crashes or is done.
Following ==
  load.stage \in {"start", "read", "parse", "parsed", "refused"} =>
    Scanned(scan, raw) /\ Built(conf, cmds)

LEMMA WrittenByInvariant ==
  ASSUME ConfAssumption, Following
  PROVE  AsWritten
<1>1. SUFFICES ASSUME load.stage \in {"parse", "parsed", "refused"} PROVE AsWritten
  BY DEF AsWritten
<1>2. PICK e, l, bs : BuiltBy(conf, cmds, e, l, bs)
  BY <1>1 DEF Following, Built
<1>3. /\ cmds \in Seq(Cmds) /\ conf \in Confs
      /\ Listed(cmds, conf.token, NamesOut(cmds)) /\ BlocksListed(cmds, conf.block, bs)
  BY <1>2 DEF BuiltBy
<1>4. DOMAIN cmds = 1 .. Len(cmds) /\ Len(cmds) \in Nat
  BY <1>3
<1>5. conf.block \in Seq(Blocks) /\ DOMAIN conf.block = 1 .. Len(conf.block)
  BY <1>3 DEF Confs, BlockRows
<1> DEFINE Of(type) == {i \in DOMAIN cmds : cmds[i].type = type}
           Outside(i) == Place(cmds, i) = 0 \/ cmds[Place(cmds, i)].type = "DONE"
<1>6. Of("NAME") = Names(cmds) /\ Of("INSIDE") = Opens(cmds)
  BY <1>4 DEF Names, Opens
<1>7. {i \in Of("NAME") : Outside(i)} = NamesOut(cmds)
  BY <1>6 DEF NamesOut
<1>8. Lists(cmds, conf.token, NamesOut(cmds))
  <2>1. NamesOut(cmds) \subseteq Names(cmds)
    BY DEF NamesOut
  <2>. QED BY <1>3, <1>4, <2>1, ListedLists
<1>9. Enum(bs, Len(conf.block), Opens(cmds))
  BY <1>3 DEF BlocksListed
<1>10. Len(conf.block) = Cardinality(Opens(cmds))
  BY <1>9, EnumCounts
<1>11. ASSUME NEW b \in 1 .. Len(conf.block)
       PROVE  LET at == Nth(Of("INSIDE"), b)
              IN  /\ Says(conf.block[b].name, cmds[at].raw)
                  /\ Lists(cmds, conf.block[b].token, {i \in Of("NAME") : Place(cmds, i) = at})
  <2>1. Nth(Opens(cmds), b) = bs[b]
    BY <1>9, EnumNth
  <2>2. /\ Says(conf.block[b].name, cmds[bs[b]].raw)
        /\ Listed(cmds, conf.block[b].token, NamesIn(cmds, bs[b]))
    BY <1>3 DEF BlocksListed, BlockListed
  <2>3. NamesIn(cmds, bs[b]) \subseteq Names(cmds)
    BY DEF NamesIn
  <2>4. Lists(cmds, conf.block[b].token, NamesIn(cmds, bs[b]))
    BY <1>4, <2>2, <2>3, ListedLists
  <2>5. {i \in Of("NAME") : Place(cmds, i) = bs[b]} = NamesIn(cmds, bs[b])
    BY <1>6 DEF NamesIn
  <2> HIDE DEF Of
  <2>. QED BY <1>6, <2>1, <2>2, <2>4, <2>5, Zenon
<1>12. Len(conf.block) = Cardinality(Of("INSIDE"))
  BY <1>6, <1>10
<1>13. Lists(cmds, conf.token, {i \in Of("NAME") : Outside(i)})
  BY <1>7, <1>8
<1>. QED BY <1>5, <1>11, <1>12, <1>13, Zenon DEF AsWritten

LEMMA AnewScanned ==
  ASSUME NEW p \in Nat
  PROVE  Scanned(Fresh(p), <<>>)
<1>1. <<>> \in Offsets
  BY DEF Offsets
<1>2. Fresh(p) \in Scans /\ Fresh(p).phase = "between"
  BY <1>1 DEF Fresh, Scans
<1>3. [Fresh(p) EXCEPT !.phase = "between"] = Fresh(p)
  BY <1>2 DEF Scans
<1>. QED BY <1>3, FreshScanned

LEMMA FollowingAtFirst ==
  ASSUME Init
  PROVE  Following
<1>1. Scanned(Fresh(0), <<>>)
  BY AnewScanned
<1>. QED BY <1>1, NothingBuilt DEF Init, Following

\* A step that neither reads on nor builds.
LEMMA FollowingStays ==
  ASSUME Following, UNCHANGED <<scan, conf, cmds, raw>>,
         load.stage \in {"start", "read", "parse", "parsed", "refused"} \/ UNCHANGED load
  PROVE  Following'
BY DEF Following

LEMMA ScanFollowed ==
  ASSUME Following, load.stage = "parse", NEW c,
         Skip(c) \/ Blank(c) \/ Text(c) \/ (Escape(c) /\ ~Outsize)
  PROVE  Following'
<1>1. Scanned(scan, raw) /\ Built(conf, cmds)
  BY DEF Following
<1>2. scan.pos \in Nat /\ scan.pos + 1 \in Nat
  BY <1>1, ScanFields DEF Scanned
<1>3. CASE Skip(c)
  <2>1. /\ \E ph \in {"between", "comment"} : scan' = [Fresh(scan.pos + 1) EXCEPT !.phase = ph]
        /\ UNCHANGED <<conf, cmds, raw>> /\ scan.phase # "command"
    BY <1>3 DEF Skip, Parsing
  <2>2. raw = <<>>
    BY <1>1, <2>1 DEF Scanned
  <2>. QED BY <1>1, <1>2, <2>1, <2>2, FreshScanned DEF Following
<1>4. CASE Blank(c)
  <2>1. /\ scan' = [scan EXCEPT !.pos = @ + 1, !.gap = Append(@, scan.pos)]
        /\ raw' = Append(raw, [kind |-> "blank", pos |-> scan.pos])
        /\ UNCHANGED <<conf, cmds>> /\ scan.phase = "command"
    BY <1>4 DEF Blank, Seen, Parsing
  <2>2. Scanned(scan', raw')
    BY <1>1, <2>1, BlankScanned, Zenon
  <2>. QED BY <1>1, <2>1, <2>2 DEF Following
<1>5. CASE Text(c)
  <2>1. /\ scan' = [scan EXCEPT !.phase = "command", !.pos = @ + 1, !.gap = <<>>, !.lf = FALSE,
                      !.span = IF scan.lf THEN <<scan.pos>> ELSE @ \o scan.gap \o <<scan.pos>>]
        /\ raw' = Append(raw, [kind |-> "text", pos |-> scan.pos])
        /\ UNCHANGED <<conf, cmds>>
    BY <1>5 DEF Text, Seen
  <2>2. Scanned(scan', raw')
    BY <1>1, <2>1, TextScanned, Zenon
  <2>. QED BY <1>1, <2>1, <2>2 DEF Following
<1>6. CASE Escape(c) /\ ~Outsize
  <2>1. /\ scan' = [scan EXCEPT !.phase = "command", !.pos = @ + 1, !.buf = @ \o scan.span,
                      !.span = <<>>, !.gap = <<>>, !.lf = TRUE]
        /\ raw' = Append(raw, [kind |-> "esc", pos |-> scan.pos])
        /\ UNCHANGED <<conf, cmds>>
    BY <1>6 DEF Escape, Refuse, Seen
  <2>2. Scanned(scan', raw')
    BY <1>1, <2>1, EscapeScanned, Zenon
  <2>. QED BY <1>1, <2>1, <2>2 DEF Following
<1>. QED BY <1>3, <1>4, <1>5, <1>6

\* What art_conf_parse makes of a command.
LEMMA ResultBuilt ==
  ASSUME ConfAssumption, Scanned(scan, raw), Built(conf, cmds),
         NEW type \in {"NAME", "VALUE", "INSIDE", "DONE"}, NEW text \in Found,
         NEW r \in Results(type, text), r # None
  PROVE  Built(r, Append(cmds, [type |-> type, raw |-> raw]))
<1> DEFINE x == [type |-> type, raw |-> raw]
           ds == Append(cmds, x)
<1>1. x \in Cmds /\ x.type = type /\ x.raw = raw
  BY DEF Scanned, Cmds
<1>2. cmds \in Seq(Cmds)
  BY DEF Built, BuiltBy
<1> HIDE DEF x
<1>3. More(cmds, x, ds)
  BY <1>1, <1>2, MoreIs
<1> HIDE DEF ds
<1>4. text \in Texts /\ Says(text, x.raw)
  BY <1>1, FoundSays
<1>5. CASE type = "NAME"
  <2>1. r = Named(text)
    BY <1>5 DEF Results
  <2>. QED BY <1>1, <1>3, <1>4, <1>5, <2>1, NamedBuilt DEF ds, x
<1>6. CASE type = "VALUE"
  <2>1. r = Valued(text)
    BY <1>6 DEF Results
  <2>. QED BY <1>1, <1>3, <1>4, <1>6, <2>1, ValuedBuilt DEF ds, x
<1>7. CASE type = "INSIDE"
  <2>1. \E tokens \in {<<>>, None} : r = Inside(text, tokens)
    BY <1>7 DEF Results
  <2>. QED BY <1>1, <1>3, <1>4, <1>7, <2>1, InsideBuilt DEF ds, x
<1>8. CASE type = "DONE"
  <2>1. r = [conf EXCEPT !.inblock = FALSE]
    BY <1>8 DEF Results
  <2>. QED BY <1>1, <1>3, <1>8, <2>1, DoneBuilt DEF ds, x
<1>. QED BY <1>5, <1>6, <1>7, <1>8

LEMMA CommandFollowed ==
  ASSUME ConfAssumption, CInv, Following, load.stage = "parse", NEW c, Command(c), ~Refuse
  PROVE  Following'
<1>1. Scanned(scan, raw) /\ Built(conf, cmds)
  BY DEF Following
<1>2. Type(c) \in {"NAME", "VALUE", "INSIDE", "DONE"}
  <2>1. c \in {"=", ";", "{", "}"}
    BY Zenon DEF Command
  <2>. QED BY <2>1, Zenon DEF Type
<1>3. /\ scan' = Fresh(scan.pos + 1)
      /\ cmds' = Append(cmds, [type |-> Type(c), raw |-> raw]) /\ raw' = <<>>
  BY Zenon DEF Command
<1>4. PICK text \in Found : \E r \in Results(Type(c), text) :
        IF r = None THEN Stage("crashed") /\ UNCHANGED conf
        ELSE conf' = r /\ UNCHANGED load
  BY Zenon DEF Command
<1>5. PICK r \in Results(Type(c), text) :
        IF r = None THEN Stage("crashed") /\ UNCHANGED conf
        ELSE conf' = r /\ UNCHANGED load
  BY <1>4
<1>6. CASE r = None
  <2>1. load'.stage = "crashed"
    BY <1>5, <1>6, StageFields DEF CInv, Stages, Loading
  <2>. QED BY <2>1 DEF Following
<1>7. CASE r # None
  <2>1. Built(r, Append(cmds, [type |-> Type(c), raw |-> raw]))
    BY <1>1, <1>2, <1>7, ResultBuilt
  <2>2. Scanned(Fresh(scan.pos + 1), <<>>)
    <3>1. scan.pos + 1 \in Nat
      BY <1>1, ScanFields DEF Scanned
    <3>. QED BY <3>1, AnewScanned
  <2>3. conf' = r
    BY <1>5, <1>7
  <2>4. Scanned(scan', raw') /\ Built(conf', cmds')
    BY <1>3, <2>1, <2>2, <2>3, Zenon
  <2>. QED BY <2>4 DEF Following
<1>. QED BY <1>6, <1>7

LEMMA StepFollowed ==
  ASSUME ConfAssumption, FileAssumption, CInv, Following, [Next]_vars
  PROVE  Following'
<1>1. ASSUME NEW s \in Sizes, Start(s) PROVE Following'
  BY <1>1, FollowingStays DEF Start
<1>2. CASE Fill \/ NoArrays \/ AtEnd
  BY <1>2, FollowingStays DEF Fill, NoArrays, AtEnd, Parsing
<1>3. CASE Finish
  <2>1. PICK end \in {"done", "NULL"} : Stage(end)
    BY <1>3 DEF Finish
  <2>2. load'.stage = end
    BY <2>1, StageFields DEF CInv, Stages, Loading
  <2>. QED BY <2>2 DEF Following
<1>4. ASSUME NEW c, Skip(c) \/ Blank(c) \/ Text(c) PROVE Following'
  <2>1. load.stage = "parse"
    BY <1>4 DEF Skip, Blank, Text, Reading, Parsing
  <2>. QED BY <1>4, <2>1, ScanFollowed
<1>5. ASSUME NEW c, Escape(c) \/ Command(c) PROVE Following'
  <2>1. load.stage = "parse"
    BY <1>5 DEF Escape, Command, Reading, Parsing
  <2>2. CASE Refuse
    BY <2>1, <2>2, FollowingStays, Zenon DEF Refuse
  <2>3. CASE Escape(c) /\ ~Refuse
    <3>1. ~Outsize
      BY <2>3 DEF Escape
    <3>. QED BY <2>1, <2>3, <3>1, ScanFollowed
  <2>4. CASE Command(c) /\ ~Refuse
    BY <2>1, <2>4, CommandFollowed
  <2>. QED BY <1>5, <2>2, <2>3, <2>4
<1>6. CASE load.stage = "start" /\ FileNext /\ UNCHANGED confVars
  BY <1>6, FollowingStays DEF confVars
<1>7. CASE UNCHANGED vars
  BY <1>7, FollowingStays DEF vars, confVars
<1>. QED BY <1>1, <1>2, <1>3, <1>4, <1>5, <1>6, <1>7 DEF Next

\* What art_conf_parse builds is what the file says, whatever the file holds
\* and however long its commands, texts and blocks are: each text is the one
\* that was written, and each value and each token is where it belongs.
THEOREM FileObeyed == Spec => []AsWritten
<1>1. Init => CInv /\ Following
  BY Beginning, FollowingAtFirst, FileAssumption
<1>2. CInv /\ Following /\ [Next]_vars => CInv' /\ Following'
  BY StepOfTheReader, StepFollowed, FileAssumption, ConfAssumption
<1>3. Following => AsWritten
  BY WrittenByInvariant, ConfAssumption
<1>. QED BY <1>1, <1>2, <1>3, PTL DEF Spec

=============================================================================
