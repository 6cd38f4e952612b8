-------------------------------- MODULE Conf --------------------------------
(***************************************************************************)
(* The configuration reader: ark_core/system (art_sys_conf.c).             *)
(* art_conf_init reads a file through its window into a buffer, and        *)
(* art_conf_parse goes over the buffer a character at a time.  What the    *)
(* file holds is chosen as it is read; a character of a text is known by   *)
(* its offset.                                                             *)
(***************************************************************************)
EXTENDS FileWindow, Integers, Sequences, FiniteSetsExt

CONSTANTS
  BufSize,   \* ART_CONF_BUFSIZE
  Beyond,    \* bound: how many bytes behind the buffer may hold anything
  None       \* no text, no array of tokens, no such pointer, no character

Texts == Seq(Nat \cup {None})
Tokens == [name : Texts, value : Texts \cup {None}]

ASSUME ConfAssumption ==
  BufSize \in Nat /\ Beyond \in Nat /\ None \notin Seq(Tokens)

VARIABLES
  load,   \* art_conf_init: how far it is (stage) and the bytes readed
  scan,   \* the parser: its position, the part of the text it is in (phase)
          \* and the command it reads, of which it has copied buf; the span
          \* from start to valid, the blanks behind that (gap) and lf
  conf,   \* art_conf_t: tokens, blocks, and which token was pushed last
  cmds,   \* the commands returned so far: their types and all that was read
  raw     \* what was read of the command that scan is in

confVars == <<load, scan, conf, cmds, raw>>
vars == <<fileVars, confVars>>

Fresh(pos) ==
  [pos |-> pos, phase |-> "between", buf |-> <<>>, span |-> <<>>, gap |-> <<>>, lf |-> FALSE]

NoConf == [token |-> <<>>, block |-> <<>>, inblock |-> FALSE, last |-> None]

Init ==
  /\ FileInit
  /\ load = [stage |-> "start", readed |-> 0]
  /\ scan = Fresh(0) /\ conf = NoConf
  /\ cmds = <<>> /\ raw = <<>>

Stage(s) == load' = [load EXCEPT !.stage = s]

-----------------------------------------------------------------------------
(* art_conf_init before and after the parser *)

\* NULL without the file, for an empty one, or without memory for conf or the
\* buffer; without memory for the temporary pool, or in it for the mapped
\* file's record, it goes on through NULL.
Start(s) ==
  /\ load.stage = "start" /\ file.mode = "closed"
  /\ \/ s > 0 /\ Open(s) /\ Stage("read")
     \/ \E end \in {"NULL", "crashed"} : Stage(end) /\ UNCHANGED fileVars
  /\ UNCHANGED <<scan, conf, cmds, raw>>

\* A short count taken for the end (for the mutant runs).
FillOnce ==
  /\ load.stage = "read"
  /\ Read(file.gross)
  /\ load' = [stage |-> IF fault' # "none" THEN "crashed" ELSE "parse",
              readed |-> moved'.to - moved'.from]
  /\ UNCHANGED <<scan, conf, cmds, raw>>

\* One turn of the loop over art_file_mmap_read.
Fill ==
  /\ load.stage = "read"
  /\ Read(file.gross)
  /\ LET i == moved'.to - moved'.from
     IN  load' = [stage  |-> IF fault' # "none" THEN "crashed"
                             ELSE IF load.readed + i >= file.gross \/ i = 0 THEN "parse"
                             ELSE "read",
                  readed |-> load.readed + i]
  /\ UNCHANGED <<scan, conf, cmds, raw>>

\* The result of art_conf_parse is not looked at, and the file's descriptor
\* stays open.  Without memory for its array of sets conf is lost.
Finish ==
  /\ load.stage \in {"parsed", "refused"}
  /\ Close
  /\ \/ Stage("done") /\ UNCHANGED conf
     \/ Stage("NULL") /\ conf' = NoConf
  /\ scan' = Fresh(0) /\ cmds' = <<>> /\ raw' = <<>>

-----------------------------------------------------------------------------
(* The characters *)

\* A backslash before another one is text.
Chars == {"text", "space", "LF", "#", "\\", "quote", ";", "{", "}", "="}
Blanks == {"space", "LF"}

\* The buffer is blank beyond what was read, and behind it lies anything.
CharsAt(p) ==
  IF p < load.readed \/ p \in file.gross .. file.gross + Beyond - 1 THEN Chars ELSE {"text"}

Parsing(phases) == load.stage = "parse" /\ scan.phase \in phases

\* Without memory for its arrays art_conf_parse returns at once.
NoArrays ==
  /\ Parsing({"between"}) /\ scan = Fresh(0)
  /\ Stage("refused")
  /\ UNCHANGED <<fileVars, scan, conf, cmds, raw>>

\* What art_conf_parse skips itself: blanks, and a comment to its LF.
Skip(c) ==
  /\ Parsing({"between", "comment"}) /\ scan.pos <= file.gross
  /\ scan.phase = "comment" \/ c \in Blanks \cup {"#"}
  /\ scan' = [Fresh(scan.pos + 1) EXCEPT
                !.phase = IF c = "#" \/ (scan.phase = "comment" /\ c # "LF")
                          THEN "comment" ELSE "between"]
  /\ UNCHANGED <<fileVars, load, conf, cmds, raw>>

AtEnd ==
  /\ Parsing({"between", "comment"}) /\ scan.pos > file.gross
  /\ Stage("parsed")
  /\ UNCHANGED <<fileVars, scan, conf, cmds, raw>>

\* art_conf_readcommand has a character that is no blank before it.
Reading(c) ==
  /\ Parsing({"between", "command"})
  /\ c \notin Blanks
  /\ scan.phase = "between" => scan.pos <= file.gross /\ c # "#"
  /\ UNCHANGED fileVars

Seen(kind) == raw' = Append(raw, [kind |-> kind, pos |-> scan.pos])

\* After a backslash start follows the blanks, past valid.
Blank(c) ==
  /\ Parsing({"command"}) /\ c \in Blanks
  /\ scan' = [scan EXCEPT !.pos = @ + 1, !.gap = Append(@, scan.pos)]
  /\ Seen("blank")
  /\ UNCHANGED <<fileVars, load, conf, cmds>>

\* valid - start is compared without its sign: below zero it is too much.
Outsize ==
  \/ scan.lf /\ scan.gap # <<>>
  \/ Len(scan.span) > BufSize - Len(scan.buf)

Refuse ==
  /\ Outsize
  /\ Stage("refused")
  /\ UNCHANGED <<scan, conf, cmds, raw>>

\* start left where it is after a backslash (for the mutant runs).
TextUnstarted(c) ==
  /\ Reading(c) /\ c \in {"text", "#", "quote"}
  /\ scan' = [scan EXCEPT !.phase = "command", !.pos = @ + 1, !.gap = <<>>, !.lf = FALSE,
                !.span = @ \o scan.gap \o <<scan.pos>>]
  /\ Seen("text")
  /\ IF c # "quote" /\ scan.pos + 1 >= file.gross THEN Stage("parsed") ELSE UNCHANGED load
  /\ UNCHANGED <<conf, cmds>>

\* Blanks between characters are kept; a quote is, too, and skips the look
\* at the boundary.
Text(c) ==
  /\ Reading(c) /\ c \in {"text", "#", "quote"}
  /\ scan' = [scan EXCEPT !.phase = "command", !.pos = @ + 1, !.gap = <<>>, !.lf = FALSE,
                !.span = IF scan.lf THEN <<scan.pos>> ELSE @ \o scan.gap \o <<scan.pos>>]
  /\ Seen("text")
  /\ IF c # "quote" /\ scan.pos + 1 >= file.gross THEN Stage("parsed") ELSE UNCHANGED load
  /\ UNCHANGED <<conf, cmds>>

Escape(c) ==
  /\ Reading(c) /\ c = "\\"
  /\ \/ Refuse
     \/ /\ ~Outsize
        /\ scan' = [scan EXCEPT !.phase = "command", !.pos = @ + 1, !.buf = @ \o scan.span,
                      !.span = <<>>, !.gap = <<>>, !.lf = TRUE]
        /\ Seen("esc")
        /\ UNCHANGED <<load, conf, cmds>>

-----------------------------------------------------------------------------
(* The commands *)

Type(c) == CASE c = "=" -> "NAME" [] c = ";" -> "VALUE" [] c = "{" -> "INSIDE" [] c = "}" -> "DONE"

Token(text) == [name |-> text, value |-> None]

\* What art_conf_parse makes of each type, or None where it goes on through
\* a pointer that is NULL or was never set.  An array may get no memory.
Named(text) ==
  LET b == Len(conf.block)
  IN  IF ~conf.inblock
      THEN [conf EXCEPT !.token = Append(@, Token(text)),
                        !.last = [block |-> 0, i |-> Len(conf.token) + 1]]
      ELSE IF conf.block[b].token = None THEN None
      ELSE [conf EXCEPT !.block[b].token = Append(@, Token(text)),
                        !.last = [block |-> b, i |-> Len(conf.block[b].token) + 1]]

Valued(text) ==
  LET at == conf.last
  IN  IF at = None THEN None
      ELSE IF at.block = 0 THEN [conf EXCEPT !.token[at.i].value = text]
      ELSE [conf EXCEPT !.block[at.block].token[at.i].value = text]

Inside(text, tokens) ==
  [conf EXCEPT !.block = Append(@, [name |-> text, token |-> tokens]), !.inblock = TRUE]

Results(type, text) ==
  CASE type = "NAME"   -> {Named(text), None}
    [] type = "VALUE"  -> {Valued(text), None}
    [] type = "INSIDE" -> {Inside(text, <<>>), Inside(text, None), None}
    [] type = "DONE"   -> {[conf EXCEPT !.inblock = FALSE]}

\* What art_strlen finds in buf, which has no end when the text fills it.
Found ==
  LET text == scan.buf \o scan.span
  IN  {text} \cup IF Len(text) = BufSize THEN {Append(text, None)} ELSE {}

\* The end of a command; what stands before a "}" is not looked at.
Command(c) ==
  /\ Reading(c) /\ c \in {"=", ";", "{", "}"}
  /\ \/ c # "}" /\ Refuse
     \/ /\ c = "}" \/ ~Outsize
        /\ \E text \in Found : \E r \in Results(Type(c), text) :
             IF r = None THEN Stage("crashed") /\ UNCHANGED conf
             ELSE conf' = r /\ UNCHANGED load
        /\ scan' = Fresh(scan.pos + 1)
        /\ cmds' = Append(cmds, [type |-> Type(c), raw |-> raw]) /\ raw' = <<>>

Next ==
  \/ \E s \in Sizes : Start(s)
  \/ Fill \/ NoArrays \/ AtEnd \/ Finish
  \/ \E c \in CharsAt(scan.pos) : Skip(c) \/ Blank(c) \/ Text(c) \/ Escape(c) \/ Command(c)
  \/ load.stage = "start" /\ FileNext /\ UNCHANGED confVars

Spec == Init /\ [][Next]_vars

-----------------------------------------------------------------------------
(* What a file says *)

\* The k-th of a set of numbers.
Nth(S, k) == CHOOSE i \in S : Cardinality({j \in S : j <= i}) = k

\* The text of a command: without the backslashes at line ends, the blanks
\* around them and the blanks at the end.
Kept(r) ==
  LET Borders(i, js) == \E j \in js : /\ r[j].kind = "text"
                                      /\ \A k \in i .. j \cup j .. i : r[k].kind # "esc"
  IN  {i \in DOMAIN r : Borders(i, 1 .. i) /\ Borders(i, i .. Len(r))}

Meant(r) == [k \in 1 .. Cardinality(Kept(r)) |-> r[Nth(Kept(r), k)].pos]

\* The last of the commands cs before the i-th that begins or ends a block, or 0.
Place(cs, i) == Max({0} \cup {j \in 1 .. i - 1 : cs[j].type \in {"INSIDE", "DONE"}})

Value(cs, i) ==
  {j \in i + 1 .. Len(cs) : /\ cs[j].type = "VALUE"
                           /\ \A k \in i + 1 .. j : cs[k].type # "NAME"}

\* A text that fills buf is followed by whatever lies behind buf.
Says(text, r) ==
  \/ text = Meant(r)
  \/ Len(Meant(r)) = BufSize /\ text = Append(Meant(r), None)

\* tokens are those named by the commands at is, each with the last value
\* given before the next is named.
Lists(cs, tokens, is) ==
  IF tokens = None THEN is = {}
  ELSE /\ Len(tokens) = Cardinality(is)
       /\ \A k \in DOMAIN tokens :
            LET i == Nth(is, k)
            IN  /\ Says(tokens[k].name, cs[i].raw)
                /\ IF Value(cs, i) = {} THEN tokens[k].value = None
                   ELSE Says(tokens[k].value, cs[Max(Value(cs, i))].raw)

-----------------------------------------------------------------------------
(* Properties *)

\* The buffer holds the beginning of the file when it is parsed, and all of
\* it unless a system call failed: art_file_mmap_read's short counts at the
\* end of each window add up, and never past the buffer.
LoadedInOrder ==
  load.stage \in {"read", "parse"} =>
    /\ load.readed = moved.to /\ load.readed <= file.gross
    /\ load.stage = "parse" /\ load.readed < file.gross => file.ill

\* What art_conf_parse builds is what the file says: each text is the one
\* that was written, each value belongs to the token named last, and each
\* token to the block it stands in, or to none.
AsWritten ==
  load.stage \in {"parse", "parsed", "refused"} =>
    LET Of(type) == {i \in DOMAIN cmds : cmds[i].type = type}
        Outside(i) == Place(cmds, i) = 0 \/ cmds[Place(cmds, i)].type = "DONE"
    IN  /\ Lists(cmds, conf.token, {i \in Of("NAME") : Outside(i)})
        /\ Len(conf.block) = Cardinality(Of("INSIDE"))
        /\ \A b \in DOMAIN conf.block :
             LET at == Nth(Of("INSIDE"), b)
             IN  /\ Says(conf.block[b].name, cmds[at].raw)
                 /\ Lists(cmds, conf.block[b].token, {i \in Of("NAME") : Place(cmds, i) = at})

-----------------------------------------------------------------------------
(* What the repository says and the code does not do *)

\* The readme: the blanks before and after a line's end that is escaped are
\* ignored, so a command is refused only when its text is too long for buf.
RefusesOnlyLong ==
  load.stage = "refused" /\ raw # <<>> => Len(Meant(raw)) > BufSize

=============================================================================
