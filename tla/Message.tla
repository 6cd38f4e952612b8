------------------------------ MODULE Message ------------------------------
(***************************************************************************)
(* How far art_log_stderr and art_log_error_core (art_log.c) and the       *)
(* formatter art_string_core under them (art_str.c) write into the buffer  *)
(* of a message, which lies on the stack of the call.  Of the text only    *)
(* its length counts.                                                      *)
(***************************************************************************)
EXTENDS Naturals

CONSTANTS
  Room,       \* ART_MAX_ERROR_STR
  Reserve,    \* the 50 that art_log_errno wants for an error code
  Prefixes,   \* lengths of what the buffer starts with
  Widths      \* lengths of numbers, with what they are padded to, and of texts

ASSUME MessageAssumption ==
  /\ Room \in Nat /\ Reserve \in Nat /\ Reserve <= Room
  /\ Prefixes \subseteq 0 .. Room
  /\ Widths \subseteq Nat \ {0}
  /\ \A w \in Widths : w + 7 <= Reserve

VARIABLE
  message   \* for whom it is, how far it is, where its next character goes
            \* and whether the error code was cut off

Clamped(at) == IF at < Room THEN at ELSE Room

NoMessage == [for |-> "none", stage |-> "done", at |-> 0, cut |-> FALSE]

MessageInit == message = NoMessage

\* A step takes the message to a stage, and its end to at.
To(stage, at, cut) ==
  message' = [for |-> message.for, stage |-> stage, at |-> at, cut |-> message.cut \/ cut]

Begin ==
  /\ message.stage = "done"
  /\ \E for \in {"stderr", "logs"}, at \in Prefixes :
       message' = [for |-> for, stage |-> "text", at |-> at, cut |-> FALSE]

-----------------------------------------------------------------------------
(* art_string_core *)

\* art_string_num of w digits with their padding; with at past the end it
\* copies a negative number of bytes.
Number(at, w) == Clamped(at + w)

\* What follows a number with a fraction.
Fraction(at, w) == Number(IF at < Room THEN at + 1 ELSE at, w)

\* Where the directives %i, %l and %f leave off; each may begin with a sign.
Numbers(at) ==
  {Number(at + sign, w) : sign \in {0, 1}, w \in Widths}
    \cup {Fraction(Number(at + sign, w), v) : sign \in {0, 1}, w \in Widths, v \in Widths}

\* A character, %c or an unknown directive, a number, or as much of a string
\* as there is room for.
Directive ==
  /\ message.stage = "text" /\ message.at < Room
  /\ \E at \in {message.at + 1} \cup Numbers(message.at) \cup {Clamped(message.at + w) : w \in Widths} :
       To("text", at, FALSE)

\* %p looks for room for one character and writes two before the digits.
Pointer ==
  /\ message.stage = "text" /\ message.at < Room
  /\ \/ /\ message.at + 2 <= Room
        /\ \E w \in Widths : To("text", Number(message.at + 2, w), FALSE)
     \/ /\ message.at + 2 > Room
        /\ To("crashed", message.at + 2, FALSE)

-----------------------------------------------------------------------------
(* The end of the message *)

\* art_log_errno: " (code: text)", after dots when it has less than Reserve.
Errno ==
  /\ message.stage = "text"
  /\ LET at == IF message.at > Room - Reserve THEN Room - Reserve + 3 ELSE message.at
     IN  \E code \in Widths, text \in Widths :
           LET end == Clamped(Clamped(at + 4 + code) + text)
           IN  To("line", IF end < Room THEN end + 1 ELSE end, at + 4 + code > Room)

NoErrno == message.stage = "text" /\ To("line", message.at, FALSE)

\* The newline wherever the text ends (for the mutant runs).
NewlineAnywhere ==
  /\ message.stage = "line"
  /\ To("done", message.at + 1, FALSE)

\* Only art_log_stderr makes room for it.
Newline ==
  /\ message.stage = "line"
  /\ To("done", IF message.for = "stderr" THEN Clamped(message.at + 1) ELSE message.at + 1, FALSE)

MessageNext == Begin \/ Directive \/ Pointer \/ Errno \/ NoErrno \/ Newline

MessageSpec == MessageInit /\ [][MessageNext]_message

-----------------------------------------------------------------------------
(* Properties *)

\* A message stays in its buffer, with two exceptions that go one byte past
\* it: the newline that art_log_error_core adds to a text that fills the
\* buffer, and the "0x" of %p where one byte is left, whose digits then take
\* the program down.  An error code is never cut off.
MessageFits ==
  /\ message.at <= Room
     \/ (message.at = Room + 1 /\ message.stage = "crashed")
     \/ (message.at = Room + 1 /\ message.stage = "done" /\ message.for = "logs")
  /\ ~message.cut

=============================================================================
