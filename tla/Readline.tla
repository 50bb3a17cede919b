----------------------------- MODULE Readline -----------------------------
(***************************************************************************)
(* readline as an interpreter of this port has it (libIPUpy.c 47940-48451, *)
(* without the emacs keys and automatic indentation, which its             *)
(* configuration leaves out): the line being edited, the escape sequences, *)
(* the history, and what is written to the terminal for one character.     *)
(*                                                                         *)
(* The state is a record:                                                  *)
(*   line    the bytes of rl.line from rl.orig_line_len on                 *)
(*   cursor  rl.cursor_pos - rl.orig_line_len                              *)
(*   esc     rl.escape_seq, and digit, rl.escape_seq_buf[0]                *)
(*   hist    readline_hist, newest first, without its empty places         *)
(*   cur     rl.hist_cur + 1: the place in hist that is shown, 0 for none  *)
(*                                                                         *)
(* Every use of rl.line looks at what follows rl.orig_line_len only, so    *)
(* the lines before it, of a compound statement, are left out.             *)
(*                                                                         *)
(* Output is a sequence of bytes.                                          *)
(***************************************************************************)
EXTENDS Integers, Sequences, SequencesExt

CONSTANTS
    HistSize,    \* READLINE_HIST_SIZE
    Letters      \* the printable bytes the model tells apart

\* The bytes below 32 and 127 that the code names, as they are typed and as they are written.
ControlBytes ==
    {"ctrlA", "ctrlB", "ctrlC", "ctrlD", "ctrlE", "backspace", "tab", "esc",
     "cr", "nl", "bs", "ESC"}

ASSUME ReadlineAssumption ==
    HistSize \in Nat \ {0} /\ \A b \in ControlBytes : b \notin Letters

EmptyReadline ==
    [line |-> <<>>, cursor |-> 0, esc |-> "none", digit |-> "0", hist |-> <<>>, cur |-> 0]

\* readline_init
ReadlineInit(r) ==
    [r EXCEPT !.line = <<>>, !.cursor = 0, !.esc = "none", !.digit = "0", !.cur = 0]

\* Mutant: The cursor is left where it was on the line before.
NoteNewlineCursorKept(r) == [r EXCEPT !.line = <<>>]

\* readline_note_newline: the history cursor and the escape state stay.
NoteNewline(r) == [r EXCEPT !.line = <<>>, !.cursor = 0]

---------------------------------------------------------------------------
\* The terminal commands, byte by byte.

DigitBytes == <<"0", "1", "2", "3", "4", "5", "6", "7", "8", "9">>
Digit(n) == DigitBytes[n + 1]

\* Mutant: Four backspaces at most.
MoveBackShort(pos) == [i \in 1 .. IF pos < 4 THEN pos ELSE 4 |-> "bs"]

\* mp_hal_move_cursor_back: backspaces, or ESC [ n D with n in decimal.
MoveBack(pos) ==
    IF pos <= 4 THEN [i \in 1 .. pos |-> "bs"]
    ELSE <<"ESC", "[">>
         \o (IF pos > 99 THEN <<Digit(pos \div 100)>> ELSE <<>>)
         \o (IF pos > 9 THEN <<Digit((pos % 100) \div 10)>> ELSE <<>>)
         \o <<Digit(pos % 10), "D">>

\* mp_hal_erase_line_from_cursor
EraseLine == <<"ESC", "[", "K">>

---------------------------------------------------------------------------
(***************************************************************************)
(* readline_push_history.  `room' is whether str_dup_maybe gets its        *)
(* memory.                                                                 *)
(***************************************************************************)
PushHistory(hist, line, room) ==
    IF line # <<>> /\ (hist = <<>> \/ hist[1] # line) /\ room
    THEN <<line>> \o SubSeq(hist, 1, IF Len(hist) < HistSize THEN Len(hist) ELSE HistSize - 1)
    ELSE hist

\* What readline_process_char has decided before it redraws: the new line, how far the
\* cursor goes back first, whether the rest of the line is drawn again, how far the
\* cursor goes forward, and what has been written already.
Edit(line, back, redraw, forward) ==
    [line |-> line, back |-> back, redraw |-> redraw, forward |-> forward, wrote |-> <<>>]
NoEdit(r) == Edit(r.line, 0, FALSE, 0)

Home(r) == Edit(r.line, r.cursor, FALSE, 0)
End(r) == Edit(r.line, 0, FALSE, Len(r.line) - r.cursor)
Right(r) == Edit(r.line, 0, FALSE, IF r.cursor < Len(r.line) THEN 1 ELSE 0)
Left(r) == Edit(r.line, IF r.cursor > 0 THEN 1 ELSE 0, FALSE, 0)
Insert(r, bytes) ==
    Edit(SubSeq(r.line, 1, r.cursor) \o bytes \o SubSeq(r.line, r.cursor + 1, Len(r.line)),
         0, TRUE, Len(bytes))
Backspace(r) ==
    IF r.cursor > 0 THEN Edit(RemoveAt(r.line, r.cursor), 1, TRUE, 0) ELSE NoEdit(r)
Delete(r) ==
    IF r.cursor < Len(r.line) THEN Edit(RemoveAt(r.line, r.cursor + 1), 0, TRUE, 0)
                              ELSE NoEdit(r)
\* The line becomes history entry k, or empty.
Recall(r, k) ==
    LET line == IF k = 0 THEN <<>> ELSE r.hist[k]
    IN  Edit(line, r.cursor, TRUE, Len(line))

\* TAB, by what mp_repl_autocomplete answers: bytes to insert, if any, or that there are
\* many matches: it has listed them, and prompt and line are written again.
Match(bytes) == [many |-> FALSE, add |-> bytes]
ManyMatches == [many |-> TRUE, add |-> <<>>]
Complete(r, found, prompt) ==
    IF found.many
    THEN [Edit(r.line, 0, TRUE, 0) EXCEPT
            !.wrote = <<"cr", "nl", "m", "cr", "nl">> \o prompt \o SubSeq(r.line, 1, r.cursor)]
    ELSE IF found.add = <<>> THEN NoEdit(r) ELSE Insert(r, found.add)

\* The end of readline_process_char: the command line is redrawn.
Redraw(r, e) ==
    LET from == r.cursor - e.back
        rest == SubSeq(e.line, from + 1, Len(e.line))
    IN  [rl  |-> [r EXCEPT !.line = e.line, !.cursor = from + e.forward],
         out |-> e.wrote \o MoveBack(e.back) \o
                 IF e.redraw
                 THEN (IF Len(e.line) < Len(r.line) THEN EraseLine ELSE <<>>)
                        \o rest \o MoveBack(Len(e.line) - (from + e.forward))
                 ELSE SubSeq(rest, 1, e.forward)]

\* The edit a character stands for.  ESC [ 7 ~ and ESC [ 8 ~ do what 1 and 4 do.
PlainEdit(r, c, found, prompt) ==
    CASE c = "ctrlA" -> Home(r)
      [] c = "ctrlE" -> End(r)
      [] c = "backspace" -> Backspace(r)
      [] c = "tab" -> Complete(r, found, prompt)
      [] c \in Letters -> Insert(r, <<c>>)
      [] OTHER -> NoEdit(r)

CanGoUp(r) == r.cur + 1 <= HistSize /\ r.cur + 1 <= Len(r.hist)
BracketEdit(r, c) ==
    CASE c = "A" /\ CanGoUp(r) -> Recall(r, r.cur + 1)
      [] c = "B" /\ r.cur > 0 -> Recall(r, r.cur - 1)
      [] c = "C" -> Right(r)
      [] c = "D" -> Left(r)
      [] c = "H" -> Home(r)
      [] c = "F" -> End(r)
      [] OTHER -> NoEdit(r)

DigitEdit(r, c) ==
    CASE c = "~" /\ r.digit = "1" -> Home(r)
      [] c = "~" /\ r.digit = "4" -> End(r)
      [] c = "~" /\ r.digit = "3" -> Delete(r)
      [] OTHER -> NoEdit(r)

EscOEdit(r, c) == CASE c = "H" -> Home(r) [] c = "F" -> End(r) [] OTHER -> NoEdit(r)

Digits == {"1", "3", "4"}
NextEsc(r, c) ==
    CASE r.esc = "none" /\ c = "esc" -> "esc"
      [] r.esc = "esc" /\ c = "[" -> "bracket"
      [] r.esc = "esc" /\ c = "O" -> "O"
      [] r.esc = "bracket" /\ c \in Digits -> "digit"
      [] OTHER -> "none"
NextCur(r, c) ==
    CASE r.esc = "bracket" /\ c = "A" /\ CanGoUp(r) -> r.cur + 1
      [] r.esc = "bracket" /\ c = "B" /\ r.cur > 0 -> r.cur - 1
      [] OTHER -> r.cur

\* The value returned, "none" for -1 and "cr" for 0.
Controls == {"ctrlA", "ctrlB", "ctrlC", "ctrlD", "ctrlE"}
Returns(r, c) ==
    IF r.esc = "none" /\ (c \in {"ctrlC", "cr"} \/ (c \in Controls /\ r.line = <<>>))
    THEN c ELSE "none"

(***************************************************************************)
(* readline_process_char.                                                  *)
(***************************************************************************)
ProcessChar(r, c, found, room, prompt) ==
    LET moved == [r EXCEPT !.esc = NextEsc(r, c), !.cur = NextCur(r, c),
                           !.digit = IF NextEsc(r, c) = "digit" THEN c ELSE "0"]
        edit == CASE r.esc = "none" -> PlainEdit(r, c, found, prompt)
                  [] r.esc = "bracket" -> BracketEdit(r, c)
                  [] r.esc = "digit" -> DigitEdit(r, c)
                  [] r.esc = "O" -> EscOEdit(r, c)
                  [] OTHER -> NoEdit(r)
    IN  IF Returns(r, c) = "cr"
        THEN [rl |-> [r EXCEPT !.hist = PushHistory(@, r.line, room)],
              out |-> <<"cr", "nl">>]
        ELSE IF Returns(r, c) # "none" THEN [rl |-> r, out |-> <<>>]
        ELSE Redraw(moved, edit)
===========================================================================
