----------------------------- MODULE EventRepl -----------------------------
(***************************************************************************)
(* The event-driven REPL of one interpreter: what one typed character does *)
(* to it (pyexec_event_repl_process_char and the handlers below it).       *)
(*                                                                         *)
(* A REPL is a record:                                                     *)
(*   mode   pyexec_mode_kind                                               *)
(*   cont   repl.cont_line: inside a compound statement                    *)
(*   paste  repl.paste_mode                                                *)
(*   line   the bytes of repl_line, by class of character                  *)
(*   orig   rl.orig_line_len: where the line being edited starts           *)
(*   open   repl_line still has a buffer (vstr_clear frees it)             *)
(*                                                                         *)
(* A handler either returns, or returns PYEXEC_FORCED_EXIT, or starts the  *)
(* execution of repl_line, which may be suspended by `longyield' before    *)
(* the handler goes on (Executed), or never returns.  The operators here   *)
(* are therefore functions of the state, used one copy per interpreter.    *)
(*                                                                         *)
(* Characters are classes: the control characters, the carriage return,    *)
(* "A" (which raw mode tells apart), any other printable byte "x" and any  *)
(* byte that no handler names, "other" (0xFF, which getchar's EOF becomes, *)
(* is one).  Escape sequences, backspace, tab and history belong to        *)
(* readline's own editing and are not inputs of this module.               *)
(***************************************************************************)
EXTENDS Naturals, Sequences

CONSTANT MaxLine   \* bound: bytes of repl_line the model tells apart

ASSUME MaxLineAssumption == MaxLine \in Nat /\ MaxLine >= 3

Controls == {"ctrlA", "ctrlB", "ctrlC", "ctrlD", "ctrlE"}
Printable == {"A", "x"}
AllChars == Controls \cup Printable \cup {"nul", "cr", "other"}
Bytes == {"A", "ctrlE", "x", "nl"}

Repl == [mode: {"friendly", "raw"}, cont: BOOLEAN, paste: BOOLEAN,
         line: Seq(Bytes), orig: Nat, open: BOOLEAN]

\* What a handler does next, and with which state.
Results == {"return", "exit", "exec", "hang"}
Result(does, s) == [does |-> does, repl |-> s]

(***************************************************************************)
(* vstr_add_byte.  A line keeps the bytes some handler tells apart, and is *)
(* not grown past MaxLine: no handler tells two lines of three bytes or    *)
(* more apart.                                                             *)
(***************************************************************************)
Byte(c) == IF c \in {"A", "ctrlE"} THEN c ELSE "x"

AddByte(s, c) ==
    IF Len(s.line) < MaxLine THEN [s EXCEPT !.line = Append(@, Byte(c))] ELSE s

ResetLine(s) == [s EXCEPT !.line = <<>>]

\* vstr_clear before PYEXEC_FORCED_EXIT: the buffer is freed.
ClearLine(s) == [s EXCEPT !.line = <<>>, !.open = FALSE]

\* input_restart: a fresh line, out of continuation and of paste mode.
InputRestart(s) ==
    [s EXCEPT !.line = <<>>, !.orig = 0, !.cont = FALSE, !.paste = FALSE]

\* mp_repl_continue_with_input: never for blank input; otherwise it depends
\* on the text alone, and `more' is what the text of this line calls for.
ContinueWithInput(s, more) == s.line # <<>> /\ more

\* Mutant of NoteNewline: the carriage return typed is what is added.
NoteNewlineAsTyped(s) == [s EXCEPT !.cont = TRUE, !.line = <<"cr">>, !.orig = 1]

\* A newline is added and the next line of the statement is edited.  The
\* lines before it are kept as that newline alone: no handler looks at them.
NoteNewline(s) == [s EXCEPT !.cont = TRUE, !.line = <<"nl">>, !.orig = 1]

(***************************************************************************)
(* readline_process_char with no escape sequence pending: the value it     *)
(* returns, "none" standing for -1 and "cr" for 0, and the edited line.    *)
(***************************************************************************)
ReadlineReturns(s, c) ==
    IF \/ c \in Controls /\ Len(s.line) = s.orig
       \/ c \in {"ctrlC", "cr"}
    THEN c ELSE "none"

ReadlineEdits(s, c) == IF c \in Printable THEN AddByte(s, c) ELSE s

(***************************************************************************)
(* The raw REPL.  CTRL-A after the two bytes CTRL-E and A starts raw-paste *)
(* mode, whose reader takes its bytes from mp_hal_stdin_rx_chr: no stdin   *)
(* is ever set here, it answers '\n' for ever, and the lexer never stops.  *)
(***************************************************************************)
EntersRawPaste(s) == s.line = <<"ctrlE", "A">>

RawProcessChar(s, c) ==
    CASE c = "ctrlA" ->
            IF EntersRawPaste(s) THEN Result("hang", s)
                                 ELSE Result("return", ResetLine(s))
      [] c = "ctrlB" ->
            \* back to the friendly REPL, whose CTRL-B prints the banner
            Result("return", InputRestart([s EXCEPT !.mode = "friendly"]))
      [] c = "ctrlC" -> Result("return", ResetLine(s))
      [] c = "ctrlD" ->
            IF s.line = <<>> THEN Result("exit", ClearLine(s))
                             ELSE Result("exec", s)
      [] OTHER -> Result("return", AddByte(s, c))

PasteProcessChar(s, c) ==
    CASE c = "ctrlC" -> Result("return", InputRestart(s))
      [] c = "ctrlD" -> Result("exec", s)
      [] OTHER -> Result("return", AddByte(s, c))

\* The end of a line: more of the statement, or its execution.
EndOfLine(s, more) ==
    IF ContinueWithInput(s, more) THEN Result("return", NoteNewline(s))
                                  ELSE Result("exec", s)

\* The first line of a statement.
FirstLineChar(s, c, more) ==
    LET ret == ReadlineReturns(s, c) IN
    CASE ret = "ctrlA" -> Result("return", ResetLine([s EXCEPT !.mode = "raw"]))
      [] ret \in {"ctrlB", "ctrlC"} -> Result("return", InputRestart(s))
      [] ret = "ctrlD" -> Result("exit", ClearLine(s))
      [] ret = "ctrlE" -> Result("return", [ResetLine(s) EXCEPT !.paste = TRUE])
      [] ret = "none" -> Result("return", ReadlineEdits(s, c))
      [] OTHER -> EndOfLine(s, more)

\* A further line of a compound statement: CTRL-A, CTRL-B and CTRL-E on an
\* empty line end the line just as a carriage return does.
ContLineChar(s, c, more) ==
    LET ret == ReadlineReturns(s, c) IN
    CASE ret = "ctrlC" -> Result("return", InputRestart(s))
      [] ret = "ctrlD" -> Result("exec", s)
      [] ret = "none" -> Result("return", ReadlineEdits(s, c))
      [] OTHER -> EndOfLine(s, more)

FriendlyProcessChar(s, c, more) ==
    IF s.paste THEN PasteProcessChar(s, c)
    ELSE IF s.cont THEN ContLineChar(s, c, more)
    ELSE FirstLineChar(s, c, more)

ProcessChar(s, c, more) ==
    IF s.mode = "raw" THEN RawProcessChar(s, c)
                      ELSE FriendlyProcessChar(s, c, more)

\* What follows parse_compile_execute, which never answers FORCED_EXIT
\* (pyexec_system_exit is always 0): the handler resets its line.
Executed(s) == IF s.mode = "raw" THEN ResetLine(s) ELSE InputRestart(s)

\* pyexec_event_repl_init: CTRL-B on an empty line, hence the banner.
EventReplInit ==
    [mode |-> "friendly", cont |-> FALSE, paste |-> FALSE,
     line |-> <<>>, orig |-> 0, open |-> TRUE]

=============================================================================
