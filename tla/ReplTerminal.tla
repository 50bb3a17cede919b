--------------------------- MODULE ReplTerminal ---------------------------
(***************************************************************************)
(* What a user of the multi-REPL sees: the friendly REPL and readline of   *)
(* tile 0, the print buffers (mp_hal_stdout_tx_strn), the host's print     *)
(* callback (multirepl_host.cpp 158-183) and the row of the terminal the   *)
(* command line is on.                                                     *)
(*                                                                         *)
(* Every tile gets the same characters, so one copy of the REPL stands for *)
(* all of them; what they print when they execute is a choice per tile.    *)
(* The characters that leave the friendly REPL, and the ones that end an   *)
(* empty continuation line without a carriage return, are EventRepl's      *)
(* subject and not typed here.                                             *)
(***************************************************************************)
EXTENDS Readline, FiniteSets

CONSTANTS
    Tiles, Tile0,
    BufSize,       \* PRINTBUFSIZE
    Completions,   \* what mp_repl_autocomplete may find
    Texts,         \* what a command may print, in bytes
    MaxLine,       \* bound: bytes of a line
    MaxLong,       \* bound: bytes of a line that repeats one letter
    MaxSubmit      \* bound: bytes of a line that is executed

ASSUME TerminalAssumption ==
    /\ Tile0 \in Tiles /\ BufSize \in Nat \ {0}
    /\ Texts \subseteq Seq(STRING) /\ Completions \subseteq Seq(Letters)

\* mp_hal_move_cursor_back asserts that it moves by less than 1000.
ASSUME BoundsAssumption == MaxLine \in 0 .. 999 /\ MaxLong \in 0 .. 999

\* What a command prints ends its lines by CR NL, as mp_hal_stdout_tx_strn_cooked writes
\* them, and moves the terminal's cursor in no other way.
ASSUME TextsAssumption ==
    \A x \in Texts : \A i \in 1 .. Len(x) :
        /\ x[i] \notin {"ESC", "bs"}
        /\ x[i] = "cr" => i + 1 <= Len(x) /\ x[i + 1] = "nl"

VARIABLES
    rl,       \* readline's state
    cont,     \* repl.cont_line
    screen,   \* the last row of the terminal, its cursor and a pending ESC [ number
    synced,   \* the row is the one the interpreters draw on
    dots,     \* which of the bytes 2 to 4 of tile 0's print buffer are dots
    ran,      \* what the tiles printed for the last carriage return, or {}
    report    \* what the host made of it: text and multiplicity

vars == <<rl, cont, screen, synced, dots, ran, report>>

Ps1 == <<">", ">", ">", " ">>
Ps2 == <<".", ".", ".", " ">>
Prompt(isCont) == IF isCont THEN Ps2 ELSE Ps1
Newline == <<"cr", "nl">>
NoMatch == Match(<<>>)

---------------------------------------------------------------------------
\* The terminal (external): what one byte does to the row.  A newline starts a row,
\* with the output processing the host leaves on.

NoNumber == -1
Row(bytes) == [row |-> bytes, col |-> Len(bytes), num |-> NoNumber]
Position(n) == IF n > 0 THEN n ELSE 0
DigitValue(b) == CHOOSE n \in 0 .. 9 : Digit(n) = b

InCommand(s, b) ==
    CASE b = "[" -> s
      [] b = "D" -> [s EXCEPT !.col = Position(@ - s.num), !.num = NoNumber]
      [] b = "K" -> [s EXCEPT !.row = SubSeq(@, 1, s.col), !.num = NoNumber]
      [] OTHER -> [s EXCEPT !.num = 10 * @ + DigitValue(b)]

Shown(s, b) ==
    IF s.num # NoNumber THEN InCommand(s, b)
    ELSE CASE b = "ESC" -> [s EXCEPT !.num = 0]
           [] b = "bs" -> [s EXCEPT !.col = Position(@ - 1)]
           [] b = "cr" -> [s EXCEPT !.col = 0]
           [] b = "nl" -> Row(<<>>)
           [] OTHER -> [s EXCEPT !.row = SubSeq(@, 1, s.col) \o <<b>>
                                           \o SubSeq(@, s.col + 2, Len(@)),
                                 !.col = @ + 1]

Display(s, bytes) ==
    LET after[i \in 0 .. Len(bytes)] == IF i = 0 THEN s ELSE Shown(after[i - 1], bytes[i])
    IN  after[Len(bytes)]

---------------------------------------------------------------------------
\* mp_hal_stdout_tx_strn: what does not fit is dropped.
Buffered(bytes) == IF Len(bytes) < BufSize THEN bytes ELSE SubSeq(bytes, 1, BufSize - 1)

\* IPUpy_set_stdout empties the buffer by one NUL: the bytes behind what is written now
\* are those of earlier characters.
DotsAfter(out) ==
    [i \in 2 .. 4 |-> IF i < Len(out) THEN out[i + 1] = "."
                      ELSE i > Len(out) /\ dots[i]]

\* The print callback passes tile 0's buffer through, or reports on all of them.
PassesThrough(c) == c \notin {"cr", "tab"} \/ \A i \in 2 .. 4 : dots'[i]

\* Mutant: Four bytes are taken off the end, for a prompt without its newline's byte.
ContentTrimmedLess(outs, x) == [text |-> SubSeq(x, 3, Len(x) - 4),
                                count |-> Cardinality({t \in Tiles : outs[t] = x})]

Content(outs, x) == [text |-> SubSeq(x, 3, Len(x) - 5),
                     count |-> Cardinality({t \in Tiles : outs[t] = x})]
Report(outs) == {Content(outs, x) : x \in {outs[t] : t \in {u \in Tiles : Len(outs[u]) > 6}}}

\* A character c was handled: the tiles wrote `outs'.
Answer(c, outs) ==
    /\ dots' = DotsAfter(outs[Tile0])
    /\ IF PassesThrough(c)
       THEN LET fresh == rl'.line = <<>> /\ Contains(outs[Tile0], "nl")
                whole == Len(outs[Tile0]) < BufSize - 1
            IN  /\ synced' = (whole /\ (synced \/ fresh))
                /\ screen' = IF synced' THEN Display(screen, outs[Tile0]) ELSE Row(<<>>)
                /\ report' = {}
       ELSE /\ synced' = (rl'.line = <<>> /\ ~cont')
            /\ screen' = IF synced' THEN Row(Ps1) ELSE Row(<<>>)
            /\ report' = IF c = "cr" THEN Report(outs) ELSE {}

Everyone(bytes) == [t \in Tiles |-> Buffered(bytes)]

---------------------------------------------------------------------------
\* pyexec_friendly_repl_process_char, by what readline returns.

LongLetter == CHOOSE l \in Letters : TRUE
WithinBounds(line) ==
    Len(line) <= MaxLine \/ (Len(line) <= MaxLong /\ \A i \in DOMAIN line : line[i] = LongLetter)

\* -1: the line was edited, or an escape sequence goes on.
Type(c, found) ==
    /\ Returns(rl, c) = "none"
    /\ LET p == ProcessChar(rl, c, found, TRUE, Prompt(cont))
       IN  /\ WithinBounds(p.rl.line)
           /\ rl' = p.rl
           /\ UNCHANGED cont
           /\ Answer(c, Everyone(p.out))
    /\ ran' = {}

\* 0, and the statement goes on.  Blank input never does.
Continue(room) ==
    /\ Returns(rl, "cr") = "cr"
    /\ Len(rl.line) <= MaxSubmit
    /\ cont \/ rl.line # <<>>
    /\ LET p == ProcessChar(rl, "cr", NoMatch, room, Prompt(cont))
       IN  /\ rl' = NoteNewline(p.rl)
           /\ cont' = TRUE
           /\ Answer("cr", Everyone(p.out \o Ps2))
    /\ ran' = {}

\* 0 at the end of a statement, or CTRL-D on an empty continuation line: it is executed,
\* and a new line is started.
Execute(c, room) ==
    /\ \/ c = "cr" /\ Returns(rl, c) = "cr" /\ Len(rl.line) <= MaxSubmit
       \/ c = "ctrlD" /\ Returns(rl, c) = "ctrlD" /\ cont
    /\ \E texts \in [Tiles -> Texts] :
        LET p == ProcessChar(rl, c, NoMatch, room, Prompt(cont))
        IN  /\ rl' = ReadlineInit(p.rl)
            /\ cont' = FALSE
            /\ Answer(c, [t \in Tiles |-> Buffered(p.out \o texts[t] \o Ps1)])
            /\ ran' = IF c = "cr" THEN {texts} ELSE {}

\* CTRL-C
Cancel ==
    /\ Returns(rl, "ctrlC") = "ctrlC"
    /\ rl' = ReadlineInit(rl)
    /\ cont' = FALSE
    /\ Answer("ctrlC", Everyone(Newline \o Ps1))
    /\ ran' = {}

---------------------------------------------------------------------------
Plain == Letters \cup {"esc", "backspace", "tab", "cr", "ctrlA", "ctrlB", "ctrlC", "ctrlD", "ctrlE"}
Sequence == {"[", "O", "A", "B", "C", "D", "H", "F", "~"} \cup Digits
Keys == IF rl.esc = "none" THEN Plain ELSE Plain \cup Sequence

Found == {NoMatch, ManyMatches} \cup {Match(bytes) : bytes \in Completions}

\* pyexec_event_repl_init has written the banner and the prompt.
Init ==
    /\ rl = EmptyReadline
    /\ cont = FALSE
    /\ screen = Row(Ps1) /\ synced = TRUE
    /\ dots = [i \in 2 .. 4 |-> FALSE]
    /\ ran = {} /\ report = {}

Next ==
    \/ \E c \in Keys :
        \E found \in IF c = "tab" THEN Found ELSE {NoMatch} : Type(c, found)
    \/ \E room \in BOOLEAN : Continue(room)
    \/ \E c \in {"cr", "ctrlD"}, room \in BOOLEAN : Execute(c, room)
    \/ Cancel

Spec == Init /\ [][Next]_vars

---------------------------------------------------------------------------
\* Properties

TypeOK ==
    /\ rl.line \in Seq(Letters) /\ WithinBounds(rl.line)
    /\ rl.cursor \in 0 .. Len(rl.line)
    /\ rl.esc \in {"none", "esc", "bracket", "digit", "O"}
    /\ rl.digit \in Digits \cup {"0"}
    /\ Len(rl.hist) <= HistSize /\ rl.cur \in 0 .. Len(rl.hist)
    /\ cont \in BOOLEAN /\ synced \in BOOLEAN
    /\ screen.col \in 0 .. Len(screen.row) /\ screen.num = NoNumber
    /\ dots \in [2 .. 4 -> BOOLEAN]

\* The row ends with the prompt and the line being edited, and its cursor stands where
\* readline's does, whatever was inserted, deleted, recalled or completed, as long as
\* the host has not put a prompt of its own in front of a line that is not empty.
ScreenShowsLine ==
    synced =>
        LET shown == Prompt(cont) \o rl.line
        IN  /\ IsSuffix(shown, screen.row)
            /\ screen.col = Len(screen.row) - Len(rl.line) + rl.cursor

\* Each response to a carriage return is shown whole, up to its last newline, with the
\* number of tiles that gave it, provided it ends with a newline, fits the buffer, and
\* tile 0's does not start with three dots.
Regular(texts) ==
    /\ \A t \in Tiles :
        \/ texts[t] = <<>>
        \/ /\ texts[t][Len(texts[t])] = "nl"
           /\ Len(texts[t]) + 6 < BufSize
    /\ ~IsPrefix(<<".", ".", ".">>, texts[Tile0])
EveryResponseReported ==
    \A texts \in ran : Regular(texts) =>
        report = {[text |-> SubSeq(x, 1, Len(x) - 1),
                   count |-> Cardinality({t \in Tiles : texts[t] = x})] :
                        x \in {texts[t] : t \in Tiles} \ {<<>>}}
===========================================================================
