----------------------------- MODULE KernelCell -----------------------------
(***************************************************************************)
(* How the Jupyter kernel cuts a cell into the pieces it executes          *)
(* (IPUMultiKernel.do_execute): the lines between !RepeatBlock(n) and      *)
(* !EndRepeat are one piece, executed n times; the lines around are pieces *)
(* executed once; the end of the cell ends any piece.                      *)
(***************************************************************************)
EXTENDS Naturals, Sequences, FiniteSets

CONSTANTS
    MaxLines,      \* bound: lines of a cell
    Repetitions    \* the n of !RepeatBlock(n)

ASSUME KernelCellAssumption == MaxLines \in Nat /\ Repetitions \subseteq Nat

\* A line: a marker, or code.
Code == <<"code", 0>>
EndRepeat == <<"end", 0>>
RepeatBlock(n) == <<"repeat", n>>
Lines == {Code, EndRepeat} \cup {RepeatBlock(n) : n \in Repetitions}

VARIABLES
    lines, ln_num,     \* the cell, and the number of lines handled
    current_lines,     \* the line numbers gathered for the next piece
    in_block, repetitions,
    executed           \* the pieces executed, each a sequence of line numbers

vars == <<lines, ln_num, current_lines, in_block, repetitions, executed>>

Times(n, piece) == [i \in 1 .. n |-> piece]

Init ==
    /\ lines \in UNION {[1 .. n -> Lines] : n \in 0 .. MaxLines}
    /\ ln_num = 0
    /\ current_lines = <<>> /\ in_block = FALSE /\ repetitions = 0
    /\ executed = <<>>

\* The next iteration of the loop.
Line == lines[ln_num + 1]
LastLine == ln_num + 1 = Len(lines)
Gathered == Append(current_lines, ln_num + 1)
NextLine ==
    /\ ln_num < Len(lines)
    /\ ln_num' = ln_num + 1
    /\ UNCHANGED lines

\* Mutant of OutsideCode: the last line of the cell does not end the piece.
OutsideCodeGoesOn ==
    /\ NextLine /\ ~in_block /\ Line[1] # "repeat"
    /\ current_lines' = Gathered
    /\ UNCHANGED <<in_block, repetitions, executed>>

OutsideCode ==
    /\ NextLine /\ ~in_block /\ Line[1] # "repeat"
    /\ current_lines' = Gathered
    /\ executed' = IF LastLine THEN Append(executed, Gathered) ELSE executed
    /\ UNCHANGED <<in_block, repetitions>>

\* Mutant of OpenBlock: the lines already executed are not cleared.
OpenBlockKeepsLines ==
    /\ NextLine /\ ~in_block /\ Line[1] = "repeat"
    /\ executed' = IF current_lines # <<>> THEN Append(executed, current_lines)
                                           ELSE executed
    /\ repetitions' = Line[2] /\ in_block' = TRUE
    /\ UNCHANGED current_lines

OpenBlock ==
    /\ NextLine /\ ~in_block /\ Line[1] = "repeat"
    /\ executed' = IF current_lines # <<>> THEN Append(executed, current_lines)
                                           ELSE executed
    /\ current_lines' = <<>>
    /\ repetitions' = Line[2] /\ in_block' = TRUE

InsideCode ==
    /\ NextLine /\ in_block /\ Line[1] # "end" /\ ~LastLine
    /\ current_lines' = Gathered
    /\ UNCHANGED <<in_block, repetitions, executed>>

\* !EndRepeat, or the end of the cell.
CloseBlock ==
    LET piece == IF Line[1] = "end" THEN current_lines ELSE Gathered IN
    /\ NextLine /\ in_block /\ (Line[1] = "end" \/ LastLine)
    /\ executed' = executed \o Times(repetitions, piece)
    /\ in_block' = FALSE /\ current_lines' = <<>>
    /\ UNCHANGED repetitions

Done == ln_num = Len(lines) /\ UNCHANGED vars

Next == OutsideCode \/ OpenBlock \/ InsideCode \/ CloseBlock \/ Done

Spec == Init /\ [][Next]_vars

-----------------------------------------------------------------------------
(***************************************************************************)
(* What a cell means, line by line.                                        *)
(***************************************************************************)
\* The markers before line i that no !EndRepeat separates from it.
Openers(i) ==
    {j \in 1 .. i - 1 : lines[j][1] = "repeat"
                        /\ \A k \in j + 1 .. i - 1 : lines[k][1] # "end"}

Repeated(i) == Openers(i) # {}

IsCode(i) == IF Repeated(i) THEN lines[i][1] # "end" ELSE lines[i][1] # "repeat"

\* How often line i is to be executed: as the first of these markers says.
Multiplicity(i) ==
    IF ~IsCode(i) THEN 0
    ELSE IF ~Repeated(i) THEN 1
    ELSE LET first == CHOOSE j \in Openers(i) : \A k \in Openers(i) : j <= k
         IN  lines[first][2]

\* Nothing of a cell is dropped, repeated or left over: when do_execute is
\* over, every line has been executed as often as the markers around it say.
EveryLineExecuted ==
    ln_num = Len(lines) => \A i \in 1 .. Len(lines) :
        Cardinality({p \in 1 .. Len(executed) :
            \E q \in 1 .. Len(executed[p]) : executed[p][q] = i}) = Multiplicity(i)

\* A piece is a run of lines of the cell, all of them repeated together: it
\* never straddles a marker; and pieces are executed in the order of the cell.
PiecesAreRuns ==
    \A p \in 1 .. Len(executed) :
        LET piece == executed[p] IN
        /\ \A i \in 1 .. Len(piece) - 1 :
              /\ piece[i + 1] = piece[i] + 1
              /\ Openers(piece[i]) \subseteq Openers(piece[i + 1])
        /\ \A q \in 1 .. p - 1 :
              piece # <<>> /\ executed[q] # <<>> =>
                  executed[q] = piece \/ executed[q][Len(executed[q])] < piece[1]
=============================================================================
