------------------------------- MODULE Shell -------------------------------
(***************************************************************************)
(* The on-chip shell IPUpysh (example 7 of old_examples): a python shell on *)
(* tile 0 that makes system calls.  It writes the call's number and        *)
(* arguments to tensors and executes longyield; the control program looks  *)
(* at syscallArg, serves the call and runs the vertex again, which resumes *)
(* the shell.  The program a call launches may be example 4 (a REPL), 5 (a *)
(* coroutine fed by the host) or 8 (a python file of the shell's disk),    *)
(* the last of which makes system calls of its own through the same        *)
(* tensors, or one of the one-shot examples 1 to 3.                        *)
(*                                                                         *)
(* A step of a vertex is the python code between two longyields.  Lines    *)
(* are told apart by being empty or not, and what a line means is a        *)
(* choice.  The disk's contents are ExchangeBlockDevice's subject.         *)
(***************************************************************************)
EXTENDS Integers, Sequences

CONSTANTS
    Blocks,         \* numbers of the blocks of the disk
    HistoryLen,     \* IPUpySh.HISTORY_LEN
    Messages,       \* ex5MsgBuf_h: what the host sends example 5, round and round
    MaxExchanges,   \* bound: blocks a command, or example 8, moves
    MaxHistory      \* bound: lines of the history, which failing commands let grow

ASSUME ShellAssumption ==
    /\ Blocks \subseteq Nat /\ Blocks # {}
    /\ HistoryLen \in Nat
    /\ Messages \in Seq(STRING) /\ Len(Messages) > 1
    /\ \A i \in 1 .. Len(Messages) - 1 : Messages[i] = "STOP" <=> i = Len(Messages) - 1
    /\ MaxExchanges \in Nat /\ MaxHistory \in Nat

VARIABLES
    pc,             \* where the control program is
    syscallArg, programSelector, vfsPos, inBuf, shutdownFlag, doneFlag,
    live,           \* checkpoint_is_live of tiles 0, 5 and 8
    at,             \* where the shell's python stack is suspended
    exists,         \* the global `shell' has been assigned
    history, history_idx,
    line, prev_ch,  \* current_line and prev_ch of IPUpySh.run
    exchanges,      \* exchanges made so far by the command, or by example 8
    formats,
    call, served,   \* of tiles 0 and 8: the call made last, and what was done about it
    stream, msgBuf, heard   \* example 5: the place in Messages, and what it received

shellVars == <<exists, history, history_idx, line, prev_ch>>
ex5Vars == <<stream, msgBuf, heard>>
vars == <<pc, syscallArg, programSelector, vfsPos, inBuf, shutdownFlag, doneFlag, live, at,
          shellVars, exchanges, formats, call, served, ex5Vars>>

Transfers == {"vfs_read", "vfs_write"}
OneShots == {1, 2, 3}
Programs == OneShots \cup {4, 5, 8}
NoFileSystem == -1

\* What a call asks for: its number and the argument its service looks at.
Call(number, arg) == [number |-> number, arg |-> arg]
NoCall == Call("none", 0)

---------------------------------------------------------------------------
(***************************************************************************)
(* The tile of the shell.  Python sets the tensors and yields; the code    *)
(* after longyield sets syscallArg to none, as the vertex has done before  *)
(* it resumes it.                                                          *)
(***************************************************************************)
Yield(c, where) ==
    /\ syscallArg' = c.number
    /\ vfsPos' = IF c.number \in Transfers THEN c.arg ELSE vfsPos
    /\ programSelector' = IF c.number = "run" THEN c.arg ELSE programSelector
    /\ live' = [live EXCEPT ![0] = TRUE]
    /\ at' = where
    /\ call' = [call EXCEPT ![0] = c]
    /\ served' = [served EXCEPT ![0] = <<>>]
    /\ pc' = "switch"

\* IPUpy_do_str has printed an exception nobody caught.
BodyEnds ==
    /\ syscallArg' = "none"
    /\ live' = [live EXCEPT ![0] = FALSE]
    /\ at' = "nowhere"
    /\ call' = [call EXCEPT ![0] = NoCall]
    /\ served' = [served EXCEPT ![0] = <<>>]
    /\ pc' = "switch"
    /\ UNCHANGED <<vfsPos, programSelector>>

VfsExchange(where) ==
    /\ exchanges < MaxExchanges
    /\ exchanges' = exchanges + 1
    /\ \E b \in Blocks, action \in Transfers : Yield(Call(action, b), where)

GetChar(where) == Yield(Call("get_char", 0), where)

Resumes(where) == pc = "body" /\ live[0] /\ at = where
Starts == pc = "body" /\ ~live[0]

\* Mutant: every start of the vertex makes a file system.
FormatsAtStartAlways == TRUE

FormatsAtStart == vfsPos = NoFileSystem

\* mkfs and mount, block by block.
SetUp ==
    /\ \/ Starts /\ FormatsAtStart /\ formats' = formats + 1
       \/ Resumes("setup") /\ UNCHANGED formats
    /\ VfsExchange("setup")
    /\ UNCHANGED <<inBuf, shutdownFlag, doneFlag, shellVars, ex5Vars>>

SetUpFails ==
    /\ (Starts /\ FormatsAtStart) \/ Resumes("setup")
    /\ BodyEnds
    /\ exchanges' = 0
    /\ UNCHANGED <<inBuf, shutdownFlag, doneFlag, shellVars, formats, ex5Vars>>

\* shell = IPUpySh(), and shell.run() up to its first getchar.
SetUpDone ==
    /\ Resumes("setup")
    /\ exists' = TRUE /\ history' = <<>> /\ history_idx' = 0
    /\ line' = "empty" /\ prev_ch' = "None"
    /\ exchanges' = 0
    /\ GetChar("key")
    /\ UNCHANGED <<inBuf, shutdownFlag, doneFlag, formats, ex5Vars>>

\* The body is run again after an exception: the same shell, a new line.
RunAgain ==
    /\ Starts /\ ~FormatsAtStart /\ exists
    /\ line' = "empty" /\ prev_ch' = "None"
    /\ GetChar("key")
    /\ UNCHANGED <<inBuf, shutdownFlag, doneFlag, exists, history, history_idx, exchanges,
                   formats, ex5Vars>>

\* ... or no shell, when its set-up had failed after the first exchange: a NameError.
NoShell ==
    /\ Starts /\ ~FormatsAtStart /\ ~exists
    /\ BodyEnds
    /\ UNCHANGED <<inBuf, shutdownFlag, doneFlag, shellVars, exchanges, formats,
                   ex5Vars>>

---------------------------------------------------------------------------
\* IPUpySh.run, from one getchar to the next.

Clamp(i) == IF i < 0 THEN 0 ELSE IF i > Len(history) THEN Len(history) ELSE i

\* chr of a byte from 128 on, which the array holds as a negative number, raises.
Unreadable ==
    /\ \E where \in {"key", "escape", "arrow"} : Resumes(where)
    /\ inBuf = "high"
    /\ BodyEnds
    /\ UNCHANGED <<inBuf, shutdownFlag, doneFlag, shellVars, exchanges, formats, ex5Vars>>

\* ESC and the two characters after it.
Escape ==
    /\ \/ Resumes("key") /\ inBuf = "esc" /\ GetChar("escape")
       \/ Resumes("escape") /\ inBuf # "high" /\ GetChar("arrow")
    /\ UNCHANGED <<inBuf, shutdownFlag, doneFlag, shellVars, exchanges, formats,
                   ex5Vars>>

\* Any third character ends the sequence; ESC [ A and ESC [ B walk the history.  Coming
\* down to 0 leaves the line as it is.
Arrow ==
    /\ Resumes("arrow") /\ inBuf # "high"
    /\ \E move \in {-1, 0, 1} :
        /\ history_idx' = IF move # 0 /\ history # <<>> THEN Clamp(history_idx + move)
                                                        ELSE history_idx
        /\ line' = IF move # 0 /\ history # <<>> /\ history_idx' # 0
                   THEN history[Len(history) - history_idx' + 1] ELSE line
    /\ prev_ch' = "escape"
    /\ GetChar("key")
    /\ UNCHANGED <<inBuf, shutdownFlag, doneFlag, exists, history, exchanges,
                   formats, ex5Vars>>

\* A character of the line, which CTRL-D is too, backspace, and CTRL-C.
EditLine ==
    /\ Resumes("key")
    /\ \/ /\ inBuf \in {"letter", "ctrlD"}
          /\ line' = "text" /\ UNCHANGED history_idx
       \/ /\ inBuf = "backspace"
          /\ line' \in IF line = "empty" THEN {"empty"} ELSE {"empty", "text"}
          /\ UNCHANGED history_idx
       \/ /\ inBuf = "ctrlC" /\ prev_ch # "ctrlD"
          /\ line' = "empty" /\ history_idx' = 0
    /\ prev_ch' = inBuf
    /\ GetChar("key")
    /\ UNCHANGED <<inBuf, shutdownFlag, doneFlag, exists, history, exchanges,
                   formats, ex5Vars>>

\* CTRL-D, CTRL-C: shutdown(), whose longyield never returns.
Shutdown ==
    /\ Resumes("key") /\ inBuf = "ctrlC" /\ prev_ch = "ctrlD"
    /\ Yield(Call("shutdown", 0), "shutdown")
    /\ UNCHANGED <<inBuf, shutdownFlag, doneFlag, shellVars, exchanges, formats,
                   ex5Vars>>

Trimmed(h) == IF Len(h) > HistoryLen THEN Tail(h) ELSE h
AtReturn == Resumes("key") /\ inBuf = "cr"

\* proc_line has returned.
LineDone(h) ==
    /\ history' = Trimmed(h)
    /\ history_idx' = 0
    /\ line' = "empty" /\ prev_ch' = "cr"
    /\ exchanges' = 0
    /\ GetChar("key")
    /\ UNCHANGED <<inBuf, shutdownFlag, doneFlag, exists, formats, ex5Vars>>

\* An empty line, or a command that needs nothing of the system.
Return == AtReturn /\ LineDone(Append(history, line))

\* A command that reads or writes files, one that launches a program, and one for the
\* host's shell.
ProcLine ==
    /\ AtReturn /\ line = "text" /\ Len(history) < MaxHistory
    /\ history' = Append(history, line)
    /\ \/ VfsExchange("command")
       \/ /\ \E n \in Programs : Yield(Call("run", n), "command")
          /\ UNCHANGED exchanges
       \/ /\ Yield(Call("host_run", 0), "command")
          /\ UNCHANGED exchanges
    /\ UNCHANGED <<inBuf, shutdownFlag, doneFlag, exists, history_idx, line, prev_ch,
                   formats, ex5Vars>>

ProcLineGoesOn ==
    /\ Resumes("command") /\ call[0].number \in Transfers
    /\ VfsExchange("command")
    /\ UNCHANGED <<inBuf, shutdownFlag, doneFlag, shellVars, formats, ex5Vars>>

ProcLineReturns == Resumes("command") /\ LineDone(history)

\* An exception: a blank line has no first word, a file may not exist, cd wants an
\* argument, a host command may be too long, and the message for a program that does not
\* exist names an undefined variable.  The line stays in the history, untrimmed.
ProcLineFails ==
    /\ \/ /\ AtReturn /\ line = "text" /\ Len(history) < MaxHistory
          /\ history' = Append(history, line)
       \/ Resumes("command") /\ call[0].number \in Transfers /\ UNCHANGED history
    /\ BodyEnds
    /\ exchanges' = 0
    /\ UNCHANGED <<inBuf, shutdownFlag, doneFlag, exists, history_idx, line, prev_ch, formats,
                   ex5Vars>>

TerminalBody ==
    \/ SetUp \/ SetUpFails \/ SetUpDone \/ RunAgain \/ NoShell
    \/ Unreadable \/ Escape \/ Arrow \/ EditLine \/ Shutdown
    \/ Return \/ ProcLine \/ ProcLineGoesOn \/ ProcLineReturns \/ ProcLineFails

---------------------------------------------------------------------------
(***************************************************************************)
(* The control program.                                                    *)
(***************************************************************************)
tileVars == <<live, at, shellVars, exchanges, formats, call>>

TerminalInit ==
    /\ pc = "init"
    /\ syscallArg' = "none" /\ vfsPos' = NoFileSystem
    /\ shutdownFlag' = FALSE
    /\ pc' = "body"
    /\ UNCHANGED <<programSelector, inBuf, doneFlag, tileVars, served, ex5Vars>>

Serves(t, c) == served' = [served EXCEPT ![t] = Append(@, c)]

\* syscall_get_char: the host waits for a key.
Keys == {"letter", "cr", "esc", "backspace", "ctrlC", "ctrlD", "high"}
ReadKey ==
    /\ pc = "switch" /\ syscallArg = "get_char"
    /\ inBuf' \in Keys
    /\ Serves(0, Call("get_char", 0))
    /\ pc' = "body"
    /\ UNCHANGED <<syscallArg, programSelector, vfsPos, shutdownFlag, doneFlag, tileVars,
                   ex5Vars>>

\* The calls that are over at once.
Switch ==
    /\ pc = "switch"
    /\ \/ /\ syscallArg = "none"
          /\ UNCHANGED <<served, shutdownFlag>>
       \/ /\ syscallArg \in Transfers /\ Serves(0, Call(syscallArg, vfsPos))
          /\ UNCHANGED shutdownFlag
       \/ /\ syscallArg = "host_run" /\ Serves(0, Call("host_run", 0))
          /\ UNCHANGED shutdownFlag
       \/ /\ syscallArg = "shutdown" /\ Serves(0, Call("shutdown", 0))
          /\ shutdownFlag' = TRUE
       \/ /\ syscallArg = "run" /\ programSelector \in OneShots
          /\ Serves(0, Call("run", programSelector))
          /\ UNCHANGED shutdownFlag
    /\ pc' = IF shutdownFlag' THEN "end" ELSE "body"
    /\ UNCHANGED <<syscallArg, programSelector, vfsPos, inBuf, doneFlag, tileVars, ex5Vars>>

\* syscall_run of a program with a loop: its Init vertex, and doneFlag cleared.
Launch ==
    /\ pc = "switch" /\ syscallArg = "run"
    /\ programSelector \in {4, 5, 8}
    /\ Serves(0, Call("run", programSelector))
    /\ doneFlag' = FALSE
    /\ IF programSelector = 8
       THEN syscallArg' = "none" /\ vfsPos' = NoFileSystem
       ELSE UNCHANGED <<syscallArg, vfsPos>>
    /\ heard' = <<>>
    /\ pc' = CASE programSelector = 4 -> "ex4"
               [] programSelector = 5 -> "ex5"
               [] programSelector = 8 -> "ex8"
    /\ UNCHANGED <<programSelector, inBuf, shutdownFlag, tileVars, stream, msgBuf>>

\* Example 4: a key, and its REPL, which ends on NUL and on CTRL-D in the right place.
Example4Key ==
    /\ pc = "ex4"
    /\ inBuf' \in Keys \cup {"nul"}
    /\ doneFlag' \in CASE inBuf' = "nul" -> {TRUE}
                       [] inBuf' = "ctrlD" -> BOOLEAN
                       [] OTHER -> {FALSE}
    /\ pc' = IF doneFlag' THEN "body" ELSE "ex4"
    /\ UNCHANGED <<syscallArg, programSelector, vfsPos, shutdownFlag, tileVars, served,
                   ex5Vars>>

\* Mutant: the loop of example 5 ends before the copy that follows STOP.
CopyMessageUnlessDone ==
    IF doneFlag' THEN UNCHANGED <<msgBuf, stream>>
    ELSE msgBuf' = Messages[stream] /\ stream' = (stream % Len(Messages)) + 1

CopyMessage == msgBuf' = Messages[stream] /\ stream' = (stream % Len(Messages)) + 1

\* Example 5: main() up to its next longyield, or its end, then the host's next message.
Example5Pass ==
    /\ pc = "ex5"
    /\ heard' = IF live[5] THEN Append(heard, msgBuf) ELSE heard
    /\ doneFlag' = (live[5] /\ msgBuf = "STOP")
    /\ live' = [live EXCEPT ![5] = ~doneFlag']
    /\ CopyMessage
    /\ pc' = IF doneFlag' THEN "body" ELSE "ex5"
    /\ UNCHANGED <<syscallArg, programSelector, vfsPos, inBuf, shutdownFlag, at, shellVars,
                   exchanges, formats, call, served>>

---------------------------------------------------------------------------
\* Example 8, between two of its exchanges.  Its mount reads at least one block.

Example8Yields ==
    /\ pc = "ex8"
    /\ exchanges < MaxExchanges /\ exchanges' = exchanges + 1
    /\ \E b \in Blocks, action \in Transfers :
        /\ syscallArg' = action /\ vfsPos' = b
        /\ call' = [call EXCEPT ![8] = Call(action, b)]
    /\ served' = [served EXCEPT ![8] = <<>>]
    /\ live' = [live EXCEPT ![8] = TRUE]
    /\ pc' = "ex8switch"
    /\ UNCHANGED <<programSelector, inBuf, shutdownFlag, doneFlag, at, shellVars,
                   formats, ex5Vars>>

\* Mutant: the program ends without the call that ends its loop.
Example8EndsSilently ==
    /\ pc = "ex8" /\ live[8]
    /\ syscallArg' = "none"
    /\ exchanges' = 0
    /\ live' = [live EXCEPT ![8] = FALSE]
    /\ call' = [call EXCEPT ![8] = NoCall] /\ served' = [served EXCEPT ![8] = <<>>]
    /\ pc' = "ex8switch"
    /\ UNCHANGED <<programSelector, vfsPos, inBuf, shutdownFlag, doneFlag, at, shellVars,
                   formats, ex5Vars>>

\* The file has been run, or could not be read.
Example8Ends ==
    /\ pc = "ex8" /\ live[8]
    /\ syscallArg' = "shutdown"
    /\ exchanges' = 0
    /\ live' = [live EXCEPT ![8] = FALSE]
    /\ call' = [call EXCEPT ![8] = NoCall] /\ served' = [served EXCEPT ![8] = <<>>]
    /\ pc' = "ex8switch"
    /\ UNCHANGED <<programSelector, vfsPos, inBuf, shutdownFlag, doneFlag, at, shellVars,
                   formats, ex5Vars>>

Example8Switch ==
    /\ pc = "ex8switch"
    /\ IF syscallArg \in Transfers THEN Serves(8, Call(syscallArg, vfsPos))
                                   ELSE UNCHANGED served
    /\ doneFlag' = (doneFlag \/ syscallArg = "shutdown")
    /\ pc' = IF doneFlag' THEN "body" ELSE "ex8"
    /\ UNCHANGED <<syscallArg, programSelector, vfsPos, inBuf, shutdownFlag, tileVars, ex5Vars>>

---------------------------------------------------------------------------
Init ==
    /\ pc = "init"
    /\ syscallArg = "none" /\ programSelector = 0 /\ vfsPos = 0 /\ inBuf = "cr"
    /\ shutdownFlag \in BOOLEAN /\ doneFlag \in BOOLEAN
    /\ live = [t \in {0, 5, 8} |-> FALSE]
    /\ at = "nowhere"
    /\ exists = FALSE /\ history = <<>> /\ history_idx = 0 /\ line = "empty" /\ prev_ch = "None"
    /\ exchanges = 0 /\ formats = 0
    /\ call = [t \in {0, 8} |-> NoCall] /\ served = [t \in {0, 8} |-> <<>>]
    /\ stream = 1 /\ msgBuf = "none" /\ heard = <<>>

Device ==
    \/ TerminalInit \/ TerminalBody \/ Switch \/ Launch
    \/ Example5Pass \/ Example8Yields \/ Example8Ends \/ Example8Switch

User == ReadKey \/ Example4Key

\* The host leaves the terminal as it was.
Terminated == pc = "end" /\ UNCHANGED vars

Next == Device \/ User \/ Terminated

Spec == Init /\ [][Next]_vars

\* The IPU runs its program; nobody has to type.
FairSpec == Spec /\ WF_vars(Device)

---------------------------------------------------------------------------
\* Properties

\* A system call is served once, by the service it names, before its caller goes on,
\* although the program it launches makes calls through the same tensors; example 5, each
\* time it is launched, has received the messages in order up to STOP; and nothing but the
\* shell's own call ends the session.
Answered(t) == served[t] = <<call[t]>>
CallsServed ==
    /\ pc = "body" /\ live[0] =>
        /\ Answered(0)
        /\ call[0] = Call("run", 5) => heard = SubSeq(Messages, 1, Len(Messages) - 1)
    /\ pc = "ex8" /\ live[8] => Answered(8)
    /\ pc = "end" => call[0].number = "shutdown" /\ Answered(0)

\* The disk gets a file system once: a shell that is run again after an exception keeps its
\* files, also after example 8 has used the tensor that says whether there are any.
FormattedOnce == formats <= 1

\* Whatever a command does, and however often one fails, the shell comes back and asks for
\* a key, unless a launched REPL does or the session is over.
ShellComesBack ==
    (exists /\ pc = "body") ~>
        ((pc = "switch" /\ syscallArg = "get_char") \/ pc = "ex4" \/ pc = "end")
===========================================================================
