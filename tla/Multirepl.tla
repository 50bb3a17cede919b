----------------------------- MODULE Multirepl -----------------------------
(***************************************************************************)
(* The multi-REPL: NUMREPLS interpreters, one per tile, driven by one      *)
(* Poplar control program (multirepl_host.cpp) that runs compute sets of   *)
(* vertices (multirepl_codelets.cpp) in bulk-synchronous fashion:          *)
(*                                                                         *)
(*   Init; Copy printBuf to host;                                          *)
(*   RepeatWhileFalse doneFlag[0]:                                         *)
(*     Copy one typed character to inBuf;                                  *)
(*     RuntimeVertex<true> on every tile;                                  *)
(*     RepeatWhileTrue (Any; coroutineFlag[0]):           -- with COMMS    *)
(*       Copy commsOutBuf to commsInBuf; RuntimeVertex<false> everywhere;  *)
(*     Copy printBuf to host.                                              *)
(*                                                                         *)
(* An interpreter that executes `longyield' leaves its vertex by longjmp   *)
(* to IPUpy_exit_env and is resumed, in a later vertex, by longjmp to      *)
(* IPUpy_checkpoint_env: that is how alltoall exchanges data.              *)
(*                                                                         *)
(* The python text is the environment: for each typed character the user   *)
(* decides how many times the command it completes, if any, will call      *)
(* alltoall on each tile (script), and whether the line it ends calls for  *)
(* another one (more).  Commands terminate.                                *)
(***************************************************************************)
EXTENDS EventRepl, FiniteSets

CONSTANTS
    NUMREPLS,    \* number of tiles
    COMMS,       \* was the program built with COMMS?
    Divergent,   \* may tiles call alltoall a different number of times?
    MaxYields,   \* bound: alltoall calls of one command
    Chars        \* the characters typed

ASSUME MultireplAssumption ==
    /\ NUMREPLS \in Nat \ {0}
    /\ COMMS \in BOOLEAN
    /\ Divergent \in BOOLEAN
    /\ MaxYields \in Nat
    /\ Chars \subseteq AllChars

Tiles == 0 .. NUMREPLS - 1

\* How often each tile's command will yield.
Scripts ==
    IF Divergent THEN [Tiles -> 0 .. MaxYields]
                 ELSE {[t \in Tiles |-> n] : n \in 0 .. MaxYields}

\* Whether each tile's line calls for another one, which is a matter of its
\* text.  Without COMMS the texts differ as soon as some tiles have yielded
\* and kept their line; with it they are taken to agree.
Mores ==
    IF Divergent /\ ~COMMS THEN [Tiles -> BOOLEAN]
                           ELSE {[t \in Tiles |-> m] : m \in BOOLEAN}

\* What a tile can write to its print buffer: the banner, the REPL's answer
\* to a character, the output of the n-th stretch of a command, the prompt.
Outputs == {"banner", "echo", "prompt", "output"} \X (0 .. MaxYields)
Banner == <<"banner", 0>>
Echo == <<"echo", 0>>
Prompt == <<"prompt", 0>>
Output(n) == <<"output", n>>

\* An alltoall payload: the parity of the round and the number of the call
\* in it.  Junk is what a buffer nothing was written to holds.
Payloads == {0, 1} \X (0 .. MaxYields)
Junk == <<0, 0>>

VARIABLES
    \* the control program
    pc,              \* the program element being executed
    ran,             \* tiles whose vertex of this compute set has run
    \* tensors
    inBuf,           \* the character being handled
    doneFlag, coroutineFlag,
    printBuf,        \* what each print buffer holds
    commsOutBuf, commsInBuf,
    \* tile memory
    checkpoint_is_live,
    exit_env,        \* variant of RuntimeVertex whose frame IPUpy_exit_env names
    repl,            \* the REPL of each interpreter
    \* the commands: what the user typed, and how far each tile is
    script, more, round, step,
    \* history
    frame,           \* variant whose frame the suspended python stack sits on
    handled,         \* times each tile has processed this character
    said             \* what each tile has written since this round began

control == <<pc, ran>>
command == <<inBuf, script, more, round>>
vars == <<control, command, doneFlag, coroutineFlag, printBuf, commsOutBuf,
          commsInBuf, checkpoint_is_live, exit_env, repl, step, frame,
          handled, said>>

Variants == {"first", "rt"}
NoFrame == "none"

TypeOK ==
    /\ pc \in {"init", "while", "first", "comms", "rt", "print", "end"}
    /\ ran \subseteq Tiles
    /\ inBuf \in AllChars
    /\ doneFlag \in [Tiles -> BOOLEAN]
    /\ coroutineFlag \in [Tiles -> BOOLEAN]
    /\ printBuf \in [Tiles -> SUBSET Outputs]
    /\ commsOutBuf \in [Tiles -> Payloads]
    /\ commsInBuf \in [Tiles -> Payloads]
    /\ checkpoint_is_live \in [Tiles -> BOOLEAN]
    /\ exit_env \in [Tiles -> Variants \cup {NoFrame}]
    /\ repl \in [Tiles -> Repl]
    /\ script \in [Tiles -> 0 .. MaxYields]
    /\ more \in [Tiles -> BOOLEAN]
    /\ round \in {0, 1}
    /\ step \in [Tiles -> 0 .. MaxYields]
    /\ frame \in [Tiles -> Variants \cup {NoFrame}]
    /\ handled \in [Tiles -> Nat]
    /\ said \in [Tiles -> SUBSET Outputs]

\* The flags are tensors the device does not initialise; checkpoint_is_live
\* is a global of the codelet, initially false.
Init ==
    /\ pc = "init" /\ ran = {}
    /\ inBuf = "nul" /\ round = 0
    /\ script = [t \in Tiles |-> 0] /\ more = [t \in Tiles |-> FALSE]
    /\ doneFlag \in [Tiles -> BOOLEAN]
    /\ coroutineFlag \in [Tiles -> BOOLEAN]
    /\ printBuf = [t \in Tiles |-> {}]
    /\ commsOutBuf = [t \in Tiles |-> Junk]
    /\ commsInBuf = [t \in Tiles |-> Junk]
    /\ checkpoint_is_live = [t \in Tiles |-> FALSE]
    /\ exit_env = [t \in Tiles |-> NoFrame]
    /\ repl = [t \in Tiles |-> EventReplInit]
    /\ step = [t \in Tiles |-> 0]
    /\ frame = [t \in Tiles |-> NoFrame]
    /\ handled = [t \in Tiles |-> 0]
    /\ said = [t \in Tiles |-> {}]

-----------------------------------------------------------------------------
(***************************************************************************)
(* Vertices.  A vertex of a compute set runs once, on its own tile and on  *)
(* its own tensors, in any order with the vertices of other tiles.         *)
(***************************************************************************)
Runs(p, t) ==
    /\ pc = p /\ t \notin ran
    /\ ran' = ran \cup {t}
    /\ pc' = pc

\* A vertex that writes `out' to its print buffer.  IPUpy_set_stdout, which
\* RuntimeVertex calls unless it resumes a coroutine, empties the buffer.
Prints(t, cleared, out) ==
    /\ printBuf' = [printBuf EXCEPT ![t] = (IF cleared THEN {} ELSE @) \cup out]
    /\ said' = [said EXCEPT ![t] = @ \cup out]

\* Mutant of InitVertex: doneFlag is left as the device finds it.
InitVertexKeepsDone(t) ==
    /\ Runs("init", t)
    /\ Prints(t, TRUE, {Banner})
    /\ repl' = [repl EXCEPT ![t] = EventReplInit]
    /\ coroutineFlag' = [coroutineFlag EXCEPT ![t] = FALSE]
    /\ UNCHANGED <<command, doneFlag, commsOutBuf, commsInBuf,
                   checkpoint_is_live, exit_env, step, frame, handled>>

InitVertex(t) ==
    /\ Runs("init", t)
    /\ Prints(t, TRUE, {Banner})
    /\ repl' = [repl EXCEPT ![t] = EventReplInit]
    /\ doneFlag' = [doneFlag EXCEPT ![t] = FALSE]
    /\ coroutineFlag' = [coroutineFlag EXCEPT ![t] = FALSE]
    /\ UNCHANGED <<command, commsOutBuf, commsInBuf, checkpoint_is_live,
                   exit_env, step, frame, handled>>

\* Mutant of LongYield: __sendbuf is filled only after the longyield.
LongYieldThenSend(t, env) ==
    /\ step[t] < script[t]
    /\ step' = [step EXCEPT ![t] = @ + 1]
    /\ checkpoint_is_live' = [checkpoint_is_live EXCEPT ![t] = TRUE]
    /\ coroutineFlag' = [coroutineFlag EXCEPT ![t] = @ \/ env = "first"]
    /\ UNCHANGED <<doneFlag, commsOutBuf>>

(***************************************************************************)
(* The interpreter reaches a longyield of alltoall: the payload is in      *)
(* __sendbuf, the checkpoint is taken, and longjmp(IPUpy_exit_env) returns *)
(* from the setjmp of the frame `env', which sets checkpoint_is_live and,  *)
(* in RuntimeVertex<true>, the tile's coroutineFlag.                       *)
(***************************************************************************)
LongYield(t, env) ==
    /\ step[t] < script[t]
    /\ step' = [step EXCEPT ![t] = @ + 1]
    /\ commsOutBuf' = [commsOutBuf EXCEPT ![t] = <<round, step[t] + 1>>]
    /\ checkpoint_is_live' = [checkpoint_is_live EXCEPT ![t] = TRUE]
    /\ coroutineFlag' = [coroutineFlag EXCEPT ![t] = @ \/ env = "first"]
    /\ UNCHANGED doneFlag

\* Mutant of HandlerReturns: the coroutineFlag is not cleared.
HandlerReturnsFlagged(t, forcedExit) ==
    /\ doneFlag' = [doneFlag EXCEPT ![t] = forcedExit]
    /\ checkpoint_is_live' = [checkpoint_is_live EXCEPT ![t] = FALSE]
    /\ UNCHANGED <<step, commsOutBuf, coroutineFlag>>

\* Mutant of HandlerReturns: checkpoint_is_live is assigned only when setjmp
\* returns a second time.
HandlerReturnsStillLive(t, forcedExit) ==
    /\ doneFlag' = [doneFlag EXCEPT ![t] = forcedExit]
    /\ coroutineFlag' = [coroutineFlag EXCEPT ![t] = FALSE]
    /\ UNCHANGED <<step, commsOutBuf, checkpoint_is_live>>

(***************************************************************************)
(* The handler returns to compute, which stores its answer and clears the  *)
(* tile's coroutineFlag.                                                   *)
(***************************************************************************)
HandlerReturns(t, forcedExit) ==
    /\ doneFlag' = [doneFlag EXCEPT ![t] = forcedExit]
    /\ coroutineFlag' = [coroutineFlag EXCEPT ![t] = FALSE]
    /\ checkpoint_is_live' = [checkpoint_is_live EXCEPT ![t] = FALSE]
    /\ UNCHANGED <<step, commsOutBuf>>

\* Mutant of ResumeAndYield: setjmp(IPUpy_exit_env) precedes the resumption.
ResumeAndYieldLateTest(t) ==
    /\ Runs("rt", t)
    /\ checkpoint_is_live[t]
    /\ LongYield(t, exit_env[t])
    /\ Prints(t, FALSE, {Output(step[t])})
    /\ exit_env' = [exit_env EXCEPT ![t] = "rt"]
    /\ UNCHANGED <<command, commsInBuf, repl, frame, handled>>

\* Mutant of ResumeAndFinish: IPUpy_set_stdout precedes the resumption.
ResumeAndFinishCleared(t) ==
    /\ Runs("rt", t)
    /\ checkpoint_is_live[t]
    /\ step[t] = script[t]
    /\ HandlerReturns(t, FALSE)
    /\ Prints(t, TRUE, {Output(step[t]), Prompt})
    /\ repl' = [repl EXCEPT ![t] = Executed(@)]
    /\ frame' = [frame EXCEPT ![t] = NoFrame]
    /\ UNCHANGED <<command, commsInBuf, exit_env, handled>>

(***************************************************************************)
(* compute resumes the suspended interpreter, which runs to its next       *)
(* longyield or to its end.  It returns through the frame that started it. *)
(***************************************************************************)
ResumeAndYield(t) ==
    /\ Runs("rt", t)
    /\ checkpoint_is_live[t]
    /\ LongYield(t, exit_env[t])
    /\ Prints(t, FALSE, {Output(step[t])})
    /\ UNCHANGED <<command, commsInBuf, exit_env, repl, frame, handled>>

ResumeAndFinish(t) ==
    /\ Runs("rt", t)
    /\ checkpoint_is_live[t]
    /\ step[t] = script[t]
    /\ HandlerReturns(t, FALSE)
    /\ Prints(t, FALSE, {Output(step[t]), Prompt})
    /\ repl' = [repl EXCEPT ![t] = Executed(@)]
    /\ frame' = [frame EXCEPT ![t] = NoFrame]
    /\ UNCHANGED <<command, commsInBuf, exit_env, handled>>

(***************************************************************************)
(* compute does not resume: either it is RuntimeVertex<true>, or no        *)
(* checkpoint is live.  setjmp makes this frame the exit of a later yield. *)
(***************************************************************************)
Enters(v, t) ==
    /\ Runs(v, t)
    /\ v = "first" \/ ~checkpoint_is_live[t]
    /\ exit_env' = [exit_env EXCEPT ![t] = v]

\* Mutant of ReturnsEarly: doneFlag is not looked at.
ReturnsEarlyUnlessDone(v, t) == v = "rt" /\ ~coroutineFlag[t]

ReturnsEarly(v, t) == doneFlag[t] \/ (v = "rt" /\ ~coroutineFlag[t])

Idle(v, t) ==
    /\ Enters(v, t)
    /\ ReturnsEarly(v, t)
    /\ Prints(t, TRUE, {})
    /\ checkpoint_is_live' = [checkpoint_is_live EXCEPT ![t] = FALSE]
    /\ UNCHANGED <<command, doneFlag, coroutineFlag, commsOutBuf, commsInBuf,
                   repl, step, frame, handled>>

\* The tile handles inBuf[0].
Handles(v, t) ==
    /\ Enters(v, t)
    /\ ~ReturnsEarly(v, t)
    /\ handled' = [handled EXCEPT ![t] = @ + 1]
    /\ UNCHANGED <<command, commsInBuf>>

\* A NUL ends the session without reaching the REPL.
HandleNul(v, t) ==
    /\ inBuf = "nul"
    /\ Handles(v, t)
    /\ HandlerReturns(t, TRUE)
    /\ Prints(t, TRUE, {})
    /\ frame' = [frame EXCEPT ![t] = NoFrame]
    /\ UNCHANGED repl

\* The REPL answers without executing anything.
HandleKey(v, t) ==
    LET r == ProcessChar(repl[t], inBuf, more[t]) IN
    /\ inBuf # "nul" /\ r.does \in {"return", "exit"}
    /\ Handles(v, t)
    /\ HandlerReturns(t, r.does = "exit")
    /\ Prints(t, TRUE, {Echo})
    /\ repl' = [repl EXCEPT ![t] = r.repl]
    /\ frame' = [frame EXCEPT ![t] = NoFrame]

\* The REPL executes its line, which runs to its end or to a longyield.  An
\* empty line has no code to run.
Executes(t, c, m) == c # "nul" /\ ProcessChar(repl[t], c, m).does = "exec"

HasCode(t) == repl[t].line # <<>>

HandleAndFinish(v, t) ==
    /\ Executes(t, inBuf, more[t])
    /\ HasCode(t) => step[t] = script[t]
    /\ Handles(v, t)
    /\ HandlerReturns(t, FALSE)
    /\ Prints(t, TRUE, {Echo, Prompt} \cup IF HasCode(t) THEN {Output(step[t])} ELSE {})
    /\ repl' = [repl EXCEPT ![t] = Executed(@)]
    /\ frame' = [frame EXCEPT ![t] = NoFrame]

HandleAndYield(v, t) ==
    /\ Executes(t, inBuf, more[t]) /\ HasCode(t)
    /\ Handles(v, t)
    /\ LongYield(t, v)
    /\ Prints(t, TRUE, {Echo, Output(step[t])})
    /\ frame' = [frame EXCEPT ![t] = v]
    /\ UNCHANGED repl

RuntimeVertex(v, t) ==
    \/ v = "rt" /\ (ResumeAndYield(t) \/ ResumeAndFinish(t))
    \/ Idle(v, t)
    \/ HandleNul(v, t)
    \/ HandleKey(v, t)
    \/ HandleAndFinish(v, t)
    \/ HandleAndYield(v, t)

-----------------------------------------------------------------------------
(***************************************************************************)
(* The control program.  A compute set is over when all its vertices ran.  *)
(***************************************************************************)
Finished(p) == pc = p /\ ran = Tiles

\* The last element of the loop body is reached: the command is over, and
\* printBuf is what the host receives.
RoundOver == pc = "print" \/ (~COMMS /\ Finished("first"))

\* What is known of the command and of its handling ends with its round.
ForgetCommand ==
    /\ script' = [t \in Tiles |-> 0] /\ more' = [t \in Tiles |-> FALSE]
    /\ step' = [t \in Tiles |-> 0]
    /\ handled' = [t \in Tiles |-> 0]
    /\ said' = [t \in Tiles |-> {}]

\* Copy(printBuf, printBufStream), after InitCS and at the end of the body.
CopyPrintBuf ==
    /\ Finished("init") \/ RoundOver
    /\ pc' = "while"
    /\ ForgetCommand
    /\ UNCHANGED <<ran, inBuf, round, doneFlag, coroutineFlag, printBuf,
                   commsOutBuf, commsInBuf, checkpoint_is_live, exit_env, repl,
                   frame>>

\* RepeatWhileFalse lets the body run: its first element asks getchar.
TypeChar ==
    /\ pc = "while" /\ ~doneFlag[0]
    /\ pc' = "first" /\ ran' = {}
    /\ inBuf' \in Chars
    /\ more' \in Mores
    /\ script' \in IF \E t \in Tiles : Executes(t, inBuf', more'[t])
                   THEN Scripts ELSE {script}
    /\ round' = 1 - round
    /\ UNCHANGED <<doneFlag, coroutineFlag, printBuf, commsOutBuf, commsInBuf,
                   checkpoint_is_live, exit_env, repl, step, frame, handled,
                   said>>

Stop ==
    /\ pc = "while" /\ doneFlag[0]
    /\ pc' = "end"
    /\ UNCHANGED <<ran, command, doneFlag, coroutineFlag, printBuf, commsOutBuf,
                   commsInBuf, checkpoint_is_live, exit_env, repl,
                   step, frame, handled, said>>

\* Mutant of Any: the flags of the other tiles are not looked at.
AnyOwnFlag ==
    /\ COMMS
    /\ Finished("first") \/ Finished("rt")
    /\ pc' = IF coroutineFlag[0] THEN "comms" ELSE "print"
    /\ UNCHANGED <<ran, command, doneFlag, coroutineFlag, printBuf, commsOutBuf,
                   commsInBuf, checkpoint_is_live, exit_env, repl, step, frame,
                   handled, said>>

\* Mutant of Any: every flag is overwritten with the result.
AnyEveryFlag ==
    /\ COMMS
    /\ Finished("first") \/ Finished("rt")
    /\ coroutineFlag' = [t \in Tiles |-> \E u \in Tiles : coroutineFlag[u]]
    /\ pc' = IF coroutineFlag'[0] THEN "comms" ELSE "print"
    /\ UNCHANGED <<ran, command, doneFlag, printBuf, commsOutBuf, commsInBuf,
                   checkpoint_is_live, exit_env, repl, step, frame, handled,
                   said>>

\* Mutant of Any: the coroutine loop is compiled in without COMMS.
AnyAlways ==
    /\ Finished("first") \/ Finished("rt")
    /\ coroutineFlag' =
           [coroutineFlag EXCEPT ![0] = \E t \in Tiles : coroutineFlag[t]]
    /\ pc' = IF coroutineFlag'[0] THEN "comms" ELSE "print"
    /\ UNCHANGED <<ran, command, doneFlag, printBuf, commsOutBuf, commsInBuf,
                   checkpoint_is_live, exit_env, repl, step, frame, handled,
                   said>>

\* The vertex Any, then RepeatWhileTrue's test of the flag it writes.
Any ==
    /\ COMMS
    /\ Finished("first") \/ Finished("rt")
    /\ coroutineFlag' =
           [coroutineFlag EXCEPT ![0] = \E t \in Tiles : coroutineFlag[t]]
    /\ pc' = IF coroutineFlag'[0] THEN "comms" ELSE "print"
    /\ UNCHANGED <<ran, command, doneFlag, printBuf, commsOutBuf, commsInBuf,
                   checkpoint_is_live, exit_env, repl, step, frame,
                   handled, said>>

\* Copy(commsOutBuf, commsInBuf), which starts the next pass.
Exchange ==
    /\ pc = "comms"
    /\ commsInBuf' = commsOutBuf
    /\ pc' = "rt" /\ ran' = {}
    /\ UNCHANGED <<command, doneFlag, coroutineFlag, printBuf, commsOutBuf,
                   checkpoint_is_live, exit_env, repl, step, frame,
                   handled, said>>

\* engine.run returns: the program is over.
Terminated == pc = "end" /\ UNCHANGED vars

Vertex(t) == InitVertex(t) \/ \E v \in Variants : RuntimeVertex(v, t)

\* Everything but the user.
Device ==
    \/ \E t \in Tiles : Vertex(t)
    \/ CopyPrintBuf \/ Any \/ Exchange \/ Stop

Next == Device \/ TypeChar \/ Terminated

Spec == Init /\ [][Next]_vars

\* The IPU runs its program: an element that can be executed is.
FairSpec == Spec /\ WF_vars(Device)

-----------------------------------------------------------------------------
(***************************************************************************)
(* Properties.                                                             *)
(***************************************************************************)

\* A coroutine is never abandoned: when the loop over the coroutines has
\* ended, no interpreter is left suspended at a longyield.
NoAbandonedCoroutine ==
    pc \in {"print", "while", "end"} => \A t \in Tiles : ~checkpoint_is_live[t]

\* The jumps are well founded: a live checkpoint belongs to a python stack
\* that sits on the very frame IPUpy_exit_env will be longjmp'ed to when the
\* resumed interpreter yields again or returns.
CheckpointFrameIsExitFrame ==
    \A t \in Tiles : checkpoint_is_live[t] =>
        frame[t] \in Variants /\ frame[t] = exit_env[t]

\* alltoall is a collective: when the n-th call of a tile returns, it finds
\* in __recvbuf the payload of the n-th call of every tile that makes one,
\* whatever order the tiles run in and however far ahead they are.
AllToAllCollects ==
    \A t, u \in Tiles :
        pc = "rt" /\ t \notin ran /\ checkpoint_is_live[t] /\ step[t] <= step[u]
            => commsInBuf[u] = <<round, step[t]>>

\* The REPLs are interchangeable: tiles whose commands yield equally often
\* are, between two characters, all in the same mode with the same pending
\* text, through every pass and in whatever order their vertices ran.
Lockstep ==
    pc = "while" /\ ~doneFlag[0] => \A t \in Tiles : repl[t] = repl[0]

\* The session, which ends on tile 0's flag alone, never goes on with some
\* tile that has already exited and will ignore what is typed.
NoDeafTile ==
    pc = "while" => \A t \in Tiles : doneFlag[t] => doneFlag[0]

\* Exiting is final: a tile that has freed its line never processes another
\* character and stays done.
DoneIsFinal ==
    [][\A t \in Tiles : pc # "init" /\ doneFlag[t] =>
          doneFlag'[t] /\ repl'[t] = repl[t] /\ handled'[t] <= handled[t]]_vars

\* No tile handles a typed character a second time.
HandledOnce == \A t \in Tiles : handled[t] <= 1

\* ... and what remains true of it when tiles diverge: no tile but tile 0
\* handles a character twice.
OthersHandleOnce == \A t \in Tiles \ {0} : handled[t] <= 1

\* CTRL-C recovers: whatever was typed before, in whatever mode, and also if
\* commands have yielded and nothing has resumed them, once CTRL-C has been
\* handled no interpreter but one that has exited holds a pending line, is
\* inside a statement or a paste, or can be resumed into an old command.
InterruptRecovers ==
    RoundOver /\ inBuf = "ctrlC" => \A t \in Tiles : ~doneFlag[t] =>
        /\ repl[t] = [EventReplInit EXCEPT !.mode = repl[t].mode]
        /\ ~checkpoint_is_live[t] /\ ~coroutineFlag[t]

\* Nothing a tile wrote in answer to a character is missing from the buffer
\* the host receives for it.
ResponsesDelivered == RoundOver => \A t \in Tiles : printBuf[t] = said[t]

\* ... and what remains true of it when tiles diverge: the answers of the
\* tiles that call alltoall most often are complete.
LastResponsesDelivered ==
    RoundOver => \A t \in Tiles :
        (\A u \in Tiles : step[u] <= step[t]) => printBuf[t] = said[t]

\* Every typed character is answered: the coroutine loop ends and the
\* control program gets to ask for the next character or to stop.
CharacterAnswered == (pc = "first") ~> (pc = "while")

-----------------------------------------------------------------------------
(***************************************************************************)
(* The abstract service: a suspended interpreter has not answered yet.     *)
(***************************************************************************)
Service == INSTANCE ReplService WITH
    Interpreters <- Tiles,
    phase <- CASE pc = "init" -> "starting"
               [] pc = "while" -> "ready"
               [] pc \in {"first", "comms", "rt"} -> "busy"
               [] pc = "print" -> "reporting"
               [] pc = "end" -> "over",
    answers <- [t \in Tiles |-> IF checkpoint_is_live[t] THEN handled[t] - 1
                                                         ELSE handled[t]],
    heard <- {t \in Tiles : pc = "print" /\ printBuf[t] = said[t]}

\* While all tiles run the same command, the whole machinery of passes,
\* yields and flags is invisible: the multi-REPL implements the service.
ImplementsService == Service!Spec
=============================================================================
