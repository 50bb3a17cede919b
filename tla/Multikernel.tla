---------------------------- MODULE Multikernel ----------------------------
(***************************************************************************)
(* The Jupyter kernel over many interpreters.  The python front end        *)
(* (ipumultikernel.py) hands one piece of a cell after the other to the    *)
(* host library (multikernel_host.cpp), which runs the device's program    *)
(*                                                                         *)
(*   Copy the piece to inBuf; RuntimeVertex<true> on every tile;           *)
(*   RepeatWhileTrue (Any; coroutineFlag[0]):                              *)
(*     Copy commsOutBuf to commsInBuf; RuntimeVertex<false> everywhere;    *)
(*   Copy printBuf and displayBuf to the host                              *)
(*                                                                         *)
(* and then fetches the deduplicated outputs one by one, and the picture.  *)
(* This is the build with COMMS.  Without it the loop is absent, as if no  *)
(* flag were ever set: the behaviours of pieces that never yield.          *)
(*                                                                         *)
(* An execution of the piece yields some number of times, and at its end   *)
(* has printed a text and perhaps set its pixel.  An interpreter that      *)
(* executes the piece again does so on the globals the execution before    *)
(* left, and may yield, print and draw differently.                        *)
(* Texts are numbers, 0 the empty one, in the order of std::map.  Outputs  *)
(* and pixels carry the parity of the run that made them, so that old ones *)
(* can be told from new ones.                                              *)
(***************************************************************************)
EXTENDS Integers, Sequences, FiniteSets

CONSTANTS
    NUMREPLS,     \* number of tiles
    MaxYields,    \* bound: yields of one piece
    MaxText,      \* bound: different outputs
    MaxResults    \* outputs shown before the front end gives up (100)

ASSUME MultikernelAssumption ==
    /\ NUMREPLS \in Nat \ {0} /\ MaxYields \in Nat /\ MaxText \in Nat
    /\ MaxResults \in Nat \ {0}

Tiles == 0 .. NUMREPLS - 1
Variants == {"first", "rt"}
Texts == 0 .. MaxText

\* What an execution makes of a piece.
Work == [yields: 0 .. MaxYields, text: Texts, pixel: BOOLEAN]
Silent == [yields |-> 0, text |-> 0, pixel |-> FALSE]
NoPiece == [t \in Tiles |-> Silent]

VARIABLES
    pc, ran,                \* the control program and the front end
    coroutineFlag, checkpoint_is_live,
    exit_env,               \* variant whose frame IPUpy_exit_env names
    printBuf,               \* the text in each print buffer, with its run
    displayBuf,             \* the run that set each pixel, or "off"
    piece,                  \* what each tile's first execution is to do
    work, step,             \* what its latest one does, and yields done
    run,                    \* parity of the run
    resultQueue,            \* outputs with their multiplicity, next one first
    displayBuf_h,
    success,                \* what execute answered
    first_display, results, hidden,
    image,                  \* the picture sent for this piece
    executions              \* history: completed executions of this piece
                            \* (2 stands for any greater number)

device == <<ran, coroutineFlag, checkpoint_is_live, exit_env, printBuf,
            displayBuf, work, step, executions>>
host == <<resultQueue, displayBuf_h, success>>
front == <<first_display, results, hidden, image>>
vars == <<pc, device, host, front, piece, run>>

Off == 2       \* an unset pixel
Blank(r) == [run |-> r, text |-> 0]

TypeOK ==
    /\ pc \in {"init", "idle", "first", "rt", "copy", "drain", "overflow",
               "display"}
    /\ ran \subseteq Tiles
    /\ coroutineFlag \in [Tiles -> BOOLEAN]
    /\ checkpoint_is_live \in [Tiles -> BOOLEAN]
    /\ exit_env \in [Tiles -> Variants]
    /\ printBuf \in [Tiles -> [run: {0, 1}, text: Texts]]
    /\ displayBuf \in [Tiles -> {0, 1, Off}]
    /\ piece \in [Tiles -> Work] /\ work \in [Tiles -> Work]
    /\ step \in [Tiles -> 0 .. MaxYields]
    /\ run \in {0, 1}
    /\ \A i \in DOMAIN resultQueue : resultQueue[i].count \in 1 .. NUMREPLS
    /\ displayBuf_h \in [Tiles -> {0, 1, Off}]
    /\ executions \in [Tiles -> 0 .. 2]
    /\ success \in {-1, 0, 1} /\ first_display \in BOOLEAN
    /\ Len(results) <= MaxResults /\ hidden \in Nat

Init ==
    /\ pc = "init" /\ ran = {}
    /\ coroutineFlag \in [Tiles -> BOOLEAN]
    /\ checkpoint_is_live = [t \in Tiles |-> FALSE]
    /\ exit_env = [t \in Tiles |-> "first"]
    /\ printBuf = [t \in Tiles |-> Blank(0)]
    /\ displayBuf \in [Tiles -> {1, Off}]
    /\ piece = NoPiece /\ work = NoPiece
    /\ step = [t \in Tiles |-> 0] /\ run = 0
    /\ resultQueue = <<>> /\ displayBuf_h = [t \in Tiles |-> Off]
    /\ success = 0 /\ first_display = TRUE
    /\ results = <<>> /\ hidden = 0 /\ image = <<>>
    /\ executions = [t \in Tiles |-> 0]

-----------------------------------------------------------------------------
(***************************************************************************)
(* The device.  doneFlag is left out: only an empty piece sets it, and     *)
(* execute does not run an empty piece.  So are the payloads of alltoall.  *)
(***************************************************************************)
Runs(p, t) ==
    /\ pc = p /\ t \notin ran
    /\ ran' = ran \cup {t}
    /\ UNCHANGED <<pc, host, front, piece, run>>

Finished(p) == pc = p /\ ran = Tiles

InitVertex(t) ==
    /\ Runs("init", t)
    /\ printBuf' = [printBuf EXCEPT ![t] = Blank(run)]
    /\ coroutineFlag' = [coroutineFlag EXCEPT ![t] = FALSE]
    /\ UNCHANGED <<checkpoint_is_live, exit_env, displayBuf, work, step,
                   executions>>

\* What an execution begun by variant v may do.  RuntimeVertex<false> begins
\* one only after another has been completed in this run.
Plan(v, t) == IF v = "first" THEN {piece[t]} ELSE Work

\* An execution that does w reaches a longyield, its (n + 1)-th, and leaves
\* through `env'.
LongYield(t, w, n, env) ==
    /\ n < w.yields
    /\ step' = [step EXCEPT ![t] = n + 1]
    /\ checkpoint_is_live' = [checkpoint_is_live EXCEPT ![t] = TRUE]
    /\ coroutineFlag' = [coroutineFlag EXCEPT ![t] = @ \/ env = "first"]
    /\ UNCHANGED executions

\* Mutant of Completes: compute returns without clearing coroutineFlag.
CompletesFlagged(t, w, n) ==
    /\ n = w.yields
    /\ printBuf' = [printBuf EXCEPT ![t] = [run |-> run, text |-> w.text]]
    /\ executions' = [executions EXCEPT ![t] = IF @ = 0 THEN 1 ELSE 2]
    /\ checkpoint_is_live' = [checkpoint_is_live EXCEPT ![t] = FALSE]
    /\ UNCHANGED <<coroutineFlag, step>>

\* IPUpy_do_str returns: the piece has printed its text and set its pixel.
Completes(t, w, n) ==
    /\ n = w.yields
    /\ printBuf' = [printBuf EXCEPT ![t] = [run |-> run, text |-> w.text]]
    /\ executions' = [executions EXCEPT ![t] = IF @ = 0 THEN 1 ELSE 2]
    /\ checkpoint_is_live' = [checkpoint_is_live EXCEPT ![t] = FALSE]
    /\ coroutineFlag' = [coroutineFlag EXCEPT ![t] = FALSE]
    /\ UNCHANGED step

\* compute resumes the suspended interpreter.
ResumeAndYield(t) ==
    /\ Runs("rt", t) /\ checkpoint_is_live[t]
    /\ LongYield(t, work[t], step[t], exit_env[t])
    /\ UNCHANGED <<exit_env, printBuf, displayBuf, work>>

ResumeAndFinish(t) ==
    /\ Runs("rt", t) /\ checkpoint_is_live[t]
    /\ Completes(t, work[t], step[t])
    /\ displayBuf' = [displayBuf EXCEPT ![t] = IF work[t].pixel THEN run ELSE @]
    /\ UNCHANGED <<exit_env, work>>

Enters(v, t) ==
    /\ Runs(v, t)
    /\ v = "first" \/ ~checkpoint_is_live[t]
    /\ exit_env' = [exit_env EXCEPT ![t] = v]

ReturnsEarly(v, t) == v = "rt" /\ ~coroutineFlag[t]

Idle(v, t) ==
    /\ Enters(v, t) /\ ReturnsEarly(v, t)
    /\ printBuf' = [printBuf EXCEPT ![t] = Blank(run)]
    /\ checkpoint_is_live' = [checkpoint_is_live EXCEPT ![t] = FALSE]
    /\ UNCHANGED <<coroutineFlag, displayBuf, work, step, executions>>

\* compute executes the piece from its start, its pixel unset.
ExecuteAndFinish(v, t) ==
    /\ Enters(v, t) /\ ~ReturnsEarly(v, t)
    /\ \E w \in Plan(v, t) :
        /\ Completes(t, w, 0)
        /\ work' = [work EXCEPT ![t] = w]
        /\ displayBuf' = [displayBuf EXCEPT ![t] = IF w.pixel THEN run ELSE Off]

\* Mutant of ExecuteAndYield: the pixel of the last piece is left set.
ExecuteAndYieldKeepsPixel(v, t) ==
    /\ Enters(v, t) /\ ~ReturnsEarly(v, t)
    /\ \E w \in Plan(v, t) :
        LongYield(t, w, 0, v) /\ work' = [work EXCEPT ![t] = w]
    /\ printBuf' = [printBuf EXCEPT ![t] = Blank(run)]
    /\ UNCHANGED displayBuf

ExecuteAndYield(v, t) ==
    /\ Enters(v, t) /\ ~ReturnsEarly(v, t)
    /\ \E w \in Plan(v, t) :
        LongYield(t, w, 0, v) /\ work' = [work EXCEPT ![t] = w]
    /\ printBuf' = [printBuf EXCEPT ![t] = Blank(run)]
    /\ displayBuf' = [displayBuf EXCEPT ![t] = Off]

RuntimeVertex(v, t) ==
    \/ v = "rt" /\ (ResumeAndYield(t) \/ ResumeAndFinish(t))
    \/ Idle(v, t)
    \/ ExecuteAndFinish(v, t)
    \/ ExecuteAndYield(v, t)

\* Any, the test of the flag it writes and, if there is another pass, the
\* copy of the payloads before it.
Any ==
    /\ Finished("first") \/ Finished("rt")
    /\ LET any == \E t \in Tiles : coroutineFlag[t] IN
       /\ coroutineFlag' = [coroutineFlag EXCEPT ![0] = any]
       /\ pc' = IF any THEN "rt" ELSE "copy"
       /\ ran' = IF any THEN {} ELSE ran
    /\ UNCHANGED <<checkpoint_is_live, exit_env, printBuf, displayBuf, work,
                   step, executions, host, front, piece, run>>

-----------------------------------------------------------------------------
(***************************************************************************)
(* The host library.                                                       *)
(***************************************************************************)
\* The keys of resultCounter, in the order of std::map.
InOrder(keys) ==
    CHOOSE q \in [1 .. Cardinality(keys) -> keys] :
        \A i, j \in 1 .. Cardinality(keys) : i < j => q[i] < q[j]

\* The callback of printBuf-stream: resultCounter, queued in its order.
Deduplicated ==
    LET texts == {printBuf[t].text : t \in Tiles}
        Result(x) == LET by == {t \in Tiles : printBuf[t].text = x} IN
            [count |-> Cardinality(by), data |-> x, runs |-> {printBuf[t].run : t \in by}]
    IN  [i \in 1 .. Cardinality(texts) |-> Result(InOrder(texts)[i])]

\* The end of the init program, which leaves the front end ready.
CopyInit ==
    /\ Finished("init")
    /\ resultQueue' = Deduplicated
    /\ pc' = "idle"
    /\ UNCHANGED <<device, displayBuf_h, success, front, piece, run>>

\* The end of the runtime program.
CopyOut ==
    /\ pc = "copy"
    /\ resultQueue' = Deduplicated
    /\ displayBuf_h' = displayBuf
    /\ pc' = "drain"
    /\ UNCHANGED <<device, success, front, piece, run>>

-----------------------------------------------------------------------------
(***************************************************************************)
(* The front end: do_single_execute.                                       *)
(***************************************************************************)
NewMessages(newCell) ==
    /\ pc = "idle"
    /\ first_display' = (newCell \/ first_display)
    /\ results' = <<>> /\ hidden' = 0 /\ image' = <<>>
    /\ executions' = [t \in Tiles |-> 0] /\ work' = NoPiece
    /\ UNCHANGED <<coroutineFlag, checkpoint_is_live, exit_env, printBuf,
                   displayBuf, resultQueue, displayBuf_h>>

\* execute answers 0 for an empty piece and -1 for one that is too long.
NotExecuted(newCell, answer) ==
    /\ NewMessages(newCell)
    /\ success' = answer
    /\ pc' = "drain"
    /\ piece' = NoPiece
    /\ UNCHANGED <<ran, step, run>>

Execute(newCell) ==
    /\ NewMessages(newCell)
    /\ success' = 1
    /\ piece' \in [Tiles -> Work]
    /\ run' = 1 - run
    /\ pc' = "first" /\ ran' = {}
    /\ step' = [t \in Tiles |-> 0]

\* Mutant of FetchResult: the limit is tested off by one.
FetchResultPastLimit ==
    /\ pc = "drain" /\ resultQueue # <<>>
    /\ resultQueue' = Tail(resultQueue)
    /\ results' = IF Head(resultQueue).data = 0 THEN results
                  ELSE Append(results, Head(resultQueue))
    /\ pc' = IF Len(results') > MaxResults THEN "overflow" ELSE "drain"
    /\ UNCHANGED <<device, displayBuf_h, success, first_display, hidden, image,
                   piece, run>>

\* getResult, and what the front end does with its answer.
FetchResult ==
    /\ pc = "drain" /\ resultQueue # <<>>
    /\ resultQueue' = Tail(resultQueue)
    /\ results' = IF Head(resultQueue).data = 0 THEN results
                  ELSE Append(results, Head(resultQueue))
    /\ pc' = IF Len(results') = MaxResults THEN "overflow" ELSE "drain"
    /\ UNCHANGED <<device, displayBuf_h, success, first_display, hidden, image,
                   piece, run>>

\* Mutant of CountHidden: the rest is left in the queue.
CountHiddenLeavesQueue ==
    /\ pc = "overflow" /\ resultQueue # <<>>
    /\ hidden' = Len(resultQueue)
    /\ pc' = "display"
    /\ UNCHANGED <<device, host, first_display, results, image, piece, run>>

\* Too many results: the rest is fetched and counted.
CountHidden ==
    /\ pc = "overflow" /\ resultQueue # <<>>
    /\ resultQueue' = Tail(resultQueue)
    /\ hidden' = hidden + 1
    /\ UNCHANGED <<pc, device, displayBuf_h, success, first_display, results,
                   image, piece, run>>

\* {0, "DEADBEEF"} ends the loop, and the text is sent.
NoMoreResults ==
    /\ pc \in {"drain", "overflow"} /\ resultQueue = <<>>
    /\ pc' = "display"
    /\ UNCHANGED <<device, host, front, piece, run>>

\* The picture is sent if some pixel is set.
Display ==
    LET any == \E t \in Tiles : displayBuf_h[t] # Off IN
    /\ pc = "display" /\ pc' = "idle"
    /\ image' = IF any THEN displayBuf_h ELSE <<>>
    /\ first_display' = (first_display /\ ~any)
    /\ UNCHANGED <<device, host, results, hidden, piece, run>>

User ==
    \E newCell \in BOOLEAN :
        Execute(newCell) \/ \E answer \in {0, -1} : NotExecuted(newCell, answer)

System ==
    \/ \E t \in Tiles : InitVertex(t) \/ \E v \in Variants : RuntimeVertex(v, t)
    \/ Any \/ CopyInit \/ CopyOut
    \/ FetchResult \/ CountHidden \/ NoMoreResults \/ Display

Next == System \/ User

Spec == Init /\ [][Next]_vars /\ WF_vars(System)

-----------------------------------------------------------------------------
(***************************************************************************)
(* Properties.                                                             *)
(***************************************************************************)
Alike == \A t, u \in Tiles : piece[t].yields = piece[u].yields

Nonempty == {piece[t].text : t \in Tiles} \ {0}

\* The text sent for a piece accounts for every interpreter, as long as all
\* yield equally often: each output of this run is shown once with the
\* number of tiles that made it, the outputs shown and the ones counted as
\* not shown are all there are, and a piece that was not executed shows
\* nothing of the pieces before it.
ReportAddsUp ==
    pc = "display" /\ Alike =>
        /\ Len(results) + hidden = Cardinality(Nonempty)
        /\ \A i \in DOMAIN results :
              /\ results[i].count = Cardinality({t \in Tiles : piece[t].text = results[i].data})
              /\ results[i].runs = {run}

\* The picture sent for a piece that was executed shows of every tile the
\* pixel its last execution in this run has set, or none, and nothing of
\* earlier runs, even if tiles complete in different passes.  That execution
\* is the tile's first and only one, but perhaps on tile 0 when the tiles
\* yield differently: a pixel set there is then lost if the execution that
\* repeats the piece does not set it.
PictureIsOfThisRun ==
    pc = "idle" /\ success = 1 =>
        LET made == [t \in Tiles |-> IF work[t].pixel THEN run ELSE Off] IN
        /\ image = IF \E t \in Tiles : work[t].pixel THEN made ELSE <<>>
        /\ \A t \in Tiles : t # 0 \/ Alike => work[t] = piece[t]

\* No interpreter executes a piece, with its side effects, more than once,
\* but tile 0, whose flag Any overwrites, and only if the tiles yield
\* differently.
ExecutedOnce ==
    \A t \in Tiles : executions[t] > 1 => t = 0 /\ ~Alike

\* Every piece handed to the device is answered, and the kernel is ready for
\* the next one, however the tiles yield.
PieceAnswered == (pc = "first") ~> (pc = "idle")
=============================================================================
