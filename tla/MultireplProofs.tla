-------------------------- MODULE MultireplProofs --------------------------
(***************************************************************************)
(* Theorems about Multirepl, for every number of tiles, every set of typed *)
(* characters and every number of yields.                                  *)
(***************************************************************************)
EXTENDS Multirepl, TLAPS

\* mode, line, ... keep their types whatever is typed.
LEMMA AddByteType ==
    ASSUME NEW s \in Repl, NEW c
    PROVE  AddByte(s, c) \in Repl
  <1>1. Byte(c) \in Bytes
    BY DEF Byte, Bytes
  <1>2. Append(s.line, Byte(c)) \in Seq(Bytes)
    BY <1>1 DEF Repl
  <1> QED
    BY <1>2 DEF AddByte, Repl

LEMMA LineOperatorsType ==
    ASSUME NEW s \in Repl
    PROVE  /\ ResetLine(s) \in Repl
           /\ ClearLine(s) \in Repl
           /\ InputRestart(s) \in Repl
           /\ NoteNewline(s) \in Repl
           /\ Executed(s) \in Repl
  <1>1. <<>> \in Seq(Bytes) /\ <<"nl">> \in Seq(Bytes)
    BY DEF Bytes
  <1> QED
    BY <1>1 DEF ResetLine, ClearLine, InputRestart, NoteNewline, Executed, Repl

\* pyexec_event_repl_process_char keeps the REPL's state well typed.
LEMMA ProcessCharType ==
    ASSUME NEW s \in Repl, NEW c, NEW m
    PROVE  ProcessChar(s, c, m).repl \in Repl
  <1>1. ASSUME NEW r \in Repl PROVE EndOfLine(r, m).repl \in Repl
    BY LineOperatorsType DEF EndOfLine, Result
  <1>2. RawProcessChar(s, c).repl \in Repl
    <2>1. [s EXCEPT !.mode = "friendly"] \in Repl
      BY DEF Repl
    <2> QED
      BY <2>1, LineOperatorsType, AddByteType DEF RawProcessChar, Result
  <1>3. PasteProcessChar(s, c).repl \in Repl
    BY LineOperatorsType, AddByteType DEF PasteProcessChar, Result
  <1>4. ReadlineEdits(s, c) \in Repl
    BY AddByteType DEF ReadlineEdits
  <1>5. FirstLineChar(s, c, m).repl \in Repl
    <2>1. [s EXCEPT !.mode = "raw"] \in Repl
      BY DEF Repl
    <2>2. [ResetLine(s) EXCEPT !.paste = TRUE] \in Repl
      <3>1. ResetLine(s) \in Repl
        BY LineOperatorsType
      <3> QED
        BY <3>1 DEF Repl
    <2>3. ResetLine([s EXCEPT !.mode = "raw"]) \in Repl
      BY <2>1, LineOperatorsType
    <2> QED
      BY <1>1, <1>4, <2>2, <2>3, LineOperatorsType DEF FirstLineChar, Result
  <1>6. ContLineChar(s, c, m).repl \in Repl
    BY <1>1, <1>4, LineOperatorsType DEF ContLineChar, Result
  <1> QED
    BY <1>2, <1>3, <1>5, <1>6 DEF ProcessChar, FriendlyProcessChar

-----------------------------------------------------------------------------
\* Every variable keeps its type: whatever is typed and however the tiles
\* interleave, the flags stay Boolean, the REPL states well formed and no
\* tile yields past what its command does.
THEOREM TypeCorrect == Spec => []TypeOK
  <1> USE MultireplAssumption DEF Tiles
  <1>1. Init => TypeOK
    <2>1. EventReplInit \in Repl
      BY DEF EventReplInit, Repl
    <2>2. Junk \in Payloads
      BY DEF Junk, Payloads
    <2> SUFFICES ASSUME Init PROVE TypeOK
      OBVIOUS
    <2>3. 0 \in 0 .. MaxYields /\ "nul" \in AllChars
      BY DEF AllChars
    <2>4. /\ script \in [Tiles -> 0 .. MaxYields]
          /\ step \in [Tiles -> 0 .. MaxYields]
          /\ handled \in [Tiles -> Nat]
          /\ round \in {0, 1}
      BY <2>3 DEF Init
    <2>5. /\ printBuf \in [Tiles -> SUBSET Outputs]
          /\ said \in [Tiles -> SUBSET Outputs]
      BY DEF Init
    <2>6. /\ commsOutBuf \in [Tiles -> Payloads]
          /\ commsInBuf \in [Tiles -> Payloads]
          /\ repl \in [Tiles -> Repl]
      BY <2>1, <2>2 DEF Init
    <2>7. /\ exit_env \in [Tiles -> Variants \cup {NoFrame}]
          /\ frame \in [Tiles -> Variants \cup {NoFrame}]
      BY DEF Init
    <2>8. /\ pc \in {"init", "while", "first", "comms", "rt", "print", "end"}
          /\ ran \subseteq Tiles
          /\ inBuf \in AllChars
          /\ doneFlag \in [Tiles -> BOOLEAN]
          /\ coroutineFlag \in [Tiles -> BOOLEAN]
          /\ checkpoint_is_live \in [Tiles -> BOOLEAN]
          /\ more \in [Tiles -> BOOLEAN]
      BY <2>3 DEF Init
    <2> QED
      BY <2>4, <2>5, <2>6, <2>7, <2>8 DEF TypeOK
  <1>2. TypeOK /\ [Next]_vars => TypeOK'
    <2> SUFFICES ASSUME TypeOK, [Next]_vars PROVE TypeOK'
      OBVIOUS
    <2> USE DEF TypeOK
    <2>1. ASSUME NEW t \in Tiles, NEW c \in BOOLEAN, NEW out \in SUBSET Outputs,
                 Prints(t, c, out)
          PROVE  /\ printBuf' \in [Tiles -> SUBSET Outputs]
                 /\ said' \in [Tiles -> SUBSET Outputs]
      BY <2>1 DEF Prints
    <2>2. /\ Banner \in Outputs /\ Echo \in Outputs /\ Prompt \in Outputs
          /\ \A n \in 0 .. MaxYields : Output(n) \in Outputs
      BY DEF Banner, Echo, Prompt, Output, Outputs
    <2>3. ASSUME NEW t \in Tiles, NEW e, LongYield(t, e)
          PROVE  /\ step' \in [Tiles -> 0 .. MaxYields]
                 /\ commsOutBuf' \in [Tiles -> Payloads]
                 /\ checkpoint_is_live' \in [Tiles -> BOOLEAN]
                 /\ coroutineFlag' \in [Tiles -> BOOLEAN]
                 /\ doneFlag' \in [Tiles -> BOOLEAN]
      <3>1. step[t] + 1 \in 0 .. MaxYields
        BY <2>3 DEF LongYield
      <3>2. <<round, step[t] + 1>> \in Payloads
        BY <3>1 DEF Payloads
      <3> QED
        BY <2>3, <3>1, <3>2 DEF LongYield
    <2>4. ASSUME NEW t \in Tiles, NEW x \in BOOLEAN, HandlerReturns(t, x)
          PROVE  /\ step' \in [Tiles -> 0 .. MaxYields]
                 /\ commsOutBuf' \in [Tiles -> Payloads]
                 /\ checkpoint_is_live' \in [Tiles -> BOOLEAN]
                 /\ coroutineFlag' \in [Tiles -> BOOLEAN]
                 /\ doneFlag' \in [Tiles -> BOOLEAN]
      BY <2>4 DEF HandlerReturns
    <2>5. ASSUME NEW t \in Tiles, InitVertex(t) PROVE TypeOK'
      <3>1. EventReplInit \in Repl
        BY DEF EventReplInit, Repl
      <3> QED
        BY <2>5, <2>1, <2>2, <3>1 DEF InitVertex, Runs, command
    <2>6. ASSUME NEW t \in Tiles, NEW v \in Variants, RuntimeVertex(v, t)
          PROVE  TypeOK'
      <3> USE DEF Runs, command, Variants
      <3>0. ASSUME Handles(v, t)
            PROVE  /\ pc' = pc /\ ran' \subseteq Tiles
                   /\ inBuf' = inBuf /\ script' = script
                   /\ more' = more /\ round' = round
                   /\ commsInBuf' = commsInBuf
                   /\ exit_env' \in [Tiles -> Variants \cup {NoFrame}]
                   /\ handled' \in [Tiles -> Nat]
        <4>1. handled' \in [Tiles -> Nat]
          <5>1. handled' = [handled EXCEPT ![t] = handled[t] + 1]
            BY ONLY <3>0 DEF Handles
          <5>2. handled \in [Tiles -> Nat] /\ t \in Tiles
            OBVIOUS
          <5> QED
            BY ONLY <5>1, <5>2
        <4> QED
          BY <3>0, <4>1 DEF Handles, Enters
      <3>1. CASE ResumeAndYield(t)
        BY <3>1, <2>1, <2>2, <2>3 DEF ResumeAndYield
      <3>2. CASE ResumeAndFinish(t)
        <4>1. /\ printBuf' \in [Tiles -> SUBSET Outputs]
              /\ said' \in [Tiles -> SUBSET Outputs]
          BY <3>2, <2>1, <2>2 DEF ResumeAndFinish
        <4>2. repl' \in [Tiles -> Repl]
          BY <3>2, LineOperatorsType DEF ResumeAndFinish
        <4> QED
          BY <3>2, <2>4, <4>1, <4>2 DEF ResumeAndFinish
      <3>3. CASE Idle(v, t)
        BY <3>3, <2>1 DEF Idle, Enters
      <3>4. CASE HandleNul(v, t)
        BY <3>0, <3>4, <2>1, <2>4 DEF HandleNul
      <3>5. CASE HandleKey(v, t)
        BY <3>0, <3>5, <2>1, <2>2, <2>4, ProcessCharType DEF HandleKey
      <3>6. CASE HandleAndFinish(v, t)
        <4>1. /\ printBuf' \in [Tiles -> SUBSET Outputs]
              /\ said' \in [Tiles -> SUBSET Outputs]
          BY <3>6, <2>1, <2>2 DEF HandleAndFinish
        <4>2. repl' \in [Tiles -> Repl]
          BY <3>6, LineOperatorsType DEF HandleAndFinish
        <4> QED
          BY <3>0, <3>6, <2>4, <4>1, <4>2 DEF HandleAndFinish
      <3>7. CASE HandleAndYield(v, t)
        BY <3>0, <3>7, <2>1, <2>2, <2>3 DEF HandleAndYield
      <3> QED
        BY <2>6, <3>1, <3>2, <3>3, <3>4, <3>5, <3>6, <3>7 DEF RuntimeVertex
    <2>7. CASE CopyPrintBuf
      <3>1. /\ script' \in [Tiles -> 0 .. MaxYields]
            /\ step' \in [Tiles -> 0 .. MaxYields]
            /\ handled' \in [Tiles -> Nat]
        BY <2>7 DEF CopyPrintBuf, ForgetCommand
      <3>2. said' \in [Tiles -> SUBSET Outputs] /\ more' \in [Tiles -> BOOLEAN]
        BY <2>7 DEF CopyPrintBuf, ForgetCommand
      <3> QED
        BY <2>7, <3>1, <3>2 DEF CopyPrintBuf
    <2>8. CASE TypeChar
      <3>1. script' \in [Tiles -> 0 .. MaxYields]
        <4>1. script' \in Scripts \/ script' = script
          BY <2>8 DEF TypeChar
        <4>2. Scripts \subseteq [Tiles -> 0 .. MaxYields]
          BY DEF Scripts
        <4> QED
          BY <4>1, <4>2
      <3>2. round' \in {0, 1}
        BY <2>8 DEF TypeChar
      <3>3. more' \in [Tiles -> BOOLEAN]
        BY <2>8 DEF TypeChar, Mores
      <3> QED
        BY <2>8, <3>1, <3>2, <3>3 DEF TypeChar
    <2>9. CASE Stop
      BY <2>9 DEF Stop, command
    <2>10. CASE Any
      BY <2>10 DEF Any, command
    <2>11. CASE Exchange
      BY <2>11 DEF Exchange, command
    <2>12. CASE UNCHANGED vars
      BY <2>12 DEF vars, control, command
    <2> QED
      BY <2>5, <2>6, <2>7, <2>8, <2>9, <2>10, <2>11, <2>12
      DEF Next, Device, Vertex, Terminated
  <1> QED
    BY <1>1, <1>2, PTL DEF Spec

-----------------------------------------------------------------------------
(***************************************************************************)
(* Coroutines.  NoAbandonedCoroutine speaks of the end of a round only; it *)
(* follows from what coroutineFlag means during the round: a suspended     *)
(* interpreter is flagged, whatever Any does to flag 0, so the loop cannot *)
(* end before it is resumed; and a tile the first compute set has not run  *)
(* yet has nothing suspended.  A suspended interpreter has not exited, and *)
(* its stack sits on the frame it will return through.                     *)
(***************************************************************************)
SuspendedIsFlagged == \A t \in Tiles : checkpoint_is_live[t] => coroutineFlag[t]

SuspendedOnlyInRound ==
    \A t \in Tiles :
        \/ pc \in {"init", "print", "while", "end"}
        \/ pc = "first" /\ t \notin ran
        => ~checkpoint_is_live[t]

SuspendedIsNotDone == \A t \in Tiles : checkpoint_is_live[t] => ~doneFlag[t]

CoroutineInv ==
    /\ SuspendedIsFlagged
    /\ SuspendedOnlyInRound
    /\ SuspendedIsNotDone
    /\ CheckpointFrameIsExitFrame

\* With COMMS, CoroutineInv is inductive.
LEMMA CoroutineInvStep ==
    ASSUME COMMS, TypeOK, CoroutineInv, [Next]_vars
    PROVE  CoroutineInv'
  <1> USE DEF TypeOK, CoroutineInv, SuspendedIsFlagged, SuspendedOnlyInRound,
              SuspendedIsNotDone, CheckpointFrameIsExitFrame
  <1>1. ASSUME NEW t \in Tiles, InitVertex(t) PROVE CoroutineInv'
    BY <1>1 DEF InitVertex, Runs
  <1>2. ASSUME NEW t \in Tiles, NEW v \in Variants, RuntimeVertex(v, t)
        PROVE  CoroutineInv'
    <2> USE DEF Runs, Variants
    <2>1. CASE v = "rt" /\ ResumeAndYield(t)
      BY <2>1 DEF ResumeAndYield, LongYield
    <2>2. CASE v = "rt" /\ ResumeAndFinish(t)
      BY <2>2 DEF ResumeAndFinish, HandlerReturns
    <2>3. CASE Idle(v, t)
      BY <2>3 DEF Idle, Enters
    <2>4. CASE HandleNul(v, t)
      BY <2>4 DEF HandleNul, Handles, Enters, HandlerReturns
    <2>5. CASE HandleKey(v, t)
      BY <2>5 DEF HandleKey, Handles, Enters, HandlerReturns
    <2>6. CASE HandleAndFinish(v, t)
      BY <2>6 DEF HandleAndFinish, Handles, Enters, HandlerReturns
    <2>7. CASE HandleAndYield(v, t)
      BY <2>7 DEF HandleAndYield, Handles, Enters, ReturnsEarly, LongYield
    <2> QED
      BY <1>2, <2>1, <2>2, <2>3, <2>4, <2>5, <2>6, <2>7 DEF RuntimeVertex
  <1>3. CASE CopyPrintBuf
    BY <1>3 DEF CopyPrintBuf, Finished, RoundOver
  <1>4. CASE TypeChar
    BY <1>4 DEF TypeChar
  <1>5. CASE Stop
    BY <1>5 DEF Stop
  <1>6. CASE Any
    BY <1>6, MultireplAssumption DEF Any, Finished, Tiles
  <1>7. CASE Exchange
    BY <1>7 DEF Exchange
  <1>8. CASE UNCHANGED vars
    BY <1>8 DEF vars, control
  <1> QED
    BY <1>1, <1>2, <1>3, <1>4, <1>5, <1>6, <1>7, <1>8
    DEF Next, Device, Vertex, Terminated

LEMMA CoroutineInvariant ==
    ASSUME COMMS
    PROVE  Spec => []CoroutineInv
  <1>1. Init => CoroutineInv
    BY DEF Init, CoroutineInv, SuspendedIsFlagged, SuspendedOnlyInRound,
           SuspendedIsNotDone, CheckpointFrameIsExitFrame
  <1>2. TypeOK /\ CoroutineInv /\ [Next]_vars => CoroutineInv'
    BY CoroutineInvStep
  <1> QED
    BY <1>1, <1>2, TypeCorrect, PTL DEF Spec

\* However many tiles there are and however differently they yield, the loop
\* over the coroutines ends only when every interpreter has been resumed.
THEOREM NoCoroutineAbandoned ==
    ASSUME COMMS
    PROVE  Spec => []NoAbandonedCoroutine
  <1>1. CoroutineInv => NoAbandonedCoroutine
    BY DEF CoroutineInv, SuspendedOnlyInRound, NoAbandonedCoroutine
  <1> QED
    BY <1>1, CoroutineInvariant, PTL

\* A live checkpoint is only ever resumed over the frame it was taken on.
THEOREM JumpsWellFounded ==
    ASSUME COMMS
    PROVE  Spec => []CheckpointFrameIsExitFrame
  <1>1. CoroutineInv => CheckpointFrameIsExitFrame
    BY DEF CoroutineInv
  <1> QED
    BY <1>1, CoroutineInvariant, PTL

\* A tile that has exited never again handles a character nor comes back.
THEOREM ExitIsFinal ==
    ASSUME COMMS
    PROVE  Spec => DoneIsFinal
  <1> DEFINE A == \A t \in Tiles : pc # "init" /\ doneFlag[t] =>
                    doneFlag'[t] /\ repl'[t] = repl[t] /\ handled'[t] <= handled[t]
  <1>1. ASSUME TypeOK, CoroutineInv, [Next]_vars PROVE [A]_vars
    <2> USE <1>1 DEF TypeOK, CoroutineInv, SuspendedIsNotDone
    <2>0. \A t \in Tiles : handled[t] \in Nat /\ handled[t] <= handled[t]
      OBVIOUS
    <2>1. ASSUME NEW t \in Tiles, InitVertex(t) PROVE A
      BY <2>1 DEF InitVertex, Runs
    <2>2. ASSUME NEW t \in Tiles, NEW v \in Variants, RuntimeVertex(v, t) PROVE A
      <3> USE <2>0 DEF Runs
      <3>1. CASE v = "rt" /\ ResumeAndYield(t)
        BY <3>1 DEF ResumeAndYield, LongYield
      <3>2. CASE v = "rt" /\ ResumeAndFinish(t)
        BY <3>2 DEF ResumeAndFinish, HandlerReturns
      <3>3. CASE Idle(v, t)
        BY <3>3 DEF Idle, Enters
      <3>4. CASE \/ HandleNul(v, t) \/ HandleKey(v, t)
                 \/ HandleAndFinish(v, t) \/ HandleAndYield(v, t)
        <4>1. ~doneFlag[t] /\ handled' = [handled EXCEPT ![t] = @ + 1]
          BY <3>4 DEF HandleNul, HandleKey, HandleAndFinish, HandleAndYield,
                      Handles, ReturnsEarly
        <4>2. \A u \in Tiles \ {t} : repl'[u] = repl[u]
          BY <3>4 DEF HandleNul, HandleKey, HandleAndFinish, HandleAndYield
        <4>3. \A u \in Tiles \ {t} : doneFlag'[u] = doneFlag[u]
          BY <3>4 DEF HandleNul, HandleKey, HandleAndFinish, HandleAndYield,
                      HandlerReturns, LongYield
        <4> QED
          BY <4>1, <4>2, <4>3
      <3> QED
        BY <2>2, <3>1, <3>2, <3>3, <3>4 DEF RuntimeVertex
    <2>3. CASE CopyPrintBuf
      <3>1. \A t \in Tiles : handled'[t] = 0
        BY <2>3 DEF CopyPrintBuf, ForgetCommand
      <3> QED
        BY <2>3, <3>1, <2>0 DEF CopyPrintBuf
    <2>4. CASE TypeChar \/ Stop \/ Any \/ Exchange
      BY <2>4, <2>0 DEF TypeChar, Stop, Any, Exchange
    <2>5. CASE UNCHANGED vars
      BY <2>5
    <2> QED
      BY <2>1, <2>2, <2>3, <2>4, <2>5 DEF Next, Device, Vertex, Terminated
  <1> QED
    BY <1>1, TypeCorrect, CoroutineInvariant, PTL DEF Spec, DoneIsFinal

---------------------------------------------------------------------------
(***************************************************************************)
(* The passes of one round: the collective exchange, who handles a         *)
(* character again, and whose answers survive.                             *)
(***************************************************************************)
\* The character makes the REPL run a line that holds code.
RunsCode(s, c, m) ==
    c # "nul" /\ ProcessChar(s, c, m).does = "exec" /\ s.line # <<>>

\* A handled character leaves the REPL in a state in which the same character
\* runs no code: the line was run and emptied, or the character is one that
\* this state, too, answers without executing anything.
LEMMA RunsCodeOnce ==
    ASSUME NEW s \in Repl, NEW c \in AllChars, NEW m \in BOOLEAN,
           ProcessChar(s, c, m).does = "return"
    PROVE  ~RunsCode(ProcessChar(s, c, m).repl, c, m)
  <1> DEFINE r == ProcessChar(s, c, m).repl
  <1> USE DEF Result, RunsCode
  <1>1. ASSUME NEW q, q.line = <<>> PROVE ~RunsCode(q, c, m)
    BY <1>1
  <1>0. /\ \A q \in Repl : InputRestart(q).line = <<>> /\ ResetLine(q).line = <<>>
        /\ \A q \in Repl : [q EXCEPT !.paste = TRUE].line = q.line
        /\ [s EXCEPT !.mode = "friendly"] \in Repl
        /\ [s EXCEPT !.mode = "raw"] \in Repl
        /\ ResetLine(s) \in Repl
    BY LineOperatorsType DEF InputRestart, ResetLine, Repl
  <1>2. CASE s.mode = "raw"
    <2>1. RawProcessChar(s, c) = ProcessChar(s, c, m)
      BY <1>2 DEF ProcessChar
    <2>2. CASE c = "ctrlB"
      <3>1. r.line = <<>>
        BY <1>0, <2>1, <2>2 DEF RawProcessChar
      <3> QED BY <3>1, <1>1
    <2>3. CASE c = "ctrlA" \/ c = "ctrlC"
      <3>1. r.line = <<>>
        BY <1>0, <2>1, <2>3 DEF RawProcessChar
      <3> QED BY <3>1, <1>1
    <2>4. CASE c = "ctrlD"
      BY <2>1, <2>4 DEF RawProcessChar
    <2>5. CASE c \notin {"ctrlA", "ctrlB", "ctrlC", "ctrlD"}
      <3>1. r.mode = "raw"
        BY <2>1, <2>5, <1>2 DEF RawProcessChar, AddByte, Repl
      <3>2. ProcessChar(r, c, m).does = "return"
        BY <3>1, <2>5 DEF ProcessChar, RawProcessChar
      <3> QED BY <3>2
    <2> QED BY <2>2, <2>3, <2>4, <2>5
  <1>3. CASE s.mode = "friendly" /\ s.paste
    <2>1. PasteProcessChar(s, c) = ProcessChar(s, c, m)
      BY <1>3 DEF ProcessChar, FriendlyProcessChar
    <2>2. CASE c = "ctrlC"
      <3>1. r.line = <<>>
        BY <1>0, <2>1, <2>2 DEF PasteProcessChar
      <3> QED BY <3>1, <1>1
    <2>3. CASE c = "ctrlD"
      BY <2>1, <2>3 DEF PasteProcessChar
    <2>4. CASE c \notin {"ctrlC", "ctrlD"}
      <3>1. r.mode = "friendly" /\ r.paste
        BY <2>1, <2>4, <1>3 DEF PasteProcessChar, AddByte, Repl
      <3>2. ProcessChar(r, c, m).does = "return"
        BY <3>1, <2>4 DEF ProcessChar, FriendlyProcessChar, PasteProcessChar
      <3> QED BY <3>2
    <2> QED BY <2>2, <2>3, <2>4
  \* A line that is not over: the text calls for more of it.
  <1>4. ASSUME EndOfLine(s, m).does = "return", s.mode = "friendly", ~s.paste,
               ReadlineReturns(s, c) \notin {"ctrlC", "ctrlD", "none"},
               r = EndOfLine(s, m).repl
        PROVE  ~RunsCode(r, c, m)
    <2>1. m /\ r = NoteNewline(s)
      BY <1>4 DEF EndOfLine, ContinueWithInput
    <2>2. /\ r.mode = "friendly" /\ ~r.paste /\ r.cont
          /\ r.line = <<"nl">> /\ r.orig = 1 /\ Len(r.line) = 1
      BY <2>1, <1>4 DEF NoteNewline, Repl
    <2>3. ReadlineReturns(r, c) = c
      BY <2>2, <1>4 DEF ReadlineReturns
    <2>4. c \notin {"ctrlC", "ctrlD", "none"}
      BY <1>4 DEF ReadlineReturns
    <2>5. r.line # <<>>
      BY <2>2
    <2>6. ProcessChar(r, c, m) = Result("return", NoteNewline(r))
      BY <2>1, <2>2, <2>3, <2>4, <2>5
      DEF ProcessChar, FriendlyProcessChar, ContLineChar, EndOfLine, ContinueWithInput
    <2> QED BY <2>6
  \* A character that readline keeps to itself: so it does the next time.
  <1>5. ASSUME ReadlineReturns(s, c) = "none", s.mode = "friendly", ~s.paste,
               r = ReadlineEdits(s, c)
        PROVE  ~RunsCode(r, c, m)
    <2>1. r.mode = "friendly" /\ ~r.paste
      BY <1>5 DEF ReadlineEdits, AddByte, Repl
    <2>2. ReadlineReturns(r, c) = "none"
      <3>1. CASE c \in Printable
        BY <3>1 DEF ReadlineReturns, Printable, Controls
      <3>2. CASE c \notin Printable
        BY <3>2, <1>5 DEF ReadlineEdits
      <3> QED BY <3>1, <3>2
    <2>3. ProcessChar(r, c, m).does = "return"
      BY <2>1, <2>2 DEF ProcessChar, FriendlyProcessChar, ContLineChar, FirstLineChar
    <2> QED BY <2>3
  <1>6. CASE s.mode = "friendly" /\ ~s.paste /\ s.cont
    <2>1. ContLineChar(s, c, m) = ProcessChar(s, c, m)
      BY <1>6 DEF ProcessChar, FriendlyProcessChar
    <2>2. CASE ReadlineReturns(s, c) = "ctrlC"
      <3>1. r.line = <<>>
        BY <1>0, <2>1, <2>2 DEF ContLineChar
      <3> QED BY <3>1, <1>1
    <2>3. CASE ReadlineReturns(s, c) = "ctrlD"
      BY <2>1, <2>3 DEF ContLineChar
    <2>4. CASE ReadlineReturns(s, c) = "none"
      <3>1. r = ReadlineEdits(s, c)
        BY <2>1, <2>4 DEF ContLineChar
      <3> QED BY <3>1, <1>5, <1>6, <2>4
    <2>5. CASE ReadlineReturns(s, c) \notin {"ctrlC", "ctrlD", "none"}
      <3>1. ProcessChar(s, c, m) = EndOfLine(s, m)
        BY <2>1, <2>5 DEF ContLineChar
      <3> QED BY <3>1, <1>4, <1>6, <2>5
    <2> QED BY <2>2, <2>3, <2>4, <2>5
  <1>7. CASE s.mode = "friendly" /\ ~s.paste /\ ~s.cont
    <2> DEFINE ret == ReadlineReturns(s, c)
    <2>1. FirstLineChar(s, c, m) = ProcessChar(s, c, m)
      BY <1>7 DEF ProcessChar, FriendlyProcessChar
    <2>2. CASE ret \in {"ctrlA", "ctrlB", "ctrlC", "ctrlE"}
      <3>1. r \in {ResetLine([s EXCEPT !.mode = "raw"]), InputRestart(s),
                   [ResetLine(s) EXCEPT !.paste = TRUE]}
        BY <2>1, <2>2 DEF FirstLineChar
      <3>2. r.line = <<>>
        BY <1>0, <3>1
      <3> QED BY <3>2, <1>1
    <2>3. CASE ret = "ctrlD"
      BY <2>1, <2>3 DEF FirstLineChar
    <2>4. CASE ret = "none"
      <3>1. r = ReadlineEdits(s, c)
        BY <2>1, <2>4 DEF FirstLineChar
      <3> QED BY <3>1, <1>5, <1>7, <2>4
    <2>5. CASE ret \notin {"ctrlA", "ctrlB", "ctrlC", "ctrlD", "ctrlE", "none"}
      <3>1. ProcessChar(s, c, m) = EndOfLine(s, m)
        BY <2>1, <2>5 DEF FirstLineChar
      <3> QED BY <3>1, <1>4, <1>7, <2>5
    <2> QED BY <2>2, <2>3, <2>4, <2>5
  <1> QED BY <1>2, <1>3, <1>6, <1>7 DEF Repl

-----------------------------------------------------------------------------
(***************************************************************************)
(* The invariant of a round with COMMS.  Nothing in it depends on what the *)
(* tiles run: they may yield any number of times each.                     *)
(***************************************************************************)
\* Tiles the current compute set has still to run, in the first pass and in
\* the passes of the coroutine loop.
Waits(t) == pc = "first" /\ t \notin ran
Due(t) == pc = "rt" /\ t \notin ran
InRound == pc \in {"first", "comms", "rt", "print"}

\* A tile that has not been given the character has done nothing about it.
WaitingIsFresh ==
    \A t \in Tiles :
        /\ pc \in {"init", "while", "end"} \/ Waits(t) =>
               step[t] = 0 /\ handled[t] = 0
        /\ pc \in {"while", "end"} \/ Waits(t) => said[t] = {}

\* A flag is up only while a coroutine needs another pass ...
FlagsAreDown ==
    \A t \in Tiles :
        \/ pc \in {"print", "while", "end"}
        \/ pc = "init" /\ t \in ran
        \/ Waits(t)
        => ~coroutineFlag[t]

\* ... on its own tile, but for flag 0, which Any raises for every tile.
\* When tile 0 has run and its flag stays up for no coroutine, it has exited.
FlagIsOwn ==
    /\ \A t \in Tiles \ {0} : pc # "init" /\ coroutineFlag[t] => checkpoint_is_live[t]
    /\ pc = "first" /\ coroutineFlag[0] => checkpoint_is_live[0]
    /\ pc = "rt" /\ 0 \in ran /\ coroutineFlag[0] =>
           checkpoint_is_live[0] \/ doneFlag[0]

\* A tile runs code for a character at most once, even if it handles the
\* character again.
CodeIsRunOnce ==
    \A t \in Tiles : InRound /\ ~Waits(t) /\ ~checkpoint_is_live[t] =>
        doneFlag[t] \/ ~RunsCode(repl[t], inBuf, more[t])

\* All suspended tiles are at the same call of alltoall, the one before for
\* those this pass has still to run, and no other tile has made that call.
CallsMade(t) == IF Due(t) THEN step[t] + 1 ELSE step[t]
PassesAreAligned ==
    \A t, u \in Tiles : checkpoint_is_live[t] =>
        /\ step[t] > 0
        /\ checkpoint_is_live[u] => CallsMade(u) = CallsMade(t)
        /\ ~checkpoint_is_live[u] => step[u] < CallsMade(t)

\* In the first pass that call is the first.
FirstPassIsFirstCall ==
    pc = "first" =>
        \A t \in Tiles : step[t] = IF checkpoint_is_live[t] THEN 1 ELSE 0

\* __sendbuf holds the payload of the tile's last call.
SendBufIsLast ==
    \A t \in Tiles : step[t] > 0 => commsOutBuf[t] = <<round, step[t]>>

\* The tiles that call alltoall most often keep what they wrote, unless tile
\* 0 has exited with its flag up, after which the round does not end.
Behind(t) == \E u \in Tiles : step[t] < step[u]
Spinning == doneFlag[0] /\ coroutineFlag[0]
Intact(t) == printBuf[t] = said[t]
AnswersSurvive ==
    \A t \in Tiles :
        /\ checkpoint_is_live[t] => Intact(t)
        /\ pc = "first" /\ t \in ran => Intact(t)
        /\ (pc = "comms" \/ Due(t)) /\ ~checkpoint_is_live[t] =>
               Spinning \/ Behind(t)
        /\ pc = "rt" /\ t \in ran => Intact(t) \/ Spinning \/ Behind(t)
        /\ pc = "print" => Intact(t) \/ Behind(t)

RoundInv ==
    /\ WaitingIsFresh
    /\ FlagsAreDown
    /\ FlagIsOwn
    /\ CodeIsRunOnce
    /\ PassesAreAligned
    /\ FirstPassIsFirstCall
    /\ SendBufIsLast
    /\ AllToAllCollects
    /\ OthersHandleOnce
    /\ AnswersSurvive

LEMMA ZeroIsTile == 0 \in Tiles
  BY MultireplAssumption DEF Tiles

\* Only RuntimeVertex<true> starts a coroutine: tile 0 may handle the
\* character again in a later pass, but has no code left to run for it.
LEMMA YieldsStartInFirst ==
    ASSUME COMMS, TypeOK, CoroutineInv, RoundInv, NEW t \in Tiles,
           NEW v \in Variants, HandleAndYield(v, t)
    PROVE  v = "first" /\ pc = "first" /\ ~doneFlag[t]
  <1>1. ~doneFlag[t] /\ pc = v /\ (v = "rt" => ~checkpoint_is_live[t])
    BY DEF HandleAndYield, Handles, Enters, Runs, ReturnsEarly
  <1>2. RunsCode(repl[t], inBuf, more[t])
    BY DEF HandleAndYield, Executes, HasCode, RunsCode
  <1>3. v # "rt"
    BY <1>1, <1>2 DEF RoundInv, CodeIsRunOnce, InRound, Waits
  <1> QED
    BY <1>1, <1>3 DEF Variants

\* A resumed tile calls alltoall once more: every call of this pass was made
\* by all suspended tiles, and what they received is not touched.
LEMMA ResumeAndYieldKeepsRoundInv ==
    ASSUME COMMS, TypeOK, CoroutineInv, RoundInv, NEW t \in Tiles,
           ResumeAndYield(t)
    PROVE  RoundInv'
  <1> USE DEF TypeOK, ResumeAndYield, Runs
  <1>1. /\ pc = "rt" /\ pc' = "rt" /\ t \notin ran /\ ran' = ran \cup {t}
        /\ checkpoint_is_live[t] /\ coroutineFlag[t] /\ ~doneFlag[t]
        /\ inBuf' = inBuf /\ more' = more /\ round' = round /\ repl' = repl
        /\ commsInBuf' = commsInBuf /\ doneFlag' = doneFlag /\ handled' = handled
    BY DEF CoroutineInv, SuspendedIsFlagged, SuspendedIsNotDone, LongYield, command
  <1>2. /\ step' = [step EXCEPT ![t] = step[t] + 1]
        /\ checkpoint_is_live' = [checkpoint_is_live EXCEPT ![t] = TRUE]
        /\ commsOutBuf' = [commsOutBuf EXCEPT ![t] = <<round, step[t] + 1>>]
    BY DEF LongYield
  <1>3. coroutineFlag' = coroutineFlag
    BY <1>1 DEF LongYield
  <1>4. \A u \in Tiles : checkpoint_is_live'[u] = checkpoint_is_live[u]
    BY <1>1, <1>2
  <1>5. \A u \in Tiles : Intact(u) => Intact(u)'
    BY DEF Intact, Prints
  <1>6. \A u \in Tiles : step[u] \in Nat /\ step'[u] = (IF u = t THEN step[u] + 1 ELSE step[u])
    BY <1>2, MultireplAssumption
  <1> HIDE DEF TypeOK, ResumeAndYield, Runs
  <1>7. WaitingIsFresh' /\ FlagsAreDown'
    BY <1>1 DEF WaitingIsFresh, FlagsAreDown, Waits
  <1>8. CodeIsRunOnce'
    BY <1>1, <1>4 DEF RoundInv, CodeIsRunOnce, InRound, Waits
  <1>9. PassesAreAligned'
    <2> SUFFICES ASSUME NEW x \in Tiles, NEW y \in Tiles, checkpoint_is_live[x]
                 PROVE  /\ step'[x] > 0
                        /\ checkpoint_is_live[y] => CallsMade(y)' = CallsMade(x)'
                        /\ ~checkpoint_is_live[y] => step'[y] < CallsMade(x)'
      BY <1>4 DEF PassesAreAligned
    <2>1. \A u \in Tiles : CallsMade(u)' = CallsMade(u)
      BY <1>1, <1>6 DEF CallsMade, Due
    <2> QED
      BY <2>1, <1>1, <1>6 DEF RoundInv, PassesAreAligned
  <1>10. SendBufIsLast'
    BY <1>1, <1>2, <1>6 DEF RoundInv, SendBufIsLast, TypeOK
  <1>11. AllToAllCollects'
    <2> SUFFICES ASSUME NEW x \in Tiles, NEW y \in Tiles, x # t,
                        x \notin ran, checkpoint_is_live[x], step[x] <= step'[y]
                 PROVE  commsInBuf[y] = <<round, step[x]>>
      BY <1>1, <1>4, <1>6 DEF AllToAllCollects
    <2>1. step[x] = step[t]
      BY <1>1, <1>6 DEF RoundInv, PassesAreAligned, CallsMade, Due
    <2>2. step[x] <= step[y]
      BY <2>1, <1>6
    <2> QED
      BY <2>2, <1>1 DEF RoundInv, AllToAllCollects
  <1>12. OthersHandleOnce'
    BY <1>1 DEF RoundInv, OthersHandleOnce
  <1>13. AnswersSurvive'
    <2>1. \A u \in Tiles : u # t /\ Behind(u) => Behind(u)'
      BY <1>6 DEF Behind
    <2>2. Spinning' = Spinning
      BY <1>1, <1>3 DEF Spinning
    <2> QED
      BY <1>1, <1>4, <1>5, <2>1, <2>2 DEF RoundInv, AnswersSurvive, Due
  <1>14. FlagIsOwn'
    BY <1>1, <1>3, <1>4, ZeroIsTile DEF RoundInv, FlagIsOwn
  <1>15. FirstPassIsFirstCall'
    BY <1>1 DEF FirstPassIsFirstCall
  <1> QED
    BY <1>7, <1>8, <1>9, <1>10, <1>11, <1>12, <1>13, <1>14, <1>15
    DEF RoundInv

\* A tile that starts a coroutine does so in the first pass, in which every
\* coroutine started is at its first call.
LEMMA HandleAndYieldKeepsRoundInv ==
    ASSUME COMMS, TypeOK, CoroutineInv, RoundInv, NEW t \in Tiles,
           NEW v \in Variants, HandleAndYield(v, t)
    PROVE  RoundInv'
  <1> USE DEF TypeOK, HandleAndYield, Handles, Enters, Runs
  <1>1. /\ v = "first" /\ pc = "first" /\ pc' = "first"
        /\ t \notin ran /\ ran' = ran \cup {t} /\ Waits(t)
        /\ inBuf' = inBuf /\ more' = more /\ round' = round /\ repl' = repl
        /\ commsInBuf' = commsInBuf /\ doneFlag' = doneFlag
        /\ handled' = [handled EXCEPT ![t] = @ + 1]
    BY YieldsStartInFirst DEF LongYield, command, Waits
  <1>2. /\ step' = [step EXCEPT ![t] = step[t] + 1]
        /\ checkpoint_is_live' = [checkpoint_is_live EXCEPT ![t] = TRUE]
        /\ commsOutBuf' = [commsOutBuf EXCEPT ![t] = <<round, step[t] + 1>>]
        /\ coroutineFlag' = [coroutineFlag EXCEPT ![t] = TRUE]
    BY <1>1 DEF LongYield
  <1>3. step[t] = 0 /\ handled[t] = 0 /\ said[t] = {}
    BY <1>1 DEF RoundInv, WaitingIsFresh
  <1>4. \A u \in Tiles : step[u] \in Nat /\ step'[u] = (IF u = t THEN 1 ELSE step[u])
    BY <1>2, <1>3, MultireplAssumption
  <1>5. /\ Intact(t)'
        /\ \A u \in Tiles \ {t} : (Intact(u) => Intact(u)') /\ said'[u] = said[u]
    BY <1>3 DEF Intact, Prints
  <1>6. \A u \in Tiles : checkpoint_is_live'[u] = (u = t \/ checkpoint_is_live[u])
    BY <1>2
  <1>7. \A u \in Tiles : coroutineFlag'[u] = (u = t \/ coroutineFlag[u])
    BY <1>2
  <1>8. \A u \in Tiles : handled[u] \in Nat
                         /\ handled'[u] = (IF u = t THEN 1 ELSE handled[u])
    BY <1>1, <1>3
  <1> HIDE DEF TypeOK, HandleAndYield, Handles, Enters, Runs
  <1>9. WaitingIsFresh' /\ OthersHandleOnce'
    BY <1>1, <1>4, <1>5, <1>8 DEF RoundInv, WaitingIsFresh, OthersHandleOnce, Waits
  <1>10. FlagsAreDown'
    BY <1>1, <1>7 DEF RoundInv, FlagsAreDown, Waits
  <1>11. FlagIsOwn'
    BY <1>1, <1>6, <1>7, ZeroIsTile DEF RoundInv, FlagIsOwn
  <1>12. CodeIsRunOnce'
    BY <1>1, <1>6 DEF RoundInv, CodeIsRunOnce, InRound, Waits
  <1>13. ~checkpoint_is_live[t]
    BY <1>1 DEF CoroutineInv, SuspendedOnlyInRound
  <1>14. FirstPassIsFirstCall'
    BY <1>1, <1>4, <1>6 DEF RoundInv, FirstPassIsFirstCall
  <1>15. PassesAreAligned'
    <2>1. \A u \in Tiles : CallsMade(u)' = step'[u]
      BY <1>1 DEF CallsMade, Due
    <2> QED
      BY <1>1, <1>14, <2>1 DEF PassesAreAligned, FirstPassIsFirstCall
  <1>16. SendBufIsLast'
    BY <1>1, <1>2, <1>3, <1>4 DEF RoundInv, SendBufIsLast, TypeOK
  <1>17. AllToAllCollects'
    BY <1>1 DEF AllToAllCollects
  <1>18. AnswersSurvive'
    BY <1>1, <1>5, <1>6 DEF RoundInv, AnswersSurvive, Due
  <1> QED
    BY <1>9, <1>10, <1>11, <1>12, <1>14, <1>15, <1>16, <1>17, <1>18 DEF RoundInv

\* A vertex whose handler returns: what the four ways to do so have in common.
Answers(t) ==
    /\ pc \in {"first", "rt"} /\ pc' = pc
    /\ t \notin ran /\ ran' = ran \cup {t}
    /\ UNCHANGED <<inBuf, more, round, commsInBuf, step, commsOutBuf>>
    /\ ~doneFlag[t]
    /\ checkpoint_is_live' = [checkpoint_is_live EXCEPT ![t] = FALSE]
    /\ coroutineFlag' = [coroutineFlag EXCEPT ![t] = FALSE]
    /\ \A u \in Tiles \ {t} :
           /\ repl'[u] = repl[u] /\ printBuf'[u] = printBuf[u]
           /\ said'[u] = said[u] /\ handled'[u] = handled[u]
           /\ doneFlag'[u] = doneFlag[u]
    /\ doneFlag'[t] \/ ~RunsCode(repl'[t], inBuf, more[t])
    /\ \/ /\ pc = "rt" /\ checkpoint_is_live[t]
          /\ handled'[t] = handled[t] /\ Intact(t)'
       \/ /\ pc = "first" \/ (~checkpoint_is_live[t] /\ coroutineFlag[t])
          /\ handled'[t] = handled[t] + 1 /\ (said[t] = {} => Intact(t)')

LEMMA ReturningVertexAnswers ==
    ASSUME COMMS, TypeOK, CoroutineInv, RoundInv, NEW t \in Tiles,
           NEW v \in Variants,
           \/ ResumeAndFinish(t)
           \/ HandleNul(v, t)
           \/ HandleKey(v, t)
           \/ HandleAndFinish(v, t)
    PROVE  Answers(t)
  <1> USE DEF TypeOK, Runs, command, Variants, HandlerReturns, Prints, Intact
  <1>1. ASSUME NEW s \in Repl PROVE ~RunsCode(Executed(s), inBuf, more[t])
    <2>1. Executed(s).line = <<>>
      BY DEF Executed, ResetLine, InputRestart, Repl
    <2> QED
      BY <2>1 DEF RunsCode
  <1>2. CASE ResumeAndFinish(t)
    <2>1. Intact(t) /\ ~doneFlag[t]
      BY <1>2 DEF ResumeAndFinish, RoundInv, AnswersSurvive,
                  CoroutineInv, SuspendedIsNotDone
    <2>2. ~RunsCode(repl'[t], inBuf, more[t])
      BY <1>1, <1>2 DEF ResumeAndFinish
    <2>3. Intact(t)'
      BY <1>2, <2>1 DEF ResumeAndFinish
    <2> QED
      BY <1>2, <2>1, <2>2, <2>3 DEF ResumeAndFinish, Answers
  <1>3. ASSUME Handles(v, t)
        PROVE  /\ pc \in {"first", "rt"} /\ pc' = pc
               /\ t \notin ran /\ ran' = ran \cup {t}
               /\ UNCHANGED <<inBuf, more, round, commsInBuf>>
               /\ ~doneFlag[t]
               /\ pc = "first" \/ (~checkpoint_is_live[t] /\ coroutineFlag[t])
               /\ handled' = [handled EXCEPT ![t] = handled[t] + 1]
    BY <1>3 DEF Handles, Enters, ReturnsEarly
  <1>4. CASE HandleNul(v, t)
    <2>1. doneFlag'[t]
      BY <1>4 DEF HandleNul
    <2> QED
      BY <1>3, <1>4, <2>1 DEF HandleNul, Answers
  <1>5. CASE HandleKey(v, t)
    <2> DEFINE r == ProcessChar(repl[t], inBuf, more[t])
    <2>1. r.does \in {"return", "exit"} /\ repl'[t] = r.repl
          /\ doneFlag'[t] = (r.does = "exit")
      BY <1>5 DEF HandleKey
    <2>0. repl[t] \in Repl /\ inBuf \in AllChars /\ more[t] \in BOOLEAN
      OBVIOUS
    <2>2. doneFlag'[t] \/ ~RunsCode(repl'[t], inBuf, more[t])
      <3>1. CASE r.does = "exit"
        BY <2>1, <3>1
      <3>2. CASE r.does = "return"
        BY ONLY <2>0, <2>1, <3>2, RunsCodeOnce
      <3> QED
        BY <2>1, <3>1, <3>2
    <2> QED
      <3> HIDE DEF r
      <3>1. /\ Handles(v, t) /\ HandlerReturns(t, r.does = "exit")
            /\ Prints(t, TRUE, {Echo})
            /\ repl' = [repl EXCEPT ![t] = r.repl]
        BY <1>5 DEF HandleKey, r
      <3>2. \A u \in Tiles \ {t} : repl'[u] = repl[u]
        BY <3>1
      <3> QED
        BY <1>3, <2>2, <3>1, <3>2 DEF Answers
  <1>6. CASE HandleAndFinish(v, t)
    <2>1. ~RunsCode(repl'[t], inBuf, more[t])
      BY <1>1, <1>6 DEF HandleAndFinish
    <2> QED
      BY <1>3, <1>6, <2>1 DEF HandleAndFinish, Answers
  <1> QED
    BY <1>2, <1>4, <1>5, <1>6

LEMMA AnswersKeepsRoundInv ==
    ASSUME COMMS, TypeOK, CoroutineInv, RoundInv, NEW t \in Tiles, Answers(t)
    PROVE  RoundInv'
  <1>1. /\ pc \in {"first", "rt"} /\ pc' = pc
        /\ t \notin ran /\ ran' = ran \cup {t}
        /\ inBuf' = inBuf /\ more' = more /\ round' = round /\ step' = step
        /\ commsInBuf' = commsInBuf /\ commsOutBuf' = commsOutBuf /\ ~doneFlag[t]
    BY DEF Answers
  <1>2. \A u \in Tiles : checkpoint_is_live'[u] = (u # t /\ checkpoint_is_live[u])
    BY DEF Answers, TypeOK
  <1>3. \A u \in Tiles : coroutineFlag'[u] = (u # t /\ coroutineFlag[u])
    BY DEF Answers, TypeOK
  <1>4. \A u \in Tiles \ {t} : (Intact(u)' = Intact(u)) /\ said'[u] = said[u]
    BY DEF Answers, Intact
  <1>5. \A u \in Tiles : step[u] \in Nat
    BY MultireplAssumption DEF TypeOK
  <1>6. pc = "first" => step[t] = 0 /\ handled[t] = 0 /\ said[t] = {}
    BY <1>1 DEF RoundInv, WaitingIsFresh, Waits
  <1>7. WaitingIsFresh'
    BY <1>1, <1>4 DEF RoundInv, WaitingIsFresh, Waits, Answers
  <1>8. FlagsAreDown'
    BY <1>1, <1>3 DEF RoundInv, FlagsAreDown, Waits
  <1>9. FlagIsOwn'
    <2>1. \A u \in Tiles \ {0} :
              pc # "init" /\ coroutineFlag'[u] => checkpoint_is_live'[u]
      BY <1>2, <1>3 DEF RoundInv, FlagIsOwn
    <2>2. CASE t = 0
      BY <1>1, <1>3, <2>1, <2>2 DEF FlagIsOwn
    <2>3. CASE t # 0
      BY <1>1, <1>2, <1>3, <2>1, <2>3, ZeroIsTile DEF RoundInv, FlagIsOwn, Answers
    <2> QED
      BY <2>2, <2>3
  <1>10. CodeIsRunOnce'
    <2> SUFFICES ASSUME NEW u \in Tiles, InRound, ~Waits(u)', ~checkpoint_is_live'[u]
                 PROVE  doneFlag'[u] \/ ~RunsCode(repl'[u], inBuf, more[u])
      BY <1>1 DEF CodeIsRunOnce, InRound
    <2>1. CASE u = t
      BY <2>1 DEF Answers
    <2>2. CASE u # t
      BY <1>1, <1>2, <2>2 DEF RoundInv, CodeIsRunOnce, Waits, Answers
    <2> QED
      BY <2>1, <2>2
  <1>11. FirstPassIsFirstCall'
    BY <1>1, <1>2, <1>6 DEF RoundInv, FirstPassIsFirstCall
  <1>12. PassesAreAligned'
    <2> SUFFICES ASSUME NEW x \in Tiles, NEW y \in Tiles, checkpoint_is_live'[x]
                 PROVE  /\ step[x] > 0
                        /\ checkpoint_is_live'[y] => CallsMade(y)' = CallsMade(x)'
                        /\ ~checkpoint_is_live'[y] => step[y] < CallsMade(x)'
      BY <1>1 DEF PassesAreAligned
    <2>1. x # t /\ checkpoint_is_live[x] /\ CallsMade(x)' = CallsMade(x)
      BY <1>1, <1>2 DEF CallsMade, Due
    <2>2. step[x] > 0
      BY <2>1 DEF RoundInv, PassesAreAligned
    <2>3. CASE y = t
      <3>0. ~checkpoint_is_live'[y]
        BY <1>2, <2>3
      <3>1. CASE checkpoint_is_live[t]
        <4>1. pc = "rt"
          BY <1>1, <3>1 DEF CoroutineInv, SuspendedOnlyInRound
        <4>2. CallsMade(t) = step[t] + 1
          BY <4>1, <1>1 DEF CallsMade, Due
        <4>3. CallsMade(t) = CallsMade(x)
          BY <2>1, <3>1 DEF RoundInv, PassesAreAligned
        <4> QED
          BY <4>2, <4>3, <2>1, <2>2, <2>3, <3>0, <1>5
      <3>2. CASE ~checkpoint_is_live[t]
        BY <3>0, <3>2, <2>1, <2>2, <2>3 DEF RoundInv, PassesAreAligned
      <3> QED
        BY <3>1, <3>2
    <2>4. CASE y # t
      <3>1. CallsMade(y)' = CallsMade(y)
        BY <1>1, <2>4 DEF CallsMade, Due
      <3>3. checkpoint_is_live'[y] <=> checkpoint_is_live[y]
        BY <1>2, <2>4
      <3>2. /\ checkpoint_is_live[y] => CallsMade(y) = CallsMade(x)
            /\ ~checkpoint_is_live[y] => step[y] < CallsMade(x)
        BY <2>1 DEF RoundInv, PassesAreAligned
      <3> QED
        BY <3>1, <3>2, <3>3, <2>1, <2>2
    <2> QED
      BY <2>3, <2>4
  <1>13. SendBufIsLast'
    BY <1>1 DEF RoundInv, SendBufIsLast
  <1>14. AllToAllCollects'
    BY <1>1, <1>2 DEF RoundInv, AllToAllCollects
  \* In a later pass only tile 0 handles the character.
  <1>15. ~checkpoint_is_live[t] /\ pc = "rt" => t = 0
    BY DEF Answers, RoundInv, FlagIsOwn
  <1>16. OthersHandleOnce'
    <2> SUFFICES ASSUME NEW u \in Tiles \ {0} PROVE handled'[u] <= 1
      BY DEF OthersHandleOnce
    <2>1. CASE u # t
      BY <2>1 DEF Answers, RoundInv, OthersHandleOnce
    <2>2. CASE u = t
      BY <2>2, <1>6, <1>15 DEF Answers, RoundInv, OthersHandleOnce
    <2> QED
      BY <2>1, <2>2
  <1>17. AnswersSurvive'
    <2>1. \A u \in Tiles : Behind(u)' = Behind(u)
      BY <1>1 DEF Behind
    <2>2. Spinning => Spinning'
      BY <1>1, <1>3, ZeroIsTile DEF Spinning, Answers
    <2>3. pc = "first" => Intact(t)'
      BY <1>6 DEF Answers
    <2>4. pc = "rt" => Intact(t)' \/ Behind(t)
      <3>1. CASE checkpoint_is_live[t]
        BY <3>1 DEF Answers
      <3>2. CASE ~checkpoint_is_live[t] /\ pc = "rt"
        BY <3>2, <1>1, <1>15 DEF RoundInv, AnswersSurvive, Due, Spinning
      <3> QED
        BY <3>1, <3>2
    <2> QED
      BY <1>1, <1>2, <1>4, <2>1, <2>2, <2>3, <2>4 DEF RoundInv, AnswersSurvive, Due
  <1> QED
    BY <1>7, <1>8, <1>9, <1>10, <1>11, <1>12, <1>13, <1>14, <1>16, <1>17 DEF RoundInv

\* A tile that returns early empties its buffer.  In the first pass it had
\* written nothing; later, some tile has yielded more often.
LEMMA IdleKeepsRoundInv ==
    ASSUME COMMS, TypeOK, CoroutineInv, RoundInv, NEW t \in Tiles,
           NEW v \in Variants, Idle(v, t)
    PROVE  RoundInv'
  <1>1. /\ pc = v /\ pc \in {"first", "rt"} /\ pc' = pc
        /\ t \notin ran /\ ran' = ran \cup {t}
        /\ inBuf' = inBuf /\ more' = more /\ round' = round /\ step' = step
        /\ commsInBuf' = commsInBuf /\ commsOutBuf' = commsOutBuf
        /\ doneFlag' = doneFlag /\ coroutineFlag' = coroutineFlag
        /\ repl' = repl /\ handled' = handled
    BY DEF Idle, Enters, Runs, command, Variants
  <1>2. said' = said /\ \A u \in Tiles : printBuf'[u] = (IF u = t THEN {} ELSE printBuf[u])
    BY DEF Idle, Prints, TypeOK
  <1>3. ~checkpoint_is_live[t]
    BY <1>1 DEF Idle, Enters, CoroutineInv, SuspendedOnlyInRound
  <1>4. checkpoint_is_live' = checkpoint_is_live
    BY <1>3 DEF Idle, TypeOK
  <1>5. doneFlag[t] \/ (pc = "rt" /\ ~coroutineFlag[t])
    BY <1>1 DEF Idle, ReturnsEarly
  <1>6. WaitingIsFresh' /\ OthersHandleOnce'
    BY <1>1, <1>2 DEF RoundInv, WaitingIsFresh, OthersHandleOnce, Waits
  <1>7. FlagsAreDown'
    BY <1>1 DEF RoundInv, FlagsAreDown, Waits
  <1>8. FlagIsOwn'
    BY <1>1, <1>4, <1>5 DEF RoundInv, FlagIsOwn
  <1>9. CodeIsRunOnce'
    BY <1>1, <1>4, <1>5 DEF RoundInv, CodeIsRunOnce, InRound, Waits
  <1>10. FirstPassIsFirstCall' /\ SendBufIsLast' /\ AllToAllCollects'
    BY <1>1, <1>4 DEF RoundInv, FirstPassIsFirstCall, SendBufIsLast, AllToAllCollects
  <1>11. PassesAreAligned'
    <2>1. \A u \in Tiles \ {t} : CallsMade(u)' = CallsMade(u)
      BY <1>1 DEF CallsMade, Due
    <2> QED
      BY <1>1, <1>3, <1>4, <2>1 DEF RoundInv, PassesAreAligned
  <1>12. AnswersSurvive'
    <2>1. \A u \in Tiles : Behind(u)' = Behind(u)
      BY <1>1 DEF Behind
    <2>2. Spinning' = Spinning
      BY <1>1 DEF Spinning
    <2>3. \A u \in Tiles \ {t} : Intact(u)' = Intact(u)
      BY <1>2 DEF Intact
    <2>4. pc = "first" => Intact(t)'
      BY <1>1, <1>2 DEF Intact, RoundInv, WaitingIsFresh, Waits
    <2>5. pc = "rt" => Spinning \/ Behind(t)
      BY <1>1, <1>3 DEF RoundInv, AnswersSurvive, Due
    <2> QED
      BY <1>1, <1>3, <1>4, <2>1, <2>2, <2>3, <2>4, <2>5 DEF RoundInv, AnswersSurvive, Due
  <1> QED
    BY <1>6, <1>7, <1>8, <1>9, <1>10, <1>11, <1>12 DEF RoundInv

\* The vertex Any: the loop goes on while some flag is up, and every flag but
\* that of an exited tile 0 stands for a suspended tile.
LEMMA AnyKeepsRoundInv ==
    ASSUME COMMS, TypeOK, CoroutineInv, RoundInv, Any
    PROVE  RoundInv'
  <1> DEFINE up == \E t \in Tiles : coroutineFlag[t]
  <1>1. /\ pc \in {"first", "rt"} /\ ran = Tiles /\ ran' = ran
        /\ inBuf' = inBuf /\ more' = more /\ round' = round /\ step' = step
        /\ commsInBuf' = commsInBuf /\ commsOutBuf' = commsOutBuf
        /\ checkpoint_is_live' = checkpoint_is_live
        /\ doneFlag' = doneFlag /\ repl' = repl /\ handled' = handled
        /\ said' = said /\ printBuf' = printBuf
    BY DEF Any, Finished, command
  <1>2. \A t \in Tiles : coroutineFlag'[t] = (IF t = 0 THEN up ELSE coroutineFlag[t])
    BY DEF Any, TypeOK
  <1>3. pc' = IF up THEN "comms" ELSE "print"
    BY <1>2, ZeroIsTile DEF Any
  <1>4. \A u \in Tiles : CallsMade(u) = step[u] /\ CallsMade(u)' = step[u]
    BY <1>1, <1>3 DEF CallsMade, Due
  <1>5. \A u \in Tiles : step[u] \in Nat
    BY MultireplAssumption DEF TypeOK
  <1>6. WaitingIsFresh' /\ OthersHandleOnce' /\ FirstPassIsFirstCall' /\ AllToAllCollects'
    BY <1>1, <1>3 DEF RoundInv, WaitingIsFresh, OthersHandleOnce, Waits,
                      FirstPassIsFirstCall, AllToAllCollects
  <1>7. FlagsAreDown'
    BY <1>2, <1>3 DEF FlagsAreDown, Waits
  <1>8. FlagIsOwn'
    BY <1>1, <1>2, <1>3 DEF RoundInv, FlagIsOwn
  <1>9. CodeIsRunOnce' /\ SendBufIsLast'
    BY <1>1, <1>3 DEF RoundInv, CodeIsRunOnce, SendBufIsLast, InRound, Waits
  <1>10. PassesAreAligned'
    BY <1>1, <1>4 DEF RoundInv, PassesAreAligned
  <1>11. AnswersSurvive'
    <2>1. \A u \in Tiles : Behind(u)' = Behind(u) /\ Intact(u)' = Intact(u)
      BY <1>1 DEF Behind, Intact
    <2>2. ASSUME up, NEW t \in Tiles, ~checkpoint_is_live[t]
          PROVE  Spinning' \/ Behind(t)
      <3>1. PICK w \in Tiles : coroutineFlag[w]
        BY <2>2
      <3>2. CASE checkpoint_is_live[w]
        <4>1. step[t] < CallsMade(w)
          BY <2>2, <3>2 DEF RoundInv, PassesAreAligned
        <4> QED
          BY <4>1, <1>4 DEF Behind
      <3>3. CASE ~checkpoint_is_live[w]
        <4>1. w = 0 /\ doneFlag[0]
          BY <1>1, <3>1, <3>3, ZeroIsTile DEF RoundInv, FlagIsOwn
        <4> QED
          BY <1>1, <1>2, <2>2, <4>1, ZeroIsTile DEF Spinning
      <3> QED
        BY <3>2, <3>3
    <2>3. ASSUME ~up, NEW t \in Tiles PROVE Intact(t) \/ Behind(t)
      <3>1. ~Spinning
        BY <2>3, ZeroIsTile DEF Spinning
      <3> QED
        BY <1>1, <3>1 DEF RoundInv, AnswersSurvive
    <2> QED
      BY <1>1, <1>3, <2>1, <2>2, <2>3 DEF RoundInv, AnswersSurvive, Due
  <1> QED
    BY <1>6, <1>7, <1>8, <1>9, <1>10, <1>11 DEF RoundInv

\* Copy(commsOutBuf, commsInBuf): the n-th payloads of all that made an n-th
\* call are those of the suspended tiles.
LEMMA ExchangeKeepsRoundInv ==
    ASSUME COMMS, TypeOK, CoroutineInv, RoundInv, Exchange
    PROVE  RoundInv'
  <1>1. /\ pc = "comms" /\ pc' = "rt" /\ ran' = {}
        /\ inBuf' = inBuf /\ more' = more /\ round' = round /\ step' = step
        /\ commsInBuf' = commsOutBuf /\ commsOutBuf' = commsOutBuf
        /\ checkpoint_is_live' = checkpoint_is_live /\ coroutineFlag' = coroutineFlag
        /\ doneFlag' = doneFlag /\ repl' = repl /\ handled' = handled
        /\ said' = said /\ printBuf' = printBuf
    BY DEF Exchange, command
  <1>2. \A u \in Tiles : /\ step[u] \in Nat
                         /\ CallsMade(u) = step[u] /\ CallsMade(u)' = step[u] + 1
    BY <1>1, MultireplAssumption DEF CallsMade, Due, TypeOK
  <1>3. WaitingIsFresh' /\ OthersHandleOnce' /\ FirstPassIsFirstCall'
    BY <1>1 DEF RoundInv, WaitingIsFresh, OthersHandleOnce, Waits, FirstPassIsFirstCall
  <1>4. FlagsAreDown' /\ FlagIsOwn'
    BY <1>1 DEF RoundInv, FlagsAreDown, FlagIsOwn, Waits
  <1>5. CodeIsRunOnce' /\ SendBufIsLast'
    BY <1>1 DEF RoundInv, CodeIsRunOnce, SendBufIsLast, InRound, Waits
  <1>6. PassesAreAligned'
    BY <1>1, <1>2 DEF RoundInv, PassesAreAligned
  <1>7. AllToAllCollects'
    <2> SUFFICES ASSUME NEW x \in Tiles, NEW y \in Tiles, checkpoint_is_live[x],
                        step[x] <= step[y]
                 PROVE  commsOutBuf[y] = <<round, step[x]>>
      BY <1>1 DEF AllToAllCollects
    <2>1. checkpoint_is_live[y] /\ step[y] = step[x] /\ step[y] > 0
      BY <1>2 DEF RoundInv, PassesAreAligned
    <2> QED
      BY <2>1 DEF RoundInv, SendBufIsLast
  <1>8. AnswersSurvive'
    <2>1. \A u \in Tiles : Behind(u)' = Behind(u) /\ Intact(u)' = Intact(u)
      BY <1>1 DEF Behind, Intact
    <2>2. Spinning' = Spinning
      BY <1>1 DEF Spinning
    <2> QED
      BY <1>1, <2>1, <2>2 DEF RoundInv, AnswersSurvive, Due
  <1> QED
    BY <1>3, <1>4, <1>5, <1>6, <1>7, <1>8 DEF RoundInv

\* Between rounds nothing is suspended and nothing is counted.
LEMMA BetweenRoundsKeepsRoundInv ==
    ASSUME COMMS, TypeOK, CoroutineInv, RoundInv,
           \/ \E t \in Tiles : InitVertex(t)
           \/ CopyPrintBuf \/ TypeChar \/ Stop
    PROVE  RoundInv'
  <1> USE DEF Waits, Due, InRound
  <1>1. /\ pc' \in {"init", "while", "first", "end"}
        /\ pc' = "first" => ran' = {}
    BY DEF InitVertex, Runs, CopyPrintBuf, TypeChar, Stop
  <1>2. \A t \in Tiles : step'[t] = 0 /\ handled'[t] = 0
    BY DEF InitVertex, Runs, CopyPrintBuf, ForgetCommand, TypeChar, Stop,
           RoundInv, WaitingIsFresh
  <1>3. pc' # "init" => \A t \in Tiles : said'[t] = {}
    BY DEF InitVertex, Runs, CopyPrintBuf, ForgetCommand, TypeChar, Stop,
           RoundInv, WaitingIsFresh
  <1>4. \A t \in Tiles : ~checkpoint_is_live'[t]
    BY DEF InitVertex, Runs, CopyPrintBuf, Finished, RoundOver, TypeChar, Stop,
           CoroutineInv, SuspendedOnlyInRound
  <1>5. \A t \in Tiles : pc' # "init" \/ t \in ran' => ~coroutineFlag'[t]
    <2>1. ASSUME NEW t \in Tiles, InitVertex(t)
          PROVE  \A u \in Tiles : u \in ran' => ~coroutineFlag'[u]
      BY <2>1 DEF InitVertex, Runs, RoundInv, FlagsAreDown, TypeOK
    <2>2. CASE CopyPrintBuf \/ TypeChar \/ Stop
      BY <2>2 DEF CopyPrintBuf, Finished, RoundOver, TypeChar, Stop,
                  RoundInv, FlagsAreDown
    <2> QED
      BY <2>1, <2>2 DEF InitVertex, Runs
  <1>6. WaitingIsFresh' /\ OthersHandleOnce'
    BY <1>1, <1>2, <1>3 DEF WaitingIsFresh, OthersHandleOnce
  <1>7. FlagsAreDown' /\ FlagIsOwn'
    BY <1>1, <1>5, ZeroIsTile DEF FlagsAreDown, FlagIsOwn
  <1>8. CodeIsRunOnce' /\ AllToAllCollects'
    BY <1>1 DEF CodeIsRunOnce, AllToAllCollects
  <1>9. FirstPassIsFirstCall' /\ PassesAreAligned' /\ SendBufIsLast'
    BY <1>1, <1>2, <1>4 DEF FirstPassIsFirstCall, PassesAreAligned, SendBufIsLast
  <1>10. AnswersSurvive'
    BY <1>1, <1>4 DEF AnswersSurvive
  <1> QED
    BY <1>6, <1>7, <1>8, <1>9, <1>10 DEF RoundInv

LEMMA RoundInvStep ==
    ASSUME COMMS, TypeOK, CoroutineInv, RoundInv, [Next]_vars
    PROVE  RoundInv'
  <1>1. ASSUME NEW t \in Tiles, NEW v \in Variants, RuntimeVertex(v, t)
        PROVE  RoundInv'
    <2>1. CASE ResumeAndYield(t)
      BY <2>1, ResumeAndYieldKeepsRoundInv
    <2>2. CASE \/ ResumeAndFinish(t) \/ HandleNul(v, t)
               \/ HandleKey(v, t) \/ HandleAndFinish(v, t)
      BY <2>2, ReturningVertexAnswers, AnswersKeepsRoundInv
    <2>3. CASE Idle(v, t)
      BY <2>3, IdleKeepsRoundInv
    <2>4. CASE HandleAndYield(v, t)
      BY <2>4, HandleAndYieldKeepsRoundInv
    <2> QED
      BY <1>1, <2>1, <2>2, <2>3, <2>4 DEF RuntimeVertex
  <1>2. CASE UNCHANGED vars
    <2> USE <1>2 DEF vars, control, command
    <2>1. WaitingIsFresh' /\ FlagsAreDown' /\ FlagIsOwn' /\ CodeIsRunOnce'
      BY DEF RoundInv, WaitingIsFresh, FlagsAreDown, FlagIsOwn, CodeIsRunOnce,
             Waits, InRound
    <2>2. PassesAreAligned' /\ FirstPassIsFirstCall' /\ SendBufIsLast'
      BY DEF RoundInv, PassesAreAligned, FirstPassIsFirstCall, SendBufIsLast,
             CallsMade, Due
    <2>3. AllToAllCollects' /\ OthersHandleOnce'
      BY DEF RoundInv, AllToAllCollects, OthersHandleOnce
    <2>4. AnswersSurvive'
      BY DEF RoundInv, AnswersSurvive, Due, Behind, Spinning, Intact
    <2> QED
      BY <2>1, <2>2, <2>3, <2>4 DEF RoundInv
  <1> QED
    BY <1>1, <1>2, BetweenRoundsKeepsRoundInv, AnyKeepsRoundInv, ExchangeKeepsRoundInv
    DEF Next, Device, Vertex, Terminated

LEMMA RoundInvariant ==
    ASSUME COMMS
    PROVE  Spec => []RoundInv
  <1>1. Init => RoundInv
    <2> SUFFICES ASSUME Init PROVE RoundInv
      OBVIOUS
    <2> USE DEF Init
    <2>1. WaitingIsFresh /\ FlagsAreDown /\ FlagIsOwn /\ CodeIsRunOnce
      BY DEF WaitingIsFresh, FlagsAreDown, FlagIsOwn, CodeIsRunOnce, Waits, InRound
    <2>2. PassesAreAligned /\ FirstPassIsFirstCall /\ SendBufIsLast
      BY DEF PassesAreAligned, FirstPassIsFirstCall, SendBufIsLast
    <2>3. AllToAllCollects /\ OthersHandleOnce /\ AnswersSurvive
      BY DEF AllToAllCollects, OthersHandleOnce, AnswersSurvive, Due
    <2> QED
      BY <2>1, <2>2, <2>3 DEF RoundInv
  <1>2. TypeOK /\ CoroutineInv /\ RoundInv /\ [Next]_vars => RoundInv'
    BY RoundInvStep
  <1> QED
    BY <1>1, <1>2, TypeCorrect, CoroutineInvariant, PTL DEF Spec

\* alltoall is a collective for any number of tiles, in any interleaving of
\* their vertices and whatever number of calls each of them makes: the n-th
\* call returns the payloads of the n-th calls.
THEOREM AllToAllIsCollective ==
    ASSUME COMMS
    PROVE  Spec => []AllToAllCollects
  <1>1. RoundInv => AllToAllCollects
    BY DEF RoundInv
  <1> QED
    BY <1>1, RoundInvariant, PTL

\* Any raises flag 0 alone, so no tile but tile 0 is ever made to handle the
\* character again, however many passes the coroutines of the others take.
THEOREM OnlyTileZeroHandlesAgain ==
    ASSUME COMMS
    PROVE  Spec => []OthersHandleOnce
  <1>1. RoundInv => OthersHandleOnce
    BY DEF RoundInv
  <1> QED
    BY <1>1, RoundInvariant, PTL

\* The passes that empty the buffers of the tiles that finished early never
\* empty that of a tile whose command calls alltoall most often.
THEOREM LastAnswersReachHost ==
    ASSUME COMMS
    PROVE  Spec => []LastResponsesDelivered
  <1>1. TypeOK /\ RoundInv => LastResponsesDelivered
    <2> SUFFICES ASSUME TypeOK, RoundInv, pc = "print", NEW t \in Tiles,
                        \A u \in Tiles : step[u] <= step[t]
                 PROVE  printBuf[t] = said[t]
      BY DEF LastResponsesDelivered, RoundOver
    <2>1. \A u \in Tiles : step[u] \in Nat
      BY MultireplAssumption DEF TypeOK
    <2>2. ~Behind(t)
      BY <2>1 DEF Behind
    <2> QED
      BY <2>2 DEF RoundInv, AnswersSurvive, Intact
  <1> QED
    BY <1>1, TypeCorrect, RoundInvariant, PTL

-----------------------------------------------------------------------------
(***************************************************************************)
(* When all tiles run the same command, as in the examples of the          *)
(* repository: each character is handled once by every tile, every answer  *)
(* reaches the host, the tiles stay in step, and the multi-REPL is one     *)
(* REPL to its user.                                                       *)
(***************************************************************************)

(***************************************************************************)
(* Vertices are deterministic.  What RuntimeVertex<true> makes of a tile   *)
(* that is at a prompt with the REPL s, and what RuntimeVertex<false>      *)
(* makes of a tile suspended at its k-th yield: the new REPL r, whether    *)
(* the tile is done, whether it is suspended.                              *)
(***************************************************************************)
FirstMakes(r, done, live, s, yields) ==
    LET p == ProcessChar(s, inBuf, more[0]) IN
    \/ inBuf = "nul" /\ done /\ ~live /\ r = s
    \/ /\ inBuf # "nul" /\ p.does \in {"return", "exit"}
       /\ (done <=> p.does = "exit") /\ ~live /\ r = p.repl
    \/ /\ inBuf # "nul" /\ p.does = "exec"
       /\ s.line = <<>> \/ yields = 0
       /\ ~done /\ ~live /\ r = Executed(s)
    \/ /\ inBuf # "nul" /\ p.does = "exec"
       /\ s.line # <<>> /\ yields # 0
       /\ ~done /\ live /\ r = s

RtMakes(r, done, live, s, k, yields) ==
    /\ ~done
    /\ k < yields => live /\ r = s
    /\ ~(k < yields) => ~live /\ r = Executed(s)

\* Every tile runs the same command, of the same text.
CommandIsCommon ==
    \A t, u \in Tiles : script[t] = script[u] /\ more[t] = more[u]

\* No tile has exited when a character is typed, and no tile has anything
\* else to do in a later pass than to go on with its coroutine.
NobodyIdles ==
    \A t \in Tiles :
        /\ Waits(t) => ~doneFlag[t]
        /\ pc = "comms" \/ Due(t) => checkpoint_is_live[t]
        /\ pc = "rt" => ~doneFlag[t]

\* Tiles that are as far as each other are in the same state ...
Peers(t, u) ==
    CASE pc = "init" -> t \in ran /\ u \in ran
      [] pc \in {"first", "rt"} -> t \in ran <=> u \in ran
      [] OTHER -> TRUE

PeersAgree ==
    \A t, u \in Tiles : Peers(t, u) =>
        /\ repl[t] = repl[u]
        /\ doneFlag[t] = doneFlag[u]
        /\ checkpoint_is_live[t] = checkpoint_is_live[u]

\* ... and a tile that has run is what the vertex makes of one that has not.
RanIsAhead ==
    \A t, u \in Tiles : t \in ran /\ u \notin ran =>
        /\ pc = "first" => FirstMakes(repl[t], doneFlag[t], checkpoint_is_live[t],
                                      repl[u], script[u])
        /\ pc = "rt" => RtMakes(repl[t], doneFlag[t], checkpoint_is_live[t],
                                repl[u], step[u], script[u])

\* A tile that has been given the character handles it once, and keeps all it
\* writes about it.
AnswersOnce ==
    \A t \in Tiles : InRound /\ ~Waits(t) => handled[t] = 1 /\ Intact(t)

\* Out of a round no command is known; at the start REPLs are new and
\* InitVertex has lowered doneFlag.
NoCommand ==
    /\ pc \in {"init", "while", "end"} => script = [t \in Tiles |-> 0]
    /\ pc = "init" => \A t \in Tiles : repl[t] = EventReplInit
                                       /\ (t \in ran => ~doneFlag[t])

SpmdInv ==
    /\ CommandIsCommon
    /\ NobodyIdles
    /\ PeersAgree
    /\ RanIsAhead
    /\ AnswersOnce
    /\ NoCommand

LEMMA FirstIsDeterministic ==
    ASSUME NEW s, NEW n, NEW r1, NEW r2,
           NEW d1 \in BOOLEAN, NEW d2 \in BOOLEAN,
           NEW l1 \in BOOLEAN, NEW l2 \in BOOLEAN,
           FirstMakes(r1, d1, l1, s, n), FirstMakes(r2, d2, l2, s, n)
    PROVE  r1 = r2 /\ d1 = d2 /\ l1 = l2
  BY DEF FirstMakes

LEMMA RtIsDeterministic ==
    ASSUME NEW s, NEW k, NEW n, NEW r1, NEW r2,
           NEW d1 \in BOOLEAN, NEW d2 \in BOOLEAN,
           NEW l1 \in BOOLEAN, NEW l2 \in BOOLEAN,
           RtMakes(r1, d1, l1, s, k, n), RtMakes(r2, d2, l2, s, k, n)
    PROVE  r1 = r2 /\ d1 = d2 /\ l1 = l2
  BY DEF RtMakes

\* What a vertex does to its tile and leaves of the others.
RunsOnce(t) ==
    /\ pc \in {"first", "rt"} /\ pc' = pc
    /\ t \notin ran /\ ran' = ran \cup {t}
    /\ UNCHANGED <<inBuf, more, script>>
    /\ \A u \in Tiles \ {t} :
           /\ repl'[u] = repl[u] /\ doneFlag'[u] = doneFlag[u]
           /\ checkpoint_is_live'[u] = checkpoint_is_live[u]
           /\ step'[u] = step[u] /\ handled'[u] = handled[u]
           /\ printBuf'[u] = printBuf[u] /\ said'[u] = said[u]
    /\ pc = "first" => FirstMakes(repl'[t], doneFlag'[t], checkpoint_is_live'[t],
                                  repl[t], script[t])
    /\ pc = "rt" => RtMakes(repl'[t], doneFlag'[t], checkpoint_is_live'[t],
                            repl[t], step[t], script[t])
    /\ handled'[t] = 1
    /\ Intact(t)'

\* When all tiles run the same command, a vertex either handles the character
\* in the first pass or resumes its coroutine in a later one.
LEMMA SpmdVertex ==
    ASSUME COMMS, TypeOK, CoroutineInv, RoundInv, SpmdInv,
           NEW t \in Tiles, NEW v \in Variants, RuntimeVertex(v, t)
    PROVE  RunsOnce(t)
  <1> USE DEF TypeOK, Runs, command, Variants, Prints, Intact
  <1>0. \A u \in Tiles : script[u] \in Nat /\ step[u] \in Nat
    BY MultireplAssumption
  <1>1. ASSUME pc = "rt", t \notin ran
        PROVE  /\ checkpoint_is_live[t] /\ ~doneFlag[t]
               /\ handled[t] = 1 /\ Intact(t)
    BY <1>1 DEF SpmdInv, NobodyIdles, AnswersOnce, Due, InRound, Waits,
                CoroutineInv, SuspendedIsNotDone
  <1>2. ASSUME pc = "first", t \notin ran
        PROVE  /\ ~doneFlag[t] /\ handled[t] = 0 /\ step[t] = 0 /\ said[t] = {}
    BY <1>2 DEF SpmdInv, NobodyIdles, Waits, RoundInv, WaitingIsFresh
  <1>3. ASSUME Enters(v, t)
        PROVE  pc = "first" /\ pc' = pc /\ t \notin ran /\ ran' = ran \cup {t}
    BY <1>1, <1>3 DEF Enters
  <1>4. ASSUME Handles(v, t)
        PROVE  /\ pc = "first" /\ pc' = pc /\ t \notin ran /\ ran' = ran \cup {t}
               /\ UNCHANGED <<inBuf, more, script>>
               /\ handled'[t] = 1
               /\ \A u \in Tiles \ {t} : handled'[u] = handled[u]
    BY <1>2, <1>3, <1>4 DEF Handles
  <1>4a. more[t] = more[0]
    BY ZeroIsTile DEF SpmdInv, CommandIsCommon
  <1>5. CASE v = "rt" /\ ResumeAndYield(t)
    <2>1. ~doneFlag'[t] /\ checkpoint_is_live'[t] /\ repl'[t] = repl[t]
          /\ step[t] < script[t] /\ pc = "rt" /\ t \notin ran
      BY <1>1, <1>5 DEF ResumeAndYield, LongYield
    <2>2. Intact(t)'
      BY <1>1, <1>5, <2>1 DEF ResumeAndYield
    <2> QED
      BY <1>1, <1>5, <2>1, <2>2 DEF ResumeAndYield, LongYield, RunsOnce, RtMakes
  <1>6. CASE v = "rt" /\ ResumeAndFinish(t)
    <2>1. ~doneFlag'[t] /\ ~checkpoint_is_live'[t] /\ repl'[t] = Executed(repl[t])
          /\ step[t] = script[t] /\ pc = "rt" /\ t \notin ran
      BY <1>6 DEF ResumeAndFinish, HandlerReturns
    <2>2. Intact(t)'
      BY <1>1, <1>6, <2>1 DEF ResumeAndFinish
    <2>3. RtMakes(repl'[t], doneFlag'[t], checkpoint_is_live'[t],
                  repl[t], step[t], script[t])
      BY <1>0, <2>1 DEF RtMakes
    <2> QED
      BY <1>1, <1>6, <2>1, <2>2, <2>3 DEF ResumeAndFinish, HandlerReturns, RunsOnce
  <1>7. CASE Idle(v, t)
    BY <1>2, <1>3, <1>7 DEF Idle, Enters, ReturnsEarly
  <1>8. CASE HandleNul(v, t)
    <2>1. Handles(v, t) /\ doneFlag'[t] /\ ~checkpoint_is_live'[t] /\ repl' = repl
          /\ inBuf = "nul"
      BY <1>8 DEF HandleNul, HandlerReturns
    <2>2. FirstMakes(repl'[t], doneFlag'[t], checkpoint_is_live'[t], repl[t], script[t])
      BY <2>1 DEF FirstMakes
    <2>3. Intact(t)'
      BY <1>2, <1>4, <1>8, <2>1 DEF HandleNul
    <2> QED
      BY <1>4, <1>8, <2>1, <2>2, <2>3 DEF HandleNul, HandlerReturns, RunsOnce
  <1>9. CASE HandleKey(v, t)
    <2> DEFINE p == ProcessChar(repl[t], inBuf, more[t])
    <2>1. /\ Handles(v, t) /\ HandlerReturns(t, p.does = "exit")
          /\ Prints(t, TRUE, {Echo}) /\ repl' = [repl EXCEPT ![t] = p.repl]
          /\ inBuf # "nul" /\ p.does \in {"return", "exit"}
      BY <1>9 DEF HandleKey
    <2> HIDE DEF p
    <2>2. /\ doneFlag'[t] <=> p.does = "exit"
          /\ ~checkpoint_is_live'[t] /\ repl'[t] = p.repl
      BY <2>1 DEF HandlerReturns
    <2>3. FirstMakes(repl'[t], doneFlag'[t], checkpoint_is_live'[t], repl[t], script[t])
      BY <1>4a, <2>1, <2>2 DEF FirstMakes, p
    <2>4. Intact(t)'
      BY <1>2, <1>4, <2>1
    <2> QED
      BY <1>4, <2>1, <2>3, <2>4 DEF HandlerReturns, RunsOnce
  <1>10. CASE HandleAndFinish(v, t)
    <2>1. /\ Handles(v, t) /\ HandlerReturns(t, FALSE)
          /\ repl' = [repl EXCEPT ![t] = Executed(@)]
          /\ Executes(t, inBuf, more[t]) /\ (HasCode(t) => step[t] = script[t])
      BY <1>10 DEF HandleAndFinish
    <2>2. ~doneFlag'[t] /\ ~checkpoint_is_live'[t] /\ repl'[t] = Executed(repl[t])
      BY <2>1 DEF HandlerReturns
    <2>3. FirstMakes(repl'[t], doneFlag'[t], checkpoint_is_live'[t], repl[t], script[t])
      BY <1>4a, <1>2, <1>4, <2>1, <2>2 DEF FirstMakes, Executes, HasCode
    <2>4. Intact(t)' /\ \A u \in Tiles \ {t} : printBuf'[u] = printBuf[u]
                                               /\ said'[u] = said[u]
      BY <1>2, <1>4, <1>10, <2>1 DEF HandleAndFinish
    <2> QED
      BY <1>4, <2>1, <2>3, <2>4 DEF HandlerReturns, RunsOnce
  <1>11. CASE HandleAndYield(v, t)
    <2>1. /\ Handles(v, t) /\ LongYield(t, v) /\ repl' = repl
          /\ Executes(t, inBuf, more[t]) /\ HasCode(t)
      BY <1>11 DEF HandleAndYield
    <2>2. ~doneFlag'[t] /\ checkpoint_is_live'[t] /\ script[t] # 0
      BY <1>0, <1>2, <1>4, <2>1 DEF LongYield
    <2>3. FirstMakes(repl'[t], doneFlag'[t], checkpoint_is_live'[t], repl[t], script[t])
      BY <1>4a, <2>1, <2>2 DEF FirstMakes, Executes, HasCode
    <2>4. Intact(t)' /\ \A u \in Tiles \ {t} : printBuf'[u] = printBuf[u]
                                               /\ said'[u] = said[u]
      BY <1>2, <1>4, <1>11, <2>1 DEF HandleAndYield
    <2> QED
      BY <1>4, <2>1, <2>3, <2>4 DEF LongYield, RunsOnce
  <1> QED
    BY <1>5, <1>6, <1>7, <1>8, <1>9, <1>10, <1>11 DEF RuntimeVertex

LEMMA RunsOnceKeepsSpmdInv ==
    ASSUME COMMS, TypeOK, TypeOK', CoroutineInv, RoundInv, SpmdInv,
           NEW t \in Tiles, RunsOnce(t)
    PROVE  SpmdInv'
  <1>1. /\ pc \in {"first", "rt"} /\ pc' = pc
        /\ t \notin ran /\ ran' = ran \cup {t}
        /\ inBuf' = inBuf /\ more' = more /\ script' = script
    BY DEF RunsOnce
  <1>2. \A u \in Tiles \ {t} :
            /\ repl'[u] = repl[u] /\ doneFlag'[u] = doneFlag[u]
            /\ checkpoint_is_live'[u] = checkpoint_is_live[u]
            /\ step'[u] = step[u] /\ handled'[u] = handled[u]
            /\ Intact(u)' = Intact(u)
    BY DEF RunsOnce, Intact
  <1>3. \A u \in Tiles : /\ doneFlag[u] \in BOOLEAN /\ doneFlag'[u] \in BOOLEAN
                         /\ checkpoint_is_live[u] \in BOOLEAN
                         /\ checkpoint_is_live'[u] \in BOOLEAN
    BY DEF TypeOK
  \* All tiles still to be run are in the state of t.
  <1>4. ASSUME NEW u \in Tiles, u \notin ran
        PROVE  repl[u] = repl[t] /\ script[u] = script[t]
               /\ (pc = "rt" => step[u] = step[t])
    <2>1. repl[u] = repl[t]
      BY <1>1, <1>4 DEF SpmdInv, PeersAgree, Peers
    <2>2. script[u] = script[t]
      BY DEF SpmdInv, CommandIsCommon
    <2>3. ASSUME pc = "rt" PROVE step[u] = step[t]
      <3>1. checkpoint_is_live[t] /\ checkpoint_is_live[u]
        BY <1>1, <1>4, <2>3 DEF SpmdInv, NobodyIdles, Due
      <3>2. CallsMade(u) = step[u] + 1 /\ CallsMade(t) = step[t] + 1
        BY <1>1, <1>4, <2>3 DEF CallsMade, Due
      <3>3. CallsMade(u) = CallsMade(t)
        BY <3>1 DEF RoundInv, PassesAreAligned
      <3>4. step[u] \in Nat /\ step[t] \in Nat
        BY MultireplAssumption DEF TypeOK
      <3> QED
        BY <3>2, <3>3, <3>4
    <2> QED
      BY <2>1, <2>2, <2>3
  \* The tiles that have run are in the state t is now in.
  <1>5. ASSUME NEW u \in ran, u \in Tiles
        PROVE  /\ repl[u] = repl'[t] /\ doneFlag[u] = doneFlag'[t]
               /\ checkpoint_is_live[u] = checkpoint_is_live'[t]
    <2>1. CASE pc = "first"
      <3>1. FirstMakes(repl[u], doneFlag[u], checkpoint_is_live[u], repl[t], script[t])
        BY <1>1, <1>5, <2>1 DEF SpmdInv, RanIsAhead
      <3>2. FirstMakes(repl'[t], doneFlag'[t], checkpoint_is_live'[t], repl[t], script[t])
        BY <2>1 DEF RunsOnce
      <3> QED
        BY <1>3, <1>5, <3>1, <3>2, FirstIsDeterministic
    <2>2. CASE pc = "rt"
      <3>1. RtMakes(repl[u], doneFlag[u], checkpoint_is_live[u],
                    repl[t], step[t], script[t])
        BY <1>1, <1>5, <2>2 DEF SpmdInv, RanIsAhead
      <3>2. RtMakes(repl'[t], doneFlag'[t], checkpoint_is_live'[t],
                    repl[t], step[t], script[t])
        BY <2>2 DEF RunsOnce
      <3> QED
        BY <1>3, <1>5, <3>1, <3>2, RtIsDeterministic
    <2> QED
      BY <1>1, <2>1, <2>2
  <1>6. CommandIsCommon' /\ NoCommand'
    BY <1>1 DEF SpmdInv, CommandIsCommon, NoCommand
  <1>7. NobodyIdles'
    BY <1>1, <1>2 DEF SpmdInv, NobodyIdles, Waits, Due, RunsOnce, RtMakes
  <1>8. PeersAgree'
    <2> SUFFICES ASSUME NEW x \in Tiles, NEW y \in Tiles, Peers(x, y)'
                 PROVE  /\ repl'[x] = repl'[y] /\ doneFlag'[x] = doneFlag'[y]
                        /\ checkpoint_is_live'[x] = checkpoint_is_live'[y]
      BY DEF PeersAgree
    <2>1. x \in ran \cup {t} <=> y \in ran \cup {t}
      BY <1>1 DEF Peers
    <2>2. CASE x # t /\ y # t
      <3>1. Peers(x, y)
        BY <1>1, <2>1, <2>2 DEF Peers
      <3> QED
        BY <1>2, <2>2, <3>1 DEF SpmdInv, PeersAgree
    <2>3. CASE x = t \/ y = t
      BY <1>2, <1>5, <2>1, <2>3
    <2> QED
      BY <2>2, <2>3
  <1>9. RanIsAhead'
    <2> DEFINE First(x, y) == FirstMakes(repl[x], doneFlag[x], checkpoint_is_live[x],
                                         repl[y], script[y])
               Rt(x, y) == RtMakes(repl[x], doneFlag[x], checkpoint_is_live[x],
                                   repl[y], step[y], script[y])
    <2> SUFFICES ASSUME NEW x \in Tiles, NEW y \in Tiles, x \in ran', y \notin ran'
                 PROVE  (pc = "first" => First(x, y)') /\ (pc = "rt" => Rt(x, y)')
      BY <1>1 DEF RanIsAhead
    <2>1. /\ y # t /\ y \notin ran /\ repl'[y] = repl[y] /\ step'[y] = step[y]
          /\ script' = script /\ inBuf' = inBuf /\ more' = more
      BY <1>1, <1>2
    <2>2. CASE x # t
      <3>1. /\ repl'[x] = repl[x] /\ doneFlag'[x] = doneFlag[x]
            /\ checkpoint_is_live'[x] = checkpoint_is_live[x]
        BY <1>2, <2>2
      <3>2. (pc = "first" => First(x, y)) /\ (pc = "rt" => Rt(x, y))
        BY <1>1, <2>1, <2>2 DEF SpmdInv, RanIsAhead
      <3>3. First(x, y)' = First(x, y)
        BY <2>1, <3>1 DEF FirstMakes
      <3>4. Rt(x, y)' = Rt(x, y)
        BY <2>1, <3>1
      <3> QED
        BY <3>2, <3>3, <3>4
    <2>3. CASE x = t
      <3>1. /\ repl[y] = repl[t] /\ script[y] = script[t]
            /\ pc = "rt" => step[y] = step[t]
        BY <1>4, <2>1
      <3>2. pc = "first" => First(x, y)'
        BY <2>1, <2>3, <3>1 DEF RunsOnce, FirstMakes
      <3>3. pc = "rt" => Rt(x, y)'
        BY <2>1, <2>3, <3>1 DEF RunsOnce
      <3> QED
        BY <3>2, <3>3
    <2> QED
      BY <2>2, <2>3
  <1>10. AnswersOnce'
    BY <1>1, <1>2 DEF SpmdInv, AnswersOnce, InRound, Waits, RunsOnce
  <1> QED
    BY <1>6, <1>7, <1>8, <1>9, <1>10 DEF SpmdInv

\* The control program's own steps: a compute set is over when all tiles are
\* peers again, and then all of them are suspended or none is.
LEMMA ControlKeepsSpmdInv ==
    ASSUME COMMS, ~Divergent, TypeOK, TypeOK', CoroutineInv, RoundInv, SpmdInv,
           \/ \E t \in Tiles : InitVertex(t)
           \/ CopyPrintBuf \/ TypeChar \/ Stop \/ Any \/ Exchange
    PROVE  SpmdInv'
  <1> USE DEF Waits, Due, InRound, Peers
  <1>1. ASSUME NEW t \in Tiles, InitVertex(t) PROVE SpmdInv'
    <2>1. /\ pc = "init" /\ pc' = "init" /\ script' = script /\ more' = more
          /\ checkpoint_is_live' = checkpoint_is_live /\ ran' = ran \cup {t}
          /\ doneFlag' = [doneFlag EXCEPT ![t] = FALSE]
          /\ repl' = [repl EXCEPT ![t] = EventReplInit]
      BY <1>1 DEF InitVertex, Runs, command
    <2>2. \A u \in Tiles : ~checkpoint_is_live[u]
      BY <2>1 DEF CoroutineInv, SuspendedOnlyInRound
    <2>3. NoCommand'
      BY <2>1 DEF SpmdInv, NoCommand, TypeOK
    <2>4. \A u \in ran' : ~doneFlag'[u]
      BY <2>1 DEF SpmdInv, NoCommand, TypeOK
    <2>5. PeersAgree'
      <3> SUFFICES ASSUME NEW x \in Tiles, NEW y \in Tiles, x \in ran', y \in ran'
                   PROVE  /\ repl'[x] = repl'[y] /\ doneFlag'[x] = doneFlag'[y]
                          /\ checkpoint_is_live'[x] = checkpoint_is_live'[y]
        BY <2>1 DEF PeersAgree
      <3>1. repl'[x] = repl'[y]
        BY <2>1, <2>3 DEF NoCommand
      <3>2. doneFlag'[x] = FALSE /\ doneFlag'[y] = FALSE
        BY <2>4 DEF TypeOK
      <3>3. checkpoint_is_live'[x] = FALSE /\ checkpoint_is_live'[y] = FALSE
        BY <2>1, <2>2 DEF TypeOK
      <3> QED
        BY <3>1, <3>2, <3>3
    <2> QED
      BY <2>1, <2>3, <2>5 DEF SpmdInv, CommandIsCommon, NobodyIdles, RanIsAhead, AnswersOnce
  <1>2. CASE CopyPrintBuf
    <2>1. /\ pc \in {"init", "print"} /\ (pc = "init" => ran = Tiles) /\ pc' = "while"
          /\ repl' = repl /\ doneFlag' = doneFlag
          /\ checkpoint_is_live' = checkpoint_is_live
          /\ script' = [t \in Tiles |-> 0] /\ more' = [t \in Tiles |-> FALSE]
      BY <1>2 DEF CopyPrintBuf, Finished, RoundOver, ForgetCommand
    <2> QED
      BY <2>1 DEF SpmdInv, CommandIsCommon, NobodyIdles, PeersAgree, RanIsAhead,
                  AnswersOnce, NoCommand
  <1>3. CASE TypeChar
    <2>1. /\ pc = "while" /\ ~doneFlag[0] /\ pc' = "first" /\ ran' = {}
          /\ repl' = repl /\ doneFlag' = doneFlag
          /\ checkpoint_is_live' = checkpoint_is_live
          /\ script' \in Scripts \/ script' = script
      BY <1>3 DEF TypeChar
    <2>2. CommandIsCommon'
      <3>0. \A t, u \in Tiles : more'[t] = more'[u]
        BY <1>3 DEF TypeChar, Mores
      <3>1. CASE script' \in Scripts
        BY <3>0, <3>1 DEF Scripts, CommandIsCommon
      <3>2. CASE script' = script
        BY <3>0, <3>2 DEF SpmdInv, CommandIsCommon
      <3> QED
        BY <2>1, <3>1, <3>2
    <2>3. \A t \in Tiles : ~doneFlag[t]
      BY <2>1, ZeroIsTile DEF SpmdInv, PeersAgree
    <2> QED
      BY <2>1, <2>2, <2>3 DEF SpmdInv, NobodyIdles, PeersAgree, RanIsAhead,
                              AnswersOnce, NoCommand
  <1>4. CASE Stop
    <2>1. /\ pc = "while" /\ pc' = "end" /\ script' = script /\ more' = more
          /\ repl' = repl /\ doneFlag' = doneFlag
          /\ checkpoint_is_live' = checkpoint_is_live
      BY <1>4 DEF Stop, command
    <2> QED
      BY <2>1 DEF SpmdInv, CommandIsCommon, NobodyIdles, PeersAgree, RanIsAhead,
                  AnswersOnce, NoCommand
  <1>5. CASE Any
    <2>1. /\ pc \in {"first", "rt"} /\ ran = Tiles /\ ran' = ran
          /\ script' = script /\ more' = more
          /\ repl' = repl /\ doneFlag' = doneFlag /\ handled' = handled
          /\ checkpoint_is_live' = checkpoint_is_live
          /\ printBuf' = printBuf /\ said' = said
      BY <1>5 DEF Any, Finished, command
    <2>2. pc' = IF \E t \in Tiles : coroutineFlag[t] THEN "comms" ELSE "print"
      BY <1>5, ZeroIsTile DEF Any, TypeOK
    <2>3. ASSUME NEW t \in Tiles, coroutineFlag[t] PROVE \A u \in Tiles : checkpoint_is_live[u]
      <3>1. \A u \in Tiles : /\ checkpoint_is_live[u] = checkpoint_is_live[t]
                             /\ doneFlag[u] = doneFlag[t]
        BY <2>1 DEF SpmdInv, PeersAgree
      <3>2. CASE t # 0
        BY <2>1, <2>3, <3>1, <3>2 DEF RoundInv, FlagIsOwn
      <3>3. CASE t = 0
        BY <2>1, <2>3, <3>1, <3>3 DEF RoundInv, FlagIsOwn, SpmdInv, NobodyIdles
      <3> QED
        BY <3>2, <3>3
    <2>4. AnswersOnce'
      BY <2>1, <2>2 DEF SpmdInv, AnswersOnce, Intact
    <2> QED
      BY <2>1, <2>2, <2>3, <2>4 DEF SpmdInv, CommandIsCommon, NobodyIdles, PeersAgree,
                                    RanIsAhead, NoCommand
  <1>6. CASE Exchange
    <2>1. /\ pc = "comms" /\ pc' = "rt" /\ ran' = {}
          /\ script' = script /\ more' = more
          /\ repl' = repl /\ doneFlag' = doneFlag /\ handled' = handled
          /\ checkpoint_is_live' = checkpoint_is_live
          /\ printBuf' = printBuf /\ said' = said
      BY <1>6 DEF Exchange, command
    <2>2. AnswersOnce'
      BY <2>1 DEF SpmdInv, AnswersOnce, Intact
    <2>3. \A t \in Tiles : checkpoint_is_live[t] /\ ~doneFlag[t]
      BY <2>1 DEF SpmdInv, NobodyIdles, CoroutineInv, SuspendedIsNotDone
    <2> QED
      BY <2>1, <2>2, <2>3 DEF SpmdInv, CommandIsCommon, NobodyIdles, PeersAgree, RanIsAhead,
                        NoCommand
  <1> QED
    BY <1>1, <1>2, <1>3, <1>4, <1>5, <1>6

LEMMA SpmdInvariant ==
    ASSUME COMMS, ~Divergent
    PROVE  Spec => []SpmdInv
  <1>1. Init => SpmdInv
    <2> SUFFICES ASSUME Init PROVE SpmdInv
      OBVIOUS
    <2> USE DEF Init
    <2>1. CommandIsCommon /\ NobodyIdles /\ NoCommand
      BY DEF CommandIsCommon, NobodyIdles, NoCommand, Waits, Due
    <2>2. PeersAgree /\ RanIsAhead /\ AnswersOnce
      BY DEF PeersAgree, Peers, RanIsAhead, AnswersOnce, InRound
    <2> QED
      BY <2>1, <2>2 DEF SpmdInv
  <1>2. ASSUME TypeOK, TypeOK', CoroutineInv, RoundInv, SpmdInv, [Next]_vars
        PROVE  SpmdInv'
    <2>1. ASSUME NEW t \in Tiles, NEW v \in Variants, RuntimeVertex(v, t)
          PROVE  SpmdInv'
      BY <1>2, <2>1, SpmdVertex, RunsOnceKeepsSpmdInv
    <2>2. CASE UNCHANGED vars
      <3> USE <1>2, <2>2 DEF vars, control, command, SpmdInv
      <3>1. CommandIsCommon' /\ NobodyIdles' /\ NoCommand'
        BY DEF CommandIsCommon, NobodyIdles, NoCommand, Waits, Due
      <3>2. PeersAgree' /\ AnswersOnce'
        BY DEF PeersAgree, Peers, AnswersOnce, InRound, Waits, Intact
      <3>3. RanIsAhead'
        BY DEF RanIsAhead, FirstMakes
      <3> QED
        BY <3>1, <3>2, <3>3
    <2> QED
      BY <1>2, <2>1, <2>2, ControlKeepsSpmdInv DEF Next, Device, Vertex, Terminated
  <1> QED
    BY <1>1, <1>2, TypeCorrect, CoroutineInvariant, RoundInvariant, PTL DEF Spec

\* When all tiles run the same command the REPLs stay interchangeable: same
\* mode, same pending text, although each was driven by its own passes.
THEOREM TilesStayInLockstep ==
    ASSUME COMMS, ~Divergent
    PROVE  Spec => []Lockstep
  <1>1. SpmdInv => Lockstep
    BY ZeroIsTile DEF SpmdInv, PeersAgree, Peers, Lockstep
  <1> QED
    BY <1>1, SpmdInvariant, PTL

\* The session ends on tile 0's flag alone, and yet no tile is left deaf.
THEOREM NoTileIsDeaf ==
    ASSUME COMMS, ~Divergent
    PROVE  Spec => []NoDeafTile
  <1>1. SpmdInv => NoDeafTile
    BY ZeroIsTile DEF SpmdInv, PeersAgree, Peers, NoDeafTile
  <1> QED
    BY <1>1, SpmdInvariant, PTL

-----------------------------------------------------------------------------
(***************************************************************************)
(* Without COMMS there is one pass: what the tiles run does not matter.    *)
(***************************************************************************)
OnePassInv ==
    /\ pc \notin {"comms", "rt", "print"}
    /\ \A t \in Tiles :
           /\ pc \in {"while", "end"} \/ Waits(t) => said[t] = {}
           /\ pc = "first" /\ t \in ran => Intact(t)

LEMMA OnePassInvariant ==
    ASSUME ~COMMS
    PROVE  Spec => []OnePassInv
  <1> USE DEF Waits
  <1>1. Init => OnePassInv
    BY DEF Init, OnePassInv
  <1>2. ASSUME TypeOK, OnePassInv, [Next]_vars PROVE OnePassInv'
    <2> USE <1>2
    <2>1. ASSUME NEW t \in Tiles, InitVertex(t) PROVE OnePassInv'
      BY <2>1 DEF InitVertex, Runs, OnePassInv
    <2>2. ASSUME NEW t \in Tiles, NEW v \in Variants, RuntimeVertex(v, t)
          PROVE  OnePassInv'
      <3>1. /\ pc = "first" /\ pc' = pc /\ t \notin ran /\ ran' = ran \cup {t}
            /\ ~(v = "rt" /\ (ResumeAndYield(t) \/ ResumeAndFinish(t)))
        BY <2>2 DEF OnePassInv, RuntimeVertex, ResumeAndYield, ResumeAndFinish, Idle,
                    HandleNul, HandleKey, HandleAndFinish, HandleAndYield, Handles,
                    Enters, Runs, Variants
      <3>2. \E out : Prints(t, TRUE, out)
        BY <2>2, <3>1 DEF RuntimeVertex, Idle, HandleNul, HandleKey, HandleAndFinish,
                          HandleAndYield
      <3>3. said[t] = {}
        BY <3>1 DEF OnePassInv
      <3>4. /\ Intact(t)'
            /\ \A u \in Tiles \ {t} : Intact(u)' = Intact(u) /\ said'[u] = said[u]
        BY <3>2, <3>3 DEF Prints, Intact, TypeOK
      <3> QED
        BY <3>1, <3>4 DEF OnePassInv
    <2>3. CASE CopyPrintBuf
      BY <2>3 DEF CopyPrintBuf, ForgetCommand, OnePassInv
    <2>4. CASE TypeChar \/ Stop
      BY <2>4 DEF TypeChar, Stop, OnePassInv
    <2>5. CASE Any \/ Exchange
      BY <2>5 DEF Any, Exchange, OnePassInv
    <2>6. CASE UNCHANGED vars
      BY <2>6 DEF vars, control, OnePassInv, Intact
    <2> QED
      BY <2>1, <2>2, <2>3, <2>4, <2>5, <2>6 DEF Next, Device, Vertex, Terminated
  <1> QED
    BY <1>1, <1>2, TypeCorrect, PTL DEF Spec

\* A character is handled at most once by every tile, through all passes, when
\* all of them run the same command.
THEOREM EachCharacterHandledOnce ==
    ASSUME COMMS, ~Divergent
    PROVE  Spec => []HandledOnce
  <1>1. TypeOK /\ RoundInv /\ SpmdInv => HandledOnce
    <2> SUFFICES ASSUME TypeOK, RoundInv, SpmdInv, NEW t \in Tiles PROVE handled[t] <= 1
      BY DEF HandledOnce
    <2> QED
      BY DEF TypeOK, RoundInv, WaitingIsFresh, SpmdInv, AnswersOnce, InRound
  <1> QED
    BY <1>1, TypeCorrect, SpmdInvariant, RoundInvariant, PTL

\* Nothing a tile wrote about a character is missing from what the host
\* receives for it, when all tiles run the same command or without COMMS.
THEOREM EveryResponseReachesHost ==
    ASSUME ~COMMS \/ ~Divergent
    PROVE  Spec => []ResponsesDelivered
  <1>1. CASE ~COMMS
    <2>1. OnePassInv => ResponsesDelivered
      BY <1>1 DEF OnePassInv, ResponsesDelivered, RoundOver, Finished, Intact
    <2> QED
      BY <1>1, <2>1, OnePassInvariant, PTL
  <1>2. CASE COMMS /\ ~Divergent
    <2>1. SpmdInv => ResponsesDelivered
      BY <1>2 DEF SpmdInv, AnswersOnce, InRound, Waits, Intact,
                  ResponsesDelivered, RoundOver
    <2> QED
      BY <1>2, <2>1, SpmdInvariant, PTL
  <1> QED
    BY <1>1, <1>2, MultireplAssumption

-----------------------------------------------------------------------------
(***************************************************************************)
(* CTRL-C.  That raw mode, whose CTRL-C resets the line alone, leaves no   *)
(* statement or paste behind needs what holds of every REPL: it is entered *)
(* at a first line only, and a first line starts at 0.  That nothing can   *)
(* be resumed afterwards needs that a tile that is not done handles the    *)
(* character in the first pass, and that no later pass follows.            *)
(***************************************************************************)
ReplShape(s) ==
    /\ s.mode = "raw" => ~s.cont /\ ~s.paste
    /\ ~s.cont => s.orig = 0

Fresh(s) == s.line = <<>> /\ s.orig = 0 /\ ~s.cont /\ ~s.paste

ReplsAreSound ==
    \A t \in Tiles : ReplShape(repl[t]) /\ (doneFlag[t] \/ repl[t].open)

InterruptIsHandled ==
    inBuf = "ctrlC" =>
        /\ pc \notin {"comms", "rt"}
        /\ \A t \in Tiles :
               pc = "print" \/ (pc = "first" /\ t \in ran) =>
                   \/ doneFlag[t]
                   \/ Fresh(repl[t]) /\ ~checkpoint_is_live[t] /\ ~coroutineFlag[t]

InterruptInv == ReplsAreSound /\ InterruptIsHandled

\* What the handlers make of a line keeps its shape and its buffer.
LEMMA LineOperatorsShape ==
    ASSUME NEW s \in Repl, ReplShape(s), NEW c
    PROVE  /\ ReplShape(AddByte(s, c)) /\ AddByte(s, c).open = s.open
           /\ ReplShape(ResetLine(s)) /\ ResetLine(s).open = s.open
           /\ ReplShape(InputRestart(s)) /\ InputRestart(s).open = s.open
           /\ ReplShape(Executed(s)) /\ Executed(s).open = s.open
           /\ ReplShape(ClearLine(s))
           /\ s.mode = "friendly" =>
                  ReplShape(NoteNewline(s)) /\ NoteNewline(s).open = s.open
  BY DEF ReplShape, AddByte, ResetLine, InputRestart, Executed, ClearLine, NoteNewline, Repl

LEMMA ProcessCharShape ==
    ASSUME NEW s \in Repl, ReplShape(s), NEW c, NEW m
    PROVE  LET p == ProcessChar(s, c, m) IN
           /\ ReplShape(p.repl)
           /\ p.does # "exit" => p.repl.open = s.open
  <1> DEFINE Ok(p) == /\ ReplShape(p.repl)
                      /\ p.does # "exit" => p.repl.open = s.open
  <1> USE DEF Result
  <1>1. Ok(RawProcessChar(s, c))
    <2>1. [s EXCEPT !.mode = "friendly"] \in Repl /\ ReplShape([s EXCEPT !.mode = "friendly"])
          /\ [s EXCEPT !.mode = "friendly"].open = s.open
      BY DEF Repl, ReplShape
    <2>2. /\ ReplShape(InputRestart([s EXCEPT !.mode = "friendly"]))
          /\ InputRestart([s EXCEPT !.mode = "friendly"]).open = s.open
      BY <2>1, LineOperatorsShape
    <2> QED
      BY <2>2, LineOperatorsShape DEF RawProcessChar
  <1>2. Ok(PasteProcessChar(s, c))
    BY LineOperatorsShape DEF PasteProcessChar
  <1>3. ReplShape(ReadlineEdits(s, c)) /\ ReadlineEdits(s, c).open = s.open
    BY LineOperatorsShape DEF ReadlineEdits
  <1>4. s.mode = "friendly" => Ok(EndOfLine(s, m))
    BY LineOperatorsShape DEF EndOfLine
  <1>5. s.mode = "friendly" /\ ~s.cont /\ ~s.paste => Ok(FirstLineChar(s, c, m))
    <2>1. ASSUME s.mode = "friendly", ~s.cont, ~s.paste
          PROVE  /\ ReplShape(ResetLine([s EXCEPT !.mode = "raw"]))
                 /\ ResetLine([s EXCEPT !.mode = "raw"]).open = s.open
                 /\ ReplShape([ResetLine(s) EXCEPT !.paste = TRUE])
                 /\ [ResetLine(s) EXCEPT !.paste = TRUE].open = s.open
      BY <2>1 DEF ReplShape, ResetLine, Repl
    <2> QED
      BY <1>3, <1>4, <2>1, LineOperatorsShape DEF FirstLineChar
  <1>6. s.mode = "friendly" => Ok(ContLineChar(s, c, m))
    BY <1>3, <1>4, LineOperatorsShape DEF ContLineChar
  <1>7. s.mode \in {"raw", "friendly"}
    BY DEF Repl
  <1> QED
    BY <1>1, <1>2, <1>5, <1>6, <1>7 DEF ProcessChar, FriendlyProcessChar

\* In every mode CTRL-C is answered at once, with nothing pending.
LEMMA CtrlCIsFresh ==
    ASSUME NEW s \in Repl, ReplShape(s), NEW m
    PROVE  /\ ProcessChar(s, "ctrlC", m).does = "return"
           /\ Fresh(ProcessChar(s, "ctrlC", m).repl)
  <1>1. Fresh(InputRestart(s)) /\ (s.mode = "raw" => Fresh(ResetLine(s)))
    BY DEF Fresh, InputRestart, ResetLine, ReplShape, Repl
  <1>2. ReadlineReturns(s, "ctrlC") = "ctrlC"
    BY DEF ReadlineReturns
  <1> QED
    BY <1>1, <1>2 DEF ProcessChar, RawProcessChar, FriendlyProcessChar, PasteProcessChar,
                      ContLineChar, FirstLineChar, Result

\* Two REPLs with the same fields are the same.
LEMMA SameFields ==
    ASSUME NEW s \in Repl, NEW q \in Repl,
           s.mode = q.mode, s.cont = q.cont, s.paste = q.paste,
           s.line = q.line, s.orig = q.orig, s.open = q.open
    PROVE  s = q
  <1>1. ASSUME NEW x \in Repl
        PROVE  x = [mode |-> x.mode, cont |-> x.cont, paste |-> x.paste,
                    line |-> x.line, orig |-> x.orig, open |-> x.open]
    BY <1>1, Zenon DEF Repl
  <1> QED
    BY <1>1

LEMMA FreshIsInit ==
    ASSUME NEW s \in Repl, Fresh(s), s.open
    PROVE  s = [EventReplInit EXCEPT !.mode = s.mode]
  <1> DEFINE q == [EventReplInit EXCEPT !.mode = s.mode]
  <1>1. /\ q.mode = s.mode /\ q.cont = FALSE /\ q.paste = FALSE
        /\ q.line = <<>> /\ q.orig = 0 /\ q.open = TRUE
    BY DEF EventReplInit
  <1>2. q \in Repl
    <2>1. EventReplInit \in Repl /\ s.mode \in {"friendly", "raw"}
      BY DEF EventReplInit, Repl
    <2> QED
      BY <2>1 DEF Repl
  <1>3. s.cont = FALSE /\ s.paste = FALSE /\ s.open = TRUE /\ s.line = <<>> /\ s.orig = 0
    BY DEF Fresh, Repl
  <1> HIDE DEF q
  <1>4. s = q
    BY <1>1, <1>2, <1>3, SameFields
  <1> QED
    BY <1>4 DEF q

\* What is known of the passes: with COMMS and without it.
PassInv == IF COMMS THEN CoroutineInv /\ RoundInv ELSE OnePassInv

\* A vertex of a later pass: none but with COMMS, and only a tile that has not
\* exited is resumed.
LEMMA ResumedIsNotDone ==
    ASSUME PassInv, NEW t \in Tiles, pc = "rt", checkpoint_is_live[t]
    PROVE  ~doneFlag[t]
  BY DEF PassInv, OnePassInv, CoroutineInv, SuspendedIsNotDone

LEMMA InterruptInvStep ==
    ASSUME TypeOK, PassInv, InterruptInv, [Next]_vars
    PROVE  InterruptInv'
  <1> USE DEF InterruptInv
  <1>0. \A t \in Tiles : repl[t] \in Repl /\ doneFlag[t] \in BOOLEAN
    BY DEF TypeOK
  \* The parts of one tile, and the tiles that a vertex does not run on.
  <1> DEFINE Sound(t) == ReplShape(repl[t]) /\ (doneFlag[t] \/ repl[t].open)
             Recovered(t) == \/ doneFlag[t]
                             \/ /\ Fresh(repl[t])
                                /\ ~checkpoint_is_live[t] /\ ~coroutineFlag[t]
  <1>1. ASSUME NEW t \in Tiles, NEW v \in Variants, pc = v, pc' = pc,
               t \notin ran, ran' = ran \cup {t}, inBuf' = inBuf,
               \A u \in Tiles \ {t} :
                   /\ repl'[u] = repl[u] /\ doneFlag'[u] = doneFlag[u]
                   /\ checkpoint_is_live'[u] = checkpoint_is_live[u]
                   /\ coroutineFlag'[u] = coroutineFlag[u],
               Sound(t)', inBuf = "ctrlC" => Recovered(t)'
        PROVE  InterruptInv'
    <2>1. \A u \in Tiles : Sound(u)'
      BY <1>1 DEF ReplsAreSound
    <2>2. ASSUME inBuf = "ctrlC", NEW u \in Tiles, u \in ran' PROVE Recovered(u)'
      <3>1. CASE u = t
        BY <1>1, <2>2, <3>1
      <3>2. CASE u # t
        <4>1. pc = "first" /\ u \in ran
          BY <1>1, <2>2, <3>2 DEF InterruptIsHandled, Variants
        <4>2. Recovered(u)
          BY <2>2, <4>1 DEF InterruptIsHandled
        <4> QED
          BY <1>1, <3>2, <4>2
      <3> QED
        BY <3>1, <3>2
    <2>3. InterruptIsHandled'
      BY <1>1, <2>2 DEF InterruptIsHandled, Variants
    <2> QED
      BY <2>1, <2>3 DEF ReplsAreSound
  <1>2. ASSUME NEW t \in Tiles, InitVertex(t) PROVE InterruptInv'
    <2>1. ReplShape(EventReplInit) /\ EventReplInit.open
      BY DEF ReplShape, EventReplInit
    <2>2. /\ pc = "init" /\ pc' = "init" /\ repl' = [repl EXCEPT ![t] = EventReplInit]
          /\ doneFlag' = [doneFlag EXCEPT ![t] = FALSE]
      BY <1>2 DEF InitVertex, Runs
    <2>3. ReplsAreSound'
      BY <2>1, <2>2 DEF ReplsAreSound, TypeOK
    <2> QED
      BY <2>2, <2>3 DEF InterruptIsHandled
  <1>3. ASSUME NEW t \in Tiles, NEW v \in Variants, RuntimeVertex(v, t)
        PROVE  InterruptInv'
    <2> USE DEF TypeOK, Runs, command
    <2>0. Sound(t) /\ ReplShape(Executed(repl[t])) /\ Executed(repl[t]).open = repl[t].open
      BY <1>0, LineOperatorsShape DEF ReplsAreSound
    <2>1. pc = "rt" => inBuf # "ctrlC"
      BY DEF InterruptIsHandled
    <2>2. CASE v = "rt" /\ ResumeAndYield(t)
      BY <1>1, <2>0, <2>1, <2>2 DEF ResumeAndYield, LongYield
    <2>3. CASE v = "rt" /\ ResumeAndFinish(t)
      <3>1. ~doneFlag[t]
        BY <2>3, ResumedIsNotDone DEF ResumeAndFinish
      <3> QED
        BY <1>1, <2>0, <2>1, <2>3, <3>1 DEF ResumeAndFinish, HandlerReturns
    <2>4. CASE Idle(v, t)
      <3>1. inBuf = "ctrlC" => doneFlag[t]
        BY <2>1, <2>4 DEF Idle, Enters, ReturnsEarly, Variants
      <3> QED
        BY <1>1, <2>0, <2>4, <3>1 DEF Idle, Enters
    <2>5. CASE HandleNul(v, t)
      BY <1>1, <2>0, <2>5 DEF HandleNul, Handles, Enters, HandlerReturns
    <2>6. CASE HandleKey(v, t)
      <3> DEFINE p == ProcessChar(repl[t], inBuf, more[t])
      <3>1. /\ Handles(v, t) /\ HandlerReturns(t, p.does = "exit")
            /\ repl' = [repl EXCEPT ![t] = p.repl]
        BY <2>6 DEF HandleKey
      <3>2. ~doneFlag[t]
        BY <3>1 DEF Handles, ReturnsEarly
      <3>3. ReplShape(p.repl) /\ (p.does # "exit" => p.repl.open = repl[t].open)
        BY <1>0, <2>0, ProcessCharShape
      <3>4. inBuf = "ctrlC" => Fresh(p.repl)
        BY <1>0, <2>0, CtrlCIsFresh
      <3> HIDE DEF p
      <3>5. /\ repl'[t] = p.repl /\ (doneFlag'[t] <=> p.does = "exit")
            /\ ~checkpoint_is_live'[t] /\ ~coroutineFlag'[t]
        BY <3>1 DEF HandlerReturns
      <3>6. Sound(t)' /\ (inBuf = "ctrlC" => Recovered(t)')
        BY <2>0, <3>2, <3>3, <3>4, <3>5
      <3> QED
        BY <1>1, <3>1, <3>6 DEF Handles, Enters, HandlerReturns
    <2>7. CASE HandleAndFinish(v, t) \/ HandleAndYield(v, t)
      <3>1. inBuf # "ctrlC" /\ ~doneFlag[t]
        BY <1>0, <2>0, <2>7, CtrlCIsFresh
        DEF HandleAndFinish, HandleAndYield, Executes, Handles, ReturnsEarly
      <3>2. CASE HandleAndFinish(v, t)
        BY <1>1, <2>0, <3>1, <3>2 DEF HandleAndFinish, Handles, Enters, HandlerReturns
      <3>3. CASE HandleAndYield(v, t)
        BY <1>1, <2>0, <3>1, <3>3 DEF HandleAndYield, Handles, Enters, LongYield
      <3> QED
        BY <2>7, <3>2, <3>3
    <2> QED
      BY <1>3, <2>2, <2>3, <2>4, <2>5, <2>6, <2>7 DEF RuntimeVertex
  <1>4. CASE CopyPrintBuf \/ TypeChar \/ Stop
    <2>1. repl' = repl /\ doneFlag' = doneFlag
          /\ (pc' \in {"while", "end"} \/ (pc' = "first" /\ ran' = {}))
      BY <1>4 DEF CopyPrintBuf, TypeChar, Stop
    <2> QED
      BY <2>1 DEF ReplsAreSound, InterruptIsHandled
  \* Any finds no flag up: one that is up belongs to a coroutine, and a tile
  \* that is suspended has neither exited nor handled CTRL-C.
  <1>5. CASE Any
    <2>1. /\ repl' = repl /\ doneFlag' = doneFlag /\ inBuf' = inBuf
          /\ checkpoint_is_live' = checkpoint_is_live /\ ran = Tiles
          /\ pc \in {"first", "rt"} /\ COMMS
          /\ coroutineFlag' = [coroutineFlag EXCEPT ![0] = \E t \in Tiles : coroutineFlag[t]]
          /\ pc' = IF coroutineFlag'[0] THEN "comms" ELSE "print"
      BY <1>5 DEF Any, Finished, command
    <2>2. ASSUME inBuf = "ctrlC" PROVE \A t \in Tiles : ~coroutineFlag[t]
      <3> SUFFICES ASSUME NEW t \in Tiles, coroutineFlag[t] PROVE FALSE
        OBVIOUS
      <3>1. pc = "first" /\ Recovered(t)
        BY <2>1, <2>2 DEF InterruptIsHandled
      <3>2. checkpoint_is_live[t] /\ ~doneFlag[t]
        BY <2>1, <3>1 DEF PassInv, RoundInv, FlagIsOwn, CoroutineInv, SuspendedIsNotDone
      <3> QED
        BY <3>1, <3>2
    <2>3. ASSUME inBuf = "ctrlC"
          PROVE  pc' = "print" /\ \A t \in Tiles : ~coroutineFlag'[t] /\ Recovered(t)
      BY <2>1, <2>2, <2>3, ZeroIsTile DEF InterruptIsHandled, TypeOK
    <2> QED
      BY <2>1, <2>3 DEF ReplsAreSound, InterruptIsHandled
  <1>6. CASE Exchange
    BY <1>6 DEF Exchange, command, ReplsAreSound, InterruptIsHandled
  <1>7. CASE UNCHANGED vars
    BY <1>7 DEF vars, control, command, ReplsAreSound, InterruptIsHandled
  <1> QED
    BY <1>2, <1>3, <1>4, <1>5, <1>6, <1>7 DEF Next, Device, Vertex, Terminated

\* CTRL-C brings every interpreter that has not exited back to an empty prompt
\* that nothing resumes, whatever was typed before and however the tiles have
\* yielded; also without COMMS, where yielded commands stay in their line.
THEOREM CtrlCRecovers == Spec => []InterruptRecovers
  <1>1. Spec => []PassInv
    <2>1. CASE COMMS
      <3>1. CoroutineInv /\ RoundInv => PassInv
        BY <2>1 DEF PassInv
      <3> QED
        BY <2>1, <3>1, CoroutineInvariant, RoundInvariant, PTL
    <2>2. CASE ~COMMS
      <3>1. OnePassInv => PassInv
        BY <2>2 DEF PassInv
      <3> QED
        BY <2>2, <3>1, OnePassInvariant, PTL
    <2> QED
      BY <2>1, <2>2
  <1>2. Init => InterruptInv
    <2>1. ReplShape(EventReplInit) /\ EventReplInit.open
      BY DEF ReplShape, EventReplInit
    <2> QED
      BY <2>1 DEF Init, InterruptInv, ReplsAreSound, InterruptIsHandled
  <1>3. TypeOK /\ PassInv /\ InterruptInv /\ [Next]_vars => InterruptInv'
    BY InterruptInvStep
  <1>4. TypeOK /\ InterruptInv => InterruptRecovers
    <2> SUFFICES ASSUME TypeOK, InterruptInv, RoundOver, inBuf = "ctrlC",
                        NEW t \in Tiles, ~doneFlag[t]
                 PROVE  /\ repl[t] = [EventReplInit EXCEPT !.mode = repl[t].mode]
                        /\ ~checkpoint_is_live[t] /\ ~coroutineFlag[t]
      BY DEF InterruptRecovers
    <2>1. Fresh(repl[t]) /\ ~checkpoint_is_live[t] /\ ~coroutineFlag[t]
      BY DEF RoundOver, Finished, InterruptInv, InterruptIsHandled
    <2>2. repl[t] \in Repl /\ repl[t].open
      BY DEF TypeOK, InterruptInv, ReplsAreSound
    <2>3. repl[t] = [EventReplInit EXCEPT !.mode = repl[t].mode]
      BY <2>1, <2>2, FreshIsInit
    <2> QED
      BY <2>1, <2>3
  <1> QED
    BY <1>1, <1>2, <1>3, <1>4, TypeCorrect, PTL DEF Spec

-----------------------------------------------------------------------------
(***************************************************************************)
(* The refinement: every step of the multi-REPL is a step of the service   *)
(* or leaves it where it is.                                               *)
(***************************************************************************)
ServiceSafety == Service!Init /\ [][Service!Next]_(Service!vars)

\* The refinement mapping of Multirepl, named.
Phase ==
    CASE pc = "init" -> "starting"
      [] pc = "while" -> "ready"
      [] pc \in {"first", "comms", "rt"} -> "busy"
      [] pc = "print" -> "reporting"
      [] pc = "end" -> "over"
Answered == [t \in Tiles |-> IF checkpoint_is_live[t] THEN handled[t] - 1 ELSE handled[t]]
Heard == {t \in Tiles : pc = "print" /\ printBuf[t] = said[t]}

\* A step of the service, in terms of the mapping.
ServiceStep ==
    \/ Phase = "starting" /\ Phase' = "ready" /\ Answered' = Answered /\ Heard' = Heard
    \/ Phase = "ready" /\ Phase' = "busy" /\ Answered' = Answered /\ Heard' = Heard
    \/ \E i \in Tiles : /\ Phase = "busy" /\ Answered[i] = 0
                        /\ Answered' = [Answered EXCEPT ![i] = 1]
                        /\ Phase' = Phase /\ Heard' = Heard
    \/ /\ Phase = "busy" /\ \A i \in Tiles : Answered[i] = 1
       /\ Phase' = "reporting" /\ Heard' = Tiles /\ Answered' = Answered
    \/ /\ Phase = "reporting"
       /\ Phase' = "ready" /\ Heard' = {} /\ Answered' = [i \in Tiles |-> 0]
    \/ Phase = "ready" /\ Phase' = "over" /\ Answered' = Answered /\ Heard' = Heard
    \/ Phase' = Phase /\ Answered' = Answered /\ Heard' = Heard

LEMMA ServiceStepIsStep == ServiceStep => [Service!Next]_(Service!vars)
  BY DEF ServiceStep, Phase, Answered, Heard, Service!Next, Service!vars, Service!Start,
         Service!Type, Service!Answer, Service!Collect, Service!Report, Service!Quit,
         Service!Nobody

\* A vertex that yields is invisible; one whose handler returns, at once or
\* after any number of passes, is the tile's answer.
LEMMA VertexSimulates ==
    ASSUME COMMS, TypeOK, TypeOK', CoroutineInv, RoundInv, SpmdInv,
           NEW t \in Tiles, NEW v \in Variants, RuntimeVertex(v, t)
    PROVE  ServiceStep
  <1>1. /\ pc \in {"first", "rt"} /\ pc' = pc /\ t \notin ran /\ handled'[t] = 1
        /\ \A u \in Tiles \ {t} : /\ checkpoint_is_live'[u] = checkpoint_is_live[u]
                                  /\ handled'[u] = handled[u]
    BY SpmdVertex DEF RunsOnce
  <1>2. Phase = "busy" /\ Phase' = Phase /\ Heard' = Heard
    BY <1>1 DEF Phase, Heard
  <1>3. Answered[t] = 0
    <2>1. CASE pc = "first"
      <3>1. ~checkpoint_is_live[t] /\ handled[t] = 0
        BY <1>1, <2>1 DEF CoroutineInv, SuspendedOnlyInRound, RoundInv, WaitingIsFresh, Waits
      <3> QED
        BY <3>1 DEF Answered
    <2>2. CASE pc = "rt"
      <3>1. checkpoint_is_live[t] /\ handled[t] = 1
        BY <1>1, <2>2 DEF SpmdInv, NobodyIdles, AnswersOnce, InRound, Waits, Due
      <3> QED
        BY <3>1 DEF Answered
    <2> QED
      BY <1>1, <2>1, <2>2
  <1>4. \A u \in Tiles \ {t} : Answered'[u] = Answered[u]
    BY <1>1 DEF Answered
  <1>5. Answered'[t] = IF checkpoint_is_live'[t] THEN 0 ELSE 1
    BY <1>1 DEF Answered
  <1>6. CASE checkpoint_is_live'[t]
    <2>1. Answered' = Answered
      <3>1. \A u \in Tiles : Answered'[u] = Answered[u]
        BY <1>3, <1>4, <1>5, <1>6
      <3> QED
        BY <3>1 DEF Answered
    <2> QED
      BY <1>2, <2>1 DEF ServiceStep
  <1>7. CASE ~checkpoint_is_live'[t]
    <2>1. Answered' = [Answered EXCEPT ![t] = 1]
      <3>1. \A u \in Tiles : Answered'[u] = [Answered EXCEPT ![t] = 1][u]
        BY <1>4, <1>5, <1>7 DEF Answered
      <3> QED
        BY <3>1 DEF Answered
    <2> QED
      BY <1>2, <1>3, <2>1 DEF ServiceStep
  <1> QED
    BY <1>6, <1>7

LEMMA ControlSimulates ==
    ASSUME COMMS, TypeOK, CoroutineInv, RoundInv, SpmdInv, CoroutineInv', SpmdInv',
           \/ \E t \in Tiles : InitVertex(t)
           \/ CopyPrintBuf \/ TypeChar \/ Stop \/ Any \/ Exchange \/ UNCHANGED vars
    PROVE  ServiceStep
  <1>1. CASE UNCHANGED vars \/ Exchange \/ \E t \in Tiles : InitVertex(t)
    <2>1. /\ checkpoint_is_live' = checkpoint_is_live /\ handled' = handled
          /\ pc' = pc \/ (pc = "comms" /\ pc' = "rt")
      BY <1>1 DEF vars, control, Exchange, InitVertex, Runs
    <2>2. Heard' = Heard
      <3>1. CASE pc = "print"
        BY <1>1, <3>1 DEF vars, control, Exchange, InitVertex, Runs, Heard
      <3>2. CASE pc # "print"
        BY <2>1, <3>2 DEF Heard
      <3> QED
        BY <3>1, <3>2
    <2> QED
      BY <2>1, <2>2 DEF ServiceStep, Phase, Answered
  <1>2. CASE CopyPrintBuf
    <2>1. /\ pc \in {"init", "print"} /\ pc' = "while"
          /\ checkpoint_is_live' = checkpoint_is_live
          /\ \A t \in Tiles : handled'[t] = 0
      BY <1>2 DEF CopyPrintBuf, Finished, RoundOver, ForgetCommand
    <2>2. \A t \in Tiles : ~checkpoint_is_live[t]
      BY <2>1 DEF CoroutineInv, SuspendedOnlyInRound
    <2>3. Answered' = [t \in Tiles |-> 0] /\ Heard' = {}
      BY <2>1, <2>2 DEF Answered, Heard
    <2>4. CASE pc = "init"
      <3>1. Answered = [t \in Tiles |-> 0] /\ Heard = {}
        BY <2>2, <2>4 DEF Answered, Heard, RoundInv, WaitingIsFresh
      <3> QED
        BY <2>1, <2>3, <2>4, <3>1 DEF ServiceStep, Phase
    <2>5. CASE pc = "print"
      BY <2>1, <2>3, <2>5 DEF ServiceStep, Phase
    <2> QED
      BY <2>1, <2>4, <2>5
  <1>3. CASE TypeChar \/ Stop
    <2>1. /\ pc = "while" /\ pc' \in {"first", "end"}
          /\ checkpoint_is_live' = checkpoint_is_live /\ handled' = handled
      BY <1>3 DEF TypeChar, Stop
    <2> QED
      BY <2>1 DEF ServiceStep, Phase, Answered, Heard
  <1>4. CASE Any
    <2>1. /\ pc \in {"first", "rt"} /\ pc' \in {"comms", "print"}
          /\ checkpoint_is_live' = checkpoint_is_live /\ handled' = handled
      BY <1>4 DEF Any, Finished
    <2>2. Answered' = Answered /\ Heard = {}
      BY <2>1 DEF Answered, Heard
    <2>3. CASE pc' = "comms"
      BY <2>1, <2>2, <2>3 DEF ServiceStep, Phase, Heard
    <2>4. CASE pc' = "print"
      <3>1. \A t \in Tiles : ~checkpoint_is_live'[t]
        BY <2>4 DEF CoroutineInv, SuspendedOnlyInRound
      <3>2. \A t \in Tiles : handled'[t] = 1 /\ printBuf'[t] = said'[t]
        BY <2>4 DEF SpmdInv, AnswersOnce, InRound, Waits, Intact
      <3>3. Heard' = Tiles /\ \A t \in Tiles : Answered[t] = 1
        BY <2>1, <2>4, <3>1, <3>2 DEF Heard, Answered
      <3> QED
        BY <2>1, <2>2, <2>4, <3>3 DEF ServiceStep, Phase
    <2> QED
      BY <2>1, <2>3, <2>4
  <1> QED
    BY <1>1, <1>2, <1>3, <1>4

\* While all tiles run the same command, the machinery of passes, yields and
\* flags is invisible: the multi-REPL takes only the steps of one REPL that
\* every interpreter answers once before the answers are reported whole.
THEOREM RefinesService ==
    ASSUME COMMS, ~Divergent
    PROVE  Spec => ServiceSafety
  <1>1. Init => Service!Init
    <2> SUFFICES ASSUME Init PROVE Service!Init
      OBVIOUS
    <2>1. /\ Phase = "starting" /\ Heard = {}
          /\ Answered = [t \in Tiles |-> 0]
      BY DEF Init, Phase, Heard, Answered
    <2> QED
      BY <2>1 DEF Phase, Heard, Answered, Service!Init, Service!Nobody
  <1>2. ASSUME TypeOK, TypeOK', CoroutineInv, CoroutineInv', RoundInv, SpmdInv, SpmdInv',
               [Next]_vars
        PROVE  [Service!Next]_(Service!vars)
    <2>1. ServiceStep
      BY <1>2, VertexSimulates, ControlSimulates DEF Next, Device, Vertex, Terminated
    <2> QED
      BY <2>1, ServiceStepIsStep
  <1> QED
    BY <1>1, <1>2, TypeCorrect, CoroutineInvariant, RoundInvariant, SpmdInvariant, PTL
    DEF Spec, ServiceSafety
=============================================================================
