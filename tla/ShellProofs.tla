---------------------------- MODULE ShellProofs ----------------------------
(***************************************************************************)
(* Theorems about the on-chip shell: its calls are served once, in spite of *)
(* the program a call launches, and the disk is formatted once.            *)
(*                                                                         *)
(* The invariant follows the call of tile 0 through the control program:   *)
(* made and not yet served while the program is at its switch, served from *)
(* then on, also while example 4, 5 or 8 is being run on its behalf.       *)
(***************************************************************************)
EXTENDS Shell, TLAPS, SequenceTheorems

---------------------------------------------------------------------------
(***************************************************************************)
(* The inductive invariant.                                                *)
(***************************************************************************)
Numbers == Transfers \cup {"get_char", "shutdown", "run", "host_run"}
CallType == [number : Numbers \cup {"none"}, arg : Int]
Loops == {"ex4", "ex5", "ex8", "ex8switch"}

ShellTypes ==
    /\ pc \in {"init", "body", "switch", "end"} \cup Loops
    /\ live \in [{0, 5, 8} -> BOOLEAN]
    /\ call \in [{0, 8} -> CallType]
    /\ served \in [{0, 8} -> Seq(CallType)]
    /\ shutdownFlag \in BOOLEAN /\ doneFlag \in BOOLEAN
    /\ vfsPos \in Int /\ programSelector \in Int
    /\ formats \in Nat

\* The tensors say what call c asks for.
Requested(c) ==
    /\ c.number \in Numbers /\ syscallArg = c.number
    /\ IF c.number \in Transfers THEN c.arg = vfsPos /\ c.arg \in Blocks
       ELSE IF c.number = "run" THEN c.arg = programSelector /\ c.arg \in Programs
       ELSE c.arg = 0

\* The shell's call, at the switch and in the loop of the program it launches.
ShellsCall ==
    /\ pc = "init" => ~live[0]
    /\ pc = "switch" => IF live[0] THEN served[0] = <<>> /\ Requested(call[0])
                                   ELSE syscallArg = "none"
    /\ pc \in Loops => live[0] /\ Answered(0)
    /\ pc = "ex4" => call[0] = Call("run", 4)
    /\ pc = "ex5" => call[0] = Call("run", 5)
    /\ pc \in {"ex8", "ex8switch"} => call[0] = Call("run", 8)
    /\ pc \notin {"init", "end"} => ~shutdownFlag

\* Example 5 is fed from the first message on, and has consumed the whole
\* round when it ends.
Example5Fed ==
    IF pc = "ex5" /\ live[5]
    THEN /\ stream \in 2 .. Len(Messages)
         /\ msgBuf = Messages[stream - 1]
         /\ heard = SubSeq(Messages, 1, stream - 2)
    ELSE /\ stream = 1 /\ ~live[5]
         /\ pc = "ex5" => heard = <<>>

\* Example 8's own call, and the end of its loop.
Example8Call ==
    /\ pc \in {"ex8", "ex8switch"} => ~doneFlag
    /\ pc = "ex8" /\ live[8] => vfsPos \in Blocks
    /\ pc = "ex8switch" =>
        /\ vfsPos \in Blocks
        /\ IF live[8] THEN /\ served[8] = <<>> /\ syscallArg \in Transfers
                           /\ call[8] = Call(syscallArg, vfsPos)
                      ELSE syscallArg = "shutdown"
    /\ pc \notin {"ex8", "ex8switch"} => ~live[8]

\* Once the disk is formatted the tensor says so, but for the time between the
\* launch of example 8 and its first block.
DiskIsKnown ==
    /\ formats <= 1
    /\ pc = "init" => formats = 0
    /\ formats = 1 => vfsPos # NoFileSystem \/ (pc = "ex8" /\ ~live[8])

ShellInv ==
    /\ ShellTypes /\ ShellsCall /\ Example5Fed /\ Example8Call /\ DiskIsKnown
    /\ CallsServed

---------------------------------------------------------------------------
LEMMA InitEstablishes == Init => ShellInv
  <1> SUFFICES ASSUME Init PROVE ShellInv
    OBVIOUS
  <1>1. ShellTypes
    BY EmptySeq DEF Init, ShellTypes, Loops, CallType, Call, NoCall
  <1>2. ShellsCall /\ Example5Fed /\ Example8Call /\ DiskIsKnown /\ CallsServed
    BY DEF Init, ShellsCall, Example5Fed, Example8Call, DiskIsKnown, CallsServed, Loops
  <1> QED
    BY <1>1, <1>2 DEF ShellInv

---------------------------------------------------------------------------
(***************************************************************************)
(* The tile of the shell: every stretch of python ends in a call or in an  *)
(* exception.                                                              *)
(***************************************************************************)
\* What IPUpySh and its disk ask for.
Legal(c) ==
    /\ c \in CallType /\ c.number \in Numbers
    /\ IF c.number \in Transfers THEN c.arg \in Blocks
       ELSE IF c.number = "run" THEN c.arg \in Programs
       ELSE c.arg = 0

\* What a stretch of python leaves alone.
Aside == UNCHANGED <<shutdownFlag, doneFlag, ex5Vars>>

\* Only a transfer goes with the making of a file system.
Formatting(c) ==
    \/ formats' = formats
    \/ formats' = formats + 1 /\ vfsPos = NoFileSystem /\ c.number \in Transfers

LEMMA YieldPreserves ==
    ASSUME ShellInv, pc = "body", NEW c, NEW where, Legal(c), Yield(c, where), Aside,
           Formatting(c)
    PROVE  ShellInv'
  <1>1. /\ pc' = "switch" /\ syscallArg' = c.number
        /\ vfsPos' = IF c.number \in Transfers THEN c.arg ELSE vfsPos
        /\ programSelector' = IF c.number = "run" THEN c.arg ELSE programSelector
        /\ live' = [live EXCEPT ![0] = TRUE]
        /\ call' = [call EXCEPT ![0] = c]
        /\ served' = [served EXCEPT ![0] = <<>>]
        /\ shutdownFlag' = shutdownFlag /\ doneFlag' = doneFlag
        /\ stream' = stream /\ msgBuf' = msgBuf /\ heard' = heard
    BY DEF Yield, Aside, ex5Vars
  <1>2. live'[0] /\ call'[0] = c /\ served'[0] = <<>> /\ live'[5] = live[5] /\ live'[8] = live[8]
    BY <1>1 DEF ShellInv, ShellTypes
  <1>3. c \in CallType /\ c.number \in Numbers /\ c.arg \in Int
    BY DEF Legal, CallType
  <1>4. ShellTypes'
    BY <1>1, <1>3, EmptySeq DEF ShellInv, ShellTypes, Formatting
  <1>5. ShellsCall'
    BY <1>1, <1>2 DEF ShellsCall, ShellInv, Legal, Requested, Loops, Numbers, Transfers
  <1>6. Example5Fed' /\ Example8Call' /\ CallsServed'
    BY <1>1, <1>2 DEF ShellInv, Example5Fed, Example8Call, CallsServed
  <1>7. DiskIsKnown'
    BY <1>1, <1>3, ShellAssumption
    DEF ShellInv, ShellTypes, DiskIsKnown, Formatting, Legal, NoFileSystem
  <1> QED
    BY <1>4, <1>5, <1>6, <1>7 DEF ShellInv

LEMMA BodyEndsPreserves ==
    ASSUME ShellInv, pc = "body", BodyEnds, Aside, formats' = formats
    PROVE  ShellInv'
  <1>1. /\ pc' = "switch" /\ syscallArg' = "none"
        /\ vfsPos' = vfsPos /\ programSelector' = programSelector
        /\ live' = [live EXCEPT ![0] = FALSE]
        /\ call' = [call EXCEPT ![0] = NoCall]
        /\ served' = [served EXCEPT ![0] = <<>>]
        /\ shutdownFlag' = shutdownFlag /\ doneFlag' = doneFlag
        /\ stream' = stream /\ msgBuf' = msgBuf /\ heard' = heard
    BY DEF BodyEnds, Aside, ex5Vars
  <1>2. ~live'[0] /\ live'[5] = live[5] /\ live'[8] = live[8]
    BY <1>1 DEF ShellInv, ShellTypes
  <1>3. NoCall \in CallType
    BY DEF NoCall, Call, CallType
  <1>4. ShellTypes'
    BY <1>1, <1>3, EmptySeq DEF ShellInv, ShellTypes
  <1>5. ShellsCall' /\ Example5Fed' /\ Example8Call' /\ CallsServed' /\ DiskIsKnown'
    BY <1>1, <1>2
    DEF ShellInv, ShellsCall, Example5Fed, Example8Call, CallsServed, DiskIsKnown, Loops
  <1> QED
    BY <1>4, <1>5 DEF ShellInv

\* A call for a block, for a key, and for a program are calls the program serves.
LEMMA LegalCalls ==
    /\ \A b \in Blocks, action \in Transfers : Legal(Call(action, b))
    /\ \A n \in Programs : Legal(Call("run", n))
    /\ Legal(Call("get_char", 0)) /\ Legal(Call("host_run", 0)) /\ Legal(Call("shutdown", 0))
  BY ShellAssumption DEF Legal, Call, CallType, Numbers, Transfers, Programs, OneShots

\* A stretch that asks for a block.
LEMMA ExchangePreserves ==
    ASSUME ShellInv, pc = "body", NEW where, VfsExchange(where), Aside,
           formats' = formats \/ (formats' = formats + 1 /\ FormatsAtStart)
    PROVE  ShellInv'
  <1>1. PICK b \in Blocks, action \in Transfers : Yield(Call(action, b), where)
    BY DEF VfsExchange
  <1>2. Legal(Call(action, b))
    BY LegalCalls
  <1>3. Formatting(Call(action, b))
    BY DEF Formatting, FormatsAtStart, Call
  <1> QED
    BY <1>1, <1>2, <1>3, YieldPreserves

\* A stretch that asks for a key.
LEMMA GetCharPreserves ==
    ASSUME ShellInv, pc = "body", NEW where, GetChar(where), Aside, formats' = formats
    PROVE  ShellInv'
  <1>1. Legal(Call("get_char", 0)) /\ Formatting(Call("get_char", 0))
    BY LegalCalls DEF Formatting
  <1> QED
    BY <1>1, YieldPreserves DEF GetChar

LEMMA TerminalBodyPreserves == ShellInv /\ TerminalBody => ShellInv'
  <1> SUFFICES ASSUME ShellInv, TerminalBody PROVE ShellInv'
    OBVIOUS
  <1>1. CASE SetUp
    BY <1>1, ExchangePreserves DEF SetUp, Starts, Resumes, Aside, ex5Vars
  <1>2. CASE SetUpFails
    BY <1>2, BodyEndsPreserves DEF SetUpFails, Starts, Resumes, Aside, ex5Vars
  <1>3. CASE SetUpDone
    BY <1>3, GetCharPreserves DEF SetUpDone, Resumes, Aside, ex5Vars
  <1>4. CASE RunAgain
    BY <1>4, GetCharPreserves DEF RunAgain, Starts, Aside, ex5Vars
  <1>5. CASE NoShell
    BY <1>5, BodyEndsPreserves DEF NoShell, Starts, Aside, ex5Vars
  <1>6. CASE Unreadable
    BY <1>6, BodyEndsPreserves DEF Unreadable, Resumes, Aside, ex5Vars
  <1>7. CASE Escape
    BY <1>7, GetCharPreserves DEF Escape, Resumes, Aside, ex5Vars
  <1>8. CASE Arrow
    BY <1>8, GetCharPreserves DEF Arrow, Resumes, Aside, ex5Vars
  <1>9. CASE EditLine
    BY <1>9, GetCharPreserves DEF EditLine, Resumes, Aside, ex5Vars
  <1>10. CASE Shutdown
    <2>1. Legal(Call("shutdown", 0)) /\ Formatting(Call("shutdown", 0))
      BY <1>10, LegalCalls DEF Formatting, Shutdown
    <2> QED
      BY <1>10, <2>1, YieldPreserves DEF Shutdown, Resumes, Aside, ex5Vars
  <1>11. CASE Return
    BY <1>11, GetCharPreserves DEF Return, AtReturn, LineDone, Resumes, Aside, ex5Vars
  <1>12. CASE ProcLine
    <2>1. pc = "body" /\ Aside /\ formats' = formats
      BY <1>12 DEF ProcLine, AtReturn, Resumes, Aside, ex5Vars
    <2>2. CASE VfsExchange("command")
      BY <2>1, <2>2, ExchangePreserves
    <2>3. CASE \E n \in Programs : Yield(Call("run", n), "command")
      <3>1. PICK n \in Programs : Yield(Call("run", n), "command")
        BY <2>3
      <3>2. Legal(Call("run", n)) /\ Formatting(Call("run", n))
        BY <2>1, LegalCalls DEF Formatting
      <3> QED
        BY <2>1, <3>1, <3>2, YieldPreserves
    <2>4. CASE Yield(Call("host_run", 0), "command")
      <3>1. Legal(Call("host_run", 0)) /\ Formatting(Call("host_run", 0))
        BY <2>1, LegalCalls DEF Formatting
      <3> QED
        BY <2>1, <2>4, <3>1, YieldPreserves
    <2> QED
      BY <1>12, <2>2, <2>3, <2>4 DEF ProcLine
  <1>13. CASE ProcLineGoesOn
    BY <1>13, ExchangePreserves DEF ProcLineGoesOn, Resumes, Aside, ex5Vars
  <1>14. CASE ProcLineReturns
    BY <1>14, GetCharPreserves DEF ProcLineReturns, LineDone, Resumes, Aside, ex5Vars
  <1>15. CASE ProcLineFails
    BY <1>15, BodyEndsPreserves DEF ProcLineFails, AtReturn, Resumes, Aside, ex5Vars
  <1> QED
    BY <1>1, <1>2, <1>3, <1>4, <1>5, <1>6, <1>7, <1>8, <1>9, <1>10, <1>11, <1>12, <1>13,
       <1>14, <1>15 DEF TerminalBody

---------------------------------------------------------------------------
(***************************************************************************)
(* The control program.                                                    *)
(***************************************************************************)
LEMMA TerminalInitPreserves == ShellInv /\ TerminalInit => ShellInv'
  <1> SUFFICES ASSUME ShellInv, TerminalInit PROVE ShellInv'
    OBVIOUS
  <1>1. /\ pc = "init" /\ pc' = "body" /\ vfsPos' = NoFileSystem /\ shutdownFlag' = FALSE
        /\ programSelector' = programSelector /\ doneFlag' = doneFlag /\ live' = live
        /\ call' = call /\ served' = served /\ formats' = formats
        /\ stream' = stream /\ msgBuf' = msgBuf /\ heard' = heard
    BY DEF TerminalInit, tileVars, ex5Vars
  <1>2. ~live[0]
    BY <1>1 DEF ShellInv, ShellsCall
  <1>3. ShellTypes'
    <2>1. shutdownFlag' \in BOOLEAN /\ doneFlag' \in BOOLEAN
      BY <1>1 DEF ShellInv, ShellTypes
    <2> QED
      BY <1>1, <2>1 DEF ShellInv, ShellTypes, NoFileSystem
  <1> QED
    BY <1>1, <1>2, <1>3
    DEF ShellInv, ShellsCall, Example5Fed, Example8Call, DiskIsKnown, CallsServed, Loops

\* The switch serves the call the tensors name, which is the call made.
LEMMA ServedCall ==
    ASSUME ShellInv, pc = "switch", live[0], Serves(0, call[0])
    PROVE  /\ served'[0] = <<call[0]>> /\ served'[8] = served[8]
           /\ served' \in [{0, 8} -> Seq(CallType)]
  <1>1. served[0] = <<>> /\ call[0] \in CallType
    BY DEF ShellInv, ShellTypes, ShellsCall
  <1>2. Append(<<>>, call[0]) = <<call[0]>>
    OBVIOUS
  <1>3. <<call[0]>> \in Seq(CallType)
    BY <1>1
  <1>4. served' = [served EXCEPT ![0] = <<call[0]>>]
    BY <1>1, <1>2 DEF Serves, ShellInv, ShellTypes
  <1> QED
    BY <1>3, <1>4 DEF ShellInv, ShellTypes

LEMMA ReadKeyPreserves == ShellInv /\ ReadKey => ShellInv'
  <1> SUFFICES ASSUME ShellInv, ReadKey PROVE ShellInv'
    OBVIOUS
  <1>1. /\ pc = "switch" /\ pc' = "body" /\ syscallArg = "get_char"
        /\ Serves(0, Call("get_char", 0))
        /\ vfsPos' = vfsPos /\ shutdownFlag' = shutdownFlag
        /\ programSelector' = programSelector /\ doneFlag' = doneFlag /\ live' = live
        /\ call' = call /\ formats' = formats
        /\ stream' = stream /\ msgBuf' = msgBuf /\ heard' = heard
    BY DEF ReadKey, tileVars, ex5Vars
  <1>2. live[0] /\ call[0] \in CallType /\ call[0].number = "get_char" /\ call[0].arg = 0
    BY <1>1 DEF ShellInv, ShellTypes, ShellsCall, Requested, Transfers
  <1>3. call[0] = Call("get_char", 0)
    BY <1>2 DEF CallType, Call
  <1>4. served'[0] = <<call[0]>> /\ served' \in [{0, 8} -> Seq(CallType)]
    BY <1>1, <1>2, <1>3, ServedCall
  <1>5. call[0] # Call("run", 5)
    BY <1>2 DEF Call
  <1> QED
    BY <1>1, <1>4, <1>5
    DEF ShellInv, ShellTypes, ShellsCall, Example5Fed, Example8Call, DiskIsKnown,
        CallsServed, Answered, Loops

LEMMA SwitchPreserves == ShellInv /\ Switch => ShellInv'
  <1> SUFFICES ASSUME ShellInv, Switch PROVE ShellInv'
    OBVIOUS
  <1>1. /\ pc = "switch" /\ pc' = IF shutdownFlag' THEN "end" ELSE "body"
        /\ vfsPos' = vfsPos
        /\ programSelector' = programSelector /\ doneFlag' = doneFlag /\ live' = live
        /\ call' = call /\ formats' = formats
        /\ stream' = stream /\ msgBuf' = msgBuf /\ heard' = heard
        /\ ~shutdownFlag
    BY DEF Switch, tileVars, ex5Vars, ShellInv, ShellsCall
  <1>2. CASE ~live[0]
    <2>1. syscallArg = "none"
      BY <1>1, <1>2 DEF ShellInv, ShellsCall
    <2>2. served' = served /\ shutdownFlag' = shutdownFlag
      BY <1>1, <2>1 DEF Switch, Transfers
    <2> QED
      BY <1>1, <1>2, <2>2
      DEF ShellInv, ShellTypes, ShellsCall, Example5Fed, Example8Call, DiskIsKnown,
          CallsServed, Answered, Loops
  <1>3. CASE live[0]
    <2>1. call[0] \in CallType /\ Requested(call[0])
      BY <1>1, <1>3 DEF ShellInv, ShellTypes, ShellsCall
    <2>2. \A n, a : call[0].number = n /\ call[0].arg = a => call[0] = Call(n, a)
      BY <2>1 DEF CallType, Call
    <2>3. Serves(0, call[0])
      BY <2>1, <2>2 DEF Switch, Requested, Transfers, Numbers
    <2>4. served'[0] = <<call[0]>> /\ served' \in [{0, 8} -> Seq(CallType)]
      BY <1>1, <1>3, <2>3, ServedCall
    <2>5. shutdownFlag' \in BOOLEAN /\ (shutdownFlag' => call[0].number = "shutdown")
      <3>1. shutdownFlag' = shutdownFlag \/ (shutdownFlag' = TRUE /\ syscallArg = "shutdown")
        BY DEF Switch
      <3>2. syscallArg = call[0].number
        BY <2>1 DEF Requested
      <3>3. shutdownFlag' \in BOOLEAN
        BY <3>1 DEF ShellInv, ShellTypes
      <3>4. shutdownFlag' => call[0].number = "shutdown"
        BY <1>1, <3>1, <3>2
      <3> QED
        BY <3>3, <3>4
    <2>6. call[0] # Call("run", 5)
      <3> SUFFICES ASSUME call[0] = Call("run", 5) PROVE FALSE
        OBVIOUS
      <3>1. syscallArg = "run" /\ programSelector = 5
        BY <2>1 DEF Requested, Call, Transfers
      <3> QED
        BY <3>1 DEF Switch, OneShots, Transfers
    <2> QED
      BY <1>1, <1>3, <2>4, <2>5, <2>6
      DEF ShellInv, ShellTypes, ShellsCall, Example5Fed, Example8Call, DiskIsKnown,
          CallsServed, Answered, Loops
  <1> QED
    BY <1>2, <1>3 DEF ShellInv, ShellTypes

LEMMA LaunchPreserves == ShellInv /\ Launch => ShellInv'
  <1> SUFFICES ASSUME ShellInv, Launch PROVE ShellInv'
    OBVIOUS
  <1>1. /\ pc = "switch" /\ syscallArg = "run" /\ programSelector \in {4, 5, 8}
        /\ Serves(0, Call("run", programSelector))
        /\ doneFlag' = FALSE /\ heard' = <<>>
        /\ shutdownFlag' = shutdownFlag
        /\ programSelector' = programSelector /\ live' = live
        /\ call' = call /\ formats' = formats
        /\ stream' = stream /\ msgBuf' = msgBuf
    BY DEF Launch, tileVars
  <1>2. vfsPos' = IF programSelector = 8 THEN NoFileSystem ELSE vfsPos
    BY DEF Launch
  <1>3. pc' = IF programSelector = 4 THEN "ex4" ELSE IF programSelector = 5 THEN "ex5" ELSE "ex8"
    BY <1>1 DEF Launch
  <1>4. live[0] /\ call[0] \in CallType /\ call[0].number = "run" /\ call[0].arg = programSelector
    BY <1>1 DEF ShellInv, ShellTypes, ShellsCall, Requested, Transfers
  <1>5. call[0] = Call("run", programSelector)
    BY <1>4 DEF CallType, Call
  <1>6. served'[0] = <<call[0]>> /\ served' \in [{0, 8} -> Seq(CallType)]
    BY <1>1, <1>4, <1>5, ServedCall
  <1>7. ShellTypes'
    <2>1. vfsPos' \in Int /\ pc' \in Loops
      BY <1>1, <1>2, <1>3 DEF ShellInv, ShellTypes, NoFileSystem, Loops
    <2>2. shutdownFlag' \in BOOLEAN /\ doneFlag' \in BOOLEAN
      BY <1>1 DEF ShellInv, ShellTypes
    <2> QED
      BY <1>1, <1>6, <2>1, <2>2 DEF ShellInv, ShellTypes, NoFileSystem, Loops
  <1>8. ShellsCall'
    BY <1>1, <1>3, <1>4, <1>5, <1>6 DEF ShellInv, ShellsCall, Answered, Loops
  <1>9. Example5Fed' /\ Example8Call' /\ CallsServed' /\ DiskIsKnown'
    BY <1>1, <1>2, <1>3 DEF ShellInv, Example5Fed, Example8Call, CallsServed, DiskIsKnown
  <1> QED
    BY <1>7, <1>8, <1>9 DEF ShellInv

---------------------------------------------------------------------------
(***************************************************************************)
(* The programs with a loop of their own.                                  *)
(***************************************************************************)
LEMMA Example4KeyPreserves == ShellInv /\ Example4Key => ShellInv'
  <1> SUFFICES ASSUME ShellInv, Example4Key PROVE ShellInv'
    OBVIOUS
  <1>1. /\ pc = "ex4" /\ pc' = IF doneFlag' THEN "body" ELSE "ex4"
        /\ vfsPos' = vfsPos /\ shutdownFlag' = shutdownFlag
        /\ programSelector' = programSelector /\ live' = live
        /\ call' = call /\ served' = served /\ formats' = formats
        /\ stream' = stream /\ msgBuf' = msgBuf /\ heard' = heard
    BY DEF Example4Key, tileVars, ex5Vars
  <1>2. doneFlag' \in BOOLEAN
    BY DEF Example4Key
  <1>3. call[0] # Call("run", 5)
    BY <1>1 DEF ShellInv, ShellsCall, Call
  <1> QED
    BY <1>1, <1>2, <1>3
    DEF ShellInv, ShellTypes, ShellsCall, Example5Fed, Example8Call, DiskIsKnown,
        CallsServed, Answered, Loops

\* The host's buffer is read round and round.
LEMMA RoundAndRound ==
    ASSUME NEW n \in Nat, n > 1, NEW i \in 1 .. n
    PROVE  (i % n) + 1 = IF i = n THEN 1 ELSE i + 1
  <1>1. CASE i = n
    <2>1. n % n = 0
      OBVIOUS
    <2> QED
      BY <1>1, <2>1
  <1>2. CASE i # n
    <2>1. i % n = i
      BY <1>2
    <2> QED
      BY <1>2, <2>1
  <1> QED
    BY <1>1, <1>2

LEMMA Example5PassPreserves == ShellInv /\ Example5Pass => ShellInv'
  <1> SUFFICES ASSUME ShellInv, Example5Pass PROVE ShellInv'
    OBVIOUS
  <1>1. /\ pc = "ex5" /\ pc' = IF doneFlag' THEN "body" ELSE "ex5"
        /\ heard' = IF live[5] THEN Append(heard, msgBuf) ELSE heard
        /\ doneFlag' = (live[5] /\ msgBuf = "STOP")
        /\ live' = [live EXCEPT ![5] = ~doneFlag']
        /\ msgBuf' = Messages[stream] /\ stream' = (stream % Len(Messages)) + 1
        /\ vfsPos' = vfsPos /\ shutdownFlag' = shutdownFlag
        /\ programSelector' = programSelector
        /\ call' = call /\ served' = served /\ formats' = formats
    BY DEF Example5Pass, CopyMessage
  <1>2. doneFlag' \in BOOLEAN
    BY <1>1 DEF ShellInv, ShellTypes
  <1>3. live'[5] = ~doneFlag' /\ live'[0] = live[0] /\ live'[8] = live[8]
    BY <1>1 DEF ShellInv, ShellTypes
  <1>4. Len(Messages) \in Nat /\ Len(Messages) > 1 /\ Messages \in Seq(STRING)
    BY ShellAssumption
  <1>5. CASE ~live[5]
    <2>1. stream = 1 /\ heard = <<>> /\ ~doneFlag' /\ heard' = <<>>
      BY <1>1, <1>5 DEF ShellInv, Example5Fed
    <2>2. stream' = 2 /\ msgBuf' = Messages[1]
      BY <1>1, <1>4, <2>1
    <2>3. SubSeq(Messages, 1, 0) = <<>>
      BY <1>4
    <2> QED
      BY <1>1, <1>2, <1>3, <1>4, <2>1, <2>2, <2>3
      DEF ShellInv, ShellTypes, ShellsCall, Example5Fed, Example8Call, DiskIsKnown,
          CallsServed, Answered, Loops
  <1>6. CASE live[5]
    <2>1. /\ stream \in 2 .. Len(Messages) /\ msgBuf = Messages[stream - 1]
          /\ heard = SubSeq(Messages, 1, stream - 2)
      BY <1>1, <1>6 DEF ShellInv, Example5Fed
    <2>2. heard' = SubSeq(Messages, 1, stream - 1)
      <3>1. Append(SubSeq(Messages, 1, stream - 2), Messages[stream - 1])
                = SubSeq(Messages, 1, stream - 1)
        BY <1>4, <2>1
      <3> QED
        BY <1>1, <1>6, <2>1, <3>1
    <2>3. doneFlag' <=> stream = Len(Messages)
      <3>1. stream - 1 \in 1 .. Len(Messages) - 1
        BY <1>4, <2>1
      <3>2. Messages[stream - 1] = "STOP" <=> stream - 1 = Len(Messages) - 1
        BY <3>1, ShellAssumption
      <3> QED
        <4>1. doneFlag' <=> msgBuf = "STOP"
          BY <1>1, <1>6
        <4> QED
          BY <1>4, <2>1, <3>2, <4>1
    <2>4. (stream % Len(Messages)) + 1 = IF stream = Len(Messages) THEN 1 ELSE stream + 1
      <3>1. stream \in 1 .. Len(Messages)
        BY <1>4, <2>1
      <3> QED
        BY <1>4, <3>1, RoundAndRound
    <2>5. CASE stream = Len(Messages)
      <3>1. stream' = 1 /\ heard' = SubSeq(Messages, 1, Len(Messages) - 1)
        BY <1>1, <2>2, <2>5, <2>4
      <3> QED
        BY <1>1, <1>2, <1>3, <2>3, <2>5, <3>1
        DEF ShellInv, ShellTypes, ShellsCall, Example5Fed, Example8Call, DiskIsKnown,
            CallsServed, Answered, Loops
    <2>6. CASE stream # Len(Messages)
      <3>1. stream' = stream + 1 /\ stream' \in 2 .. Len(Messages)
        BY <1>1, <1>4, <2>1, <2>6, <2>4
      <3>2. msgBuf' = Messages[stream' - 1] /\ heard' = SubSeq(Messages, 1, stream' - 2)
        BY <1>1, <2>1, <2>2, <3>1
      <3> QED
        BY <1>1, <1>2, <1>3, <2>3, <2>6, <3>1, <3>2
        DEF ShellInv, ShellTypes, ShellsCall, Example5Fed, Example8Call, DiskIsKnown,
            CallsServed, Answered, Loops
    <2> QED
      BY <2>5, <2>6
  <1> QED
    BY <1>5, <1>6 DEF ShellInv, ShellTypes

LEMMA Example8YieldsPreserves == ShellInv /\ Example8Yields => ShellInv'
  <1> SUFFICES ASSUME ShellInv, Example8Yields PROVE ShellInv'
    OBVIOUS
  <1>1. /\ pc = "ex8" /\ pc' = "ex8switch"
        /\ served' = [served EXCEPT ![8] = <<>>]
        /\ live' = [live EXCEPT ![8] = TRUE]
        /\ shutdownFlag' = shutdownFlag /\ doneFlag' = doneFlag
        /\ programSelector' = programSelector /\ formats' = formats
        /\ stream' = stream /\ msgBuf' = msgBuf /\ heard' = heard
    BY DEF Example8Yields, ex5Vars
  <1>2. PICK b \in Blocks, action \in Transfers :
            /\ syscallArg' = action /\ vfsPos' = b
            /\ call' = [call EXCEPT ![8] = Call(action, b)]
    BY DEF Example8Yields
  <1>3. Call(action, b) \in CallType /\ b \in Int /\ b # NoFileSystem
    BY <1>2, ShellAssumption DEF Call, CallType, Numbers, Transfers, NoFileSystem
  <1>4. /\ live'[8] /\ live'[0] = live[0] /\ live'[5] = live[5]
        /\ call'[8] = Call(action, b) /\ call'[0] = call[0]
        /\ served'[8] = <<>> /\ served'[0] = served[0]
    BY <1>1, <1>2 DEF ShellInv, ShellTypes
  <1>5. ShellTypes'
    BY <1>1, <1>2, <1>3, EmptySeq DEF ShellInv, ShellTypes, Loops
  <1>6. ShellsCall' /\ Example5Fed' /\ CallsServed'
    BY <1>1, <1>4 DEF ShellInv, ShellsCall, Example5Fed, CallsServed, Answered, Loops
  <1>7. Example8Call' /\ DiskIsKnown'
    BY <1>1, <1>2, <1>3, <1>4 DEF ShellInv, Example8Call, DiskIsKnown
  <1> QED
    BY <1>5, <1>6, <1>7 DEF ShellInv

LEMMA Example8EndsPreserves == ShellInv /\ Example8Ends => ShellInv'
  <1> SUFFICES ASSUME ShellInv, Example8Ends PROVE ShellInv'
    OBVIOUS
  <1>1. /\ pc = "ex8" /\ live[8] /\ pc' = "ex8switch" /\ syscallArg' = "shutdown"
        /\ served' = [served EXCEPT ![8] = <<>>]
        /\ live' = [live EXCEPT ![8] = FALSE]
        /\ call' = [call EXCEPT ![8] = NoCall]
        /\ vfsPos' = vfsPos /\ shutdownFlag' = shutdownFlag /\ doneFlag' = doneFlag
        /\ programSelector' = programSelector /\ formats' = formats
        /\ stream' = stream /\ msgBuf' = msgBuf /\ heard' = heard
    BY DEF Example8Ends, ex5Vars
  <1>2. NoCall \in CallType
    BY DEF NoCall, Call, CallType
  <1>3. /\ ~live'[8] /\ live'[0] = live[0] /\ live'[5] = live[5]
        /\ call'[0] = call[0] /\ served'[0] = served[0]
    BY <1>1 DEF ShellInv, ShellTypes
  <1>4. ShellTypes'
    BY <1>1, <1>2, EmptySeq DEF ShellInv, ShellTypes, Loops
  <1>5. ShellsCall' /\ Example5Fed' /\ CallsServed'
    BY <1>1, <1>3 DEF ShellInv, ShellsCall, Example5Fed, CallsServed, Answered, Loops
  <1>6. Example8Call' /\ DiskIsKnown'
    BY <1>1, <1>3 DEF ShellInv, Example8Call, DiskIsKnown
  <1> QED
    BY <1>4, <1>5, <1>6 DEF ShellInv

LEMMA Example8SwitchPreserves == ShellInv /\ Example8Switch => ShellInv'
  <1> SUFFICES ASSUME ShellInv, Example8Switch PROVE ShellInv'
    OBVIOUS
  <1>1. /\ pc = "ex8switch" /\ pc' = IF doneFlag' THEN "body" ELSE "ex8"
        /\ doneFlag' = (doneFlag \/ syscallArg = "shutdown")
        /\ vfsPos' = vfsPos /\ shutdownFlag' = shutdownFlag /\ live' = live
        /\ programSelector' = programSelector /\ call' = call /\ formats' = formats
        /\ stream' = stream /\ msgBuf' = msgBuf /\ heard' = heard
    BY DEF Example8Switch, tileVars, ex5Vars
  <1>2. doneFlag' <=> syscallArg = "shutdown"
    BY <1>1 DEF ShellInv, Example8Call
  <1>3. doneFlag' \in BOOLEAN
    BY <1>1 DEF ShellInv, ShellTypes
  <1>4. vfsPos \in Blocks /\ vfsPos # NoFileSystem
    BY <1>1, ShellAssumption DEF ShellInv, Example8Call, NoFileSystem
  <1>5. call[0] # Call("run", 5)
    BY <1>1 DEF ShellInv, ShellsCall, Call
  <1>6. CASE live[8]
    <2>1. /\ served[8] = <<>> /\ syscallArg \in Transfers
          /\ call[8] = Call(syscallArg, vfsPos) /\ call[8] \in CallType
      BY <1>1, <1>6 DEF ShellInv, ShellTypes, Example8Call
    <2>2. served' = [served EXCEPT ![8] = <<call[8]>>]
      BY <2>1 DEF Example8Switch, Serves, ShellInv, ShellTypes
    <2>3. /\ served'[8] = <<call[8]>> /\ served'[0] = served[0]
          /\ served' \in [{0, 8} -> Seq(CallType)]
      <3>1. <<call[8]>> \in Seq(CallType)
        BY <2>1
      <3> QED
        BY <2>2, <3>1 DEF ShellInv, ShellTypes
    <2>4. ~doneFlag'
      BY <1>2, <2>1 DEF Transfers
    <2>5. ShellTypes'
      BY <1>1, <1>3, <2>3, <2>4 DEF ShellInv, ShellTypes, Loops
    <2> QED
      BY <1>1, <1>4, <1>6, <2>3, <2>4, <2>5
      DEF ShellInv, ShellsCall, Example5Fed, Example8Call, DiskIsKnown, CallsServed,
          Answered, Loops
  <1>7. CASE ~live[8]
    <2>1. syscallArg = "shutdown"
      BY <1>1, <1>7 DEF ShellInv, Example8Call
    <2>2. doneFlag' /\ pc' = "body" /\ served' = served
      BY <1>1, <1>2, <2>1 DEF Example8Switch, Transfers
    <2>3. ShellTypes'
      BY <1>1, <1>3, <2>2 DEF ShellInv, ShellTypes
    <2> QED
      BY <1>1, <1>4, <1>5, <1>7, <2>2, <2>3
      DEF ShellInv, ShellsCall, Example5Fed, Example8Call, DiskIsKnown, CallsServed,
          Answered, Loops
  <1> QED
    BY <1>6, <1>7 DEF ShellInv, ShellTypes

---------------------------------------------------------------------------
LEMMA StutterPreserves == ShellInv /\ UNCHANGED vars => ShellInv'
  BY DEF ShellInv, ShellTypes, ShellsCall, Requested, Example5Fed, Example8Call, DiskIsKnown,
         CallsServed, Answered, vars, shellVars, ex5Vars

LEMMA NextPreserves == ShellInv /\ [Next]_vars => ShellInv'
  BY TerminalInitPreserves, TerminalBodyPreserves, SwitchPreserves, LaunchPreserves,
     ReadKeyPreserves, Example4KeyPreserves, Example5PassPreserves,
     Example8YieldsPreserves, Example8EndsPreserves, Example8SwitchPreserves,
     StutterPreserves
  DEF Next, Device, User, Terminated

\* In every run of the shell the call of each tile is where ShellInv says it is.
THEOREM ShellInvariant == Spec => []ShellInv
  BY InitEstablishes, NextPreserves, PTL DEF Spec

\* Every system call of IPUpysh, and of the program it launches, is served once,
\* by the service it names, before its caller goes on; example 5 receives every
\* message of ex5MsgBuf_h up to STOP each time it is launched; the session ends by
\* the shell's own call alone.
THEOREM EachCallServedOnce == Spec => []CallsServed
  <1>1. ShellInv => CallsServed
    BY DEF ShellInv
  <1> QED
    BY <1>1, ShellInvariant, PTL

\* The disk of IPUpysh is formatted at most once, whatever its commands do to the
\* tensor that says whether it has a file system, and however often they fail.
THEOREM FilesAreKept == Spec => []FormattedOnce
  <1>1. ShellInv => FormattedOnce
    BY DEF ShellInv, DiskIsKnown, FormattedOnce
  <1> QED
    BY <1>1, ShellInvariant, PTL
===========================================================================
