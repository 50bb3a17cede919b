---------------------------- MODULE ReplService ----------------------------
(***************************************************************************)
(* What the multi-REPL promises its user: one REPL made of many.  Each     *)
(* character typed is answered exactly once by every interpreter, in any   *)
(* order, and only then are all the answers reported, all of them whole.   *)
(* Nothing is said of coroutines, passes, flags or buffers.                *)
(***************************************************************************)
EXTENDS Naturals

CONSTANT Interpreters

VARIABLES
    phase,    \* where the session is
    answers,  \* how often each interpreter has answered the character
    heard     \* interpreters whose whole answer is in the report

vars == <<phase, answers, heard>>

Nobody == [i \in Interpreters |-> 0]

Init == phase = "starting" /\ answers = Nobody /\ heard = {}

Start == phase = "starting" /\ phase' = "ready" /\ UNCHANGED <<answers, heard>>

Type == phase = "ready" /\ phase' = "busy" /\ UNCHANGED <<answers, heard>>

Answer(i) ==
    /\ phase = "busy" /\ answers[i] = 0
    /\ answers' = [answers EXCEPT ![i] = 1]
    /\ UNCHANGED <<phase, heard>>

Collect ==
    /\ phase = "busy" /\ \A i \in Interpreters : answers[i] = 1
    /\ phase' = "reporting" /\ heard' = Interpreters
    /\ UNCHANGED answers

Report ==
    /\ phase = "reporting"
    /\ phase' = "ready" /\ heard' = {} /\ answers' = Nobody

Quit == phase = "ready" /\ phase' = "over" /\ UNCHANGED <<answers, heard>>

Next ==
    \/ Start \/ Type \/ Collect \/ Report \/ Quit
    \/ \E i \in Interpreters : Answer(i)

\* A typed character does not stay unanswered, nor an answer unreported.
Spec ==
    /\ Init /\ [][Next]_vars
    /\ WF_vars(Start) /\ WF_vars(Collect) /\ WF_vars(Report)
    /\ \A i \in Interpreters : WF_vars(Answer(i))
=============================================================================
