--------------------------- MODULE RendererProofs ---------------------------
(***************************************************************************)
(* Theorems about one call of Renderer.render: for a PHP process that may  *)
(* do anything but touch the artifact file, and an agent that may be       *)
(* killed at any point.                                                    *)
(***************************************************************************)
EXTENDS Renderer, TLAPS

\* Which places render() reaches by raising only.
ErrorEndsIt == error # "none" => pc \in {"cleanup", "end", "dead"} /\ final = "old"

\* Before Popen there is no process and no thread; without a process there is no
\* output, and the call is failing.
ChildFollows == /\ pc = "start" => child = "none" /\ writer = "none"
                /\ child = "none" => pc \in {"start", "cleanup", "end", "dead"} /\ temp = "absent"
                /\ child = "exit0" => php = "reported"

\* What each of the checks before os.replace leaves behind.
ChecksHold == /\ pc \in {"join", "check"} => child = "exit0"
              /\ pc = "check" => writer = "ended"
              /\ final = "new" => /\ pc \in {"cleanup", "end", "dead"}
                                  /\ child = "exit0" /\ writer = "ended"

\* The finally is reached by a raise or by the return after os.replace.
FinallyFollows == pc \in {"cleanup", "end"} => error # "none" \/ final = "new"

IInv == TypeOK /\ ErrorEndsIt /\ ChildFollows /\ ChecksHold /\ FinallyFollows /\ EndIsClean

USE DEF IInv, ErrorEndsIt, ChildFollows, ChecksHold, FinallyFollows, EndIsClean, TypeOK,
        Alive, Gone, parent, phpvars

\* Nothing but the kinds of output there are comes of joining two of them.
LEMMA JoinTypes ==
  /\ \A a, b \in Outputs : Join(a, b) \in Outputs
  /\ {"empty", "report", "mismatch", "diagnostic", "garbage", "flood"} \subseteq Outputs
  BY DEF Outputs, Join

LEMMA InitInv == Init => IInv
  BY JoinTypes DEF Init

LEMMA PhpStep == IInv /\ Php => IInv'
<1> SUFFICES ASSUME IInv, Php PROVE IInv'
  OBVIOUS
<1>1. CASE ReadInput
  BY <1>1 DEF ReadInput
<1>2. CASE WriteInner
  BY <1>2 DEF WriteInner
<1>3. CASE RenameInner
  <2>1. inner' \in BOOLEAN
    BY <1>3, Zenon DEF RenameInner
  <2> QED
    BY <1>3, <2>1 DEF RenameInner
<1>4. CASE PrintReport
  <2>1. pipe' \in Outputs
    BY <1>4, JoinTypes DEF PrintReport
  <2>2. php' = "reported" /\ UNCHANGED <<held, eof, parent, expired, writer, child, temp, inner, final>>
    BY <1>4 DEF PrintReport
  <2> QED
    BY <2>1, <2>2
<1>5. CASE PrintDiagnostic
  <2>1. inner' \in BOOLEAN
    BY <1>5, Zenon DEF PrintDiagnostic
  <2>2. pipe' \in Outputs
    BY <1>5, JoinTypes DEF PrintDiagnostic
  <2>3. php' = "failing" /\ UNCHANGED <<held, eof, parent, expired, writer, child, temp, final>>
    BY <1>5 DEF PrintDiagnostic
  <2>4. child # "exit0"
    BY <1>5 DEF PrintDiagnostic
  <2> QED
    BY <2>1, <2>2, <2>3, <2>4
<1>6. CASE PrintWarning \/ PrintTooMuch
  <2>1. pipe' \in Outputs
    BY <1>6, JoinTypes DEF PrintWarning, PrintTooMuch
  <2>2. UNCHANGED <<held, eof, parent, expired, writer, child, php, temp, inner, final>>
    BY <1>6 DEF PrintWarning, PrintTooMuch
  <2> QED
    BY <2>1, <2>2
<1>7. CASE CloseOutput
  BY <1>7 DEF CloseOutput
<1>8. CASE Exit
  BY <1>8 DEF Exit
<1>9. CASE OomKill
  BY <1>9 DEF OomKill
<1> QED
  BY <1>1, <1>2, <1>3, <1>4, <1>5, <1>6, <1>7, <1>8, <1>9 DEF Php

LEMMA RenderStep == IInv /\ Render => IInv'
<1> SUFFICES ASSUME IInv, Render PROVE IInv'
  OBVIOUS
<1>1. CASE StartPhp
  BY <1>1 DEF StartPhp
<1>2. CASE StartFails
  BY <1>2 DEF StartFails, Raise
<1>3. CASE TimeOut
  BY <1>3 DEF TimeOut, Raise
<1>4. CASE ReadChunk
  <2>1. out' \in Outputs /\ pipe' \in Outputs
    BY <1>4, JoinTypes DEF ReadChunk
  <2> QED
    BY <1>4, <2>1 DEF ReadChunk
<1>5. CASE ReadFlood
  BY <1>5, JoinTypes DEF ReadFlood, Raise
<1>6. CASE ReadEof
  BY <1>6 DEF ReadEof
<1>7. CASE SelectTimesOut
  BY <1>7 DEF SelectTimesOut
<1>8. CASE PollRunning
  BY <1>8 DEF PollRunning
<1>9. CASE PollGone
  BY <1>9 DEF PollGone
<1>10. CASE WaitOk
  BY <1>10 DEF WaitOk
<1>11. CASE WaitBadStatus
  BY <1>11 DEF WaitBadStatus, Raise
<1>12. CASE WaitTimesOut
  BY <1>12 DEF WaitTimesOut, Raise
<1>13. CASE JoinOk
  BY <1>13 DEF JoinOk
<1>14. CASE JoinFails
  BY <1>14 DEF JoinFails, Raise
<1>15. CASE CheckOk
  BY <1>15 DEF CheckOk
<1>16. CASE CheckFails
  BY <1>16 DEF CheckFails, Raise
<1>17. CASE FileRefused
  BY <1>17 DEF FileRefused, Raise
<1>18. CASE Cleanup
  BY <1>18 DEF Cleanup
<1> QED
  BY <1>1, <1>2, <1>3, <1>4, <1>5, <1>6, <1>7, <1>8, <1>9, <1>10, <1>11, <1>12, <1>13, <1>14, <1>15, <1>16, <1>17, <1>18 DEF Render

LEMMA StepInv == IInv /\ [Next]_vars => IInv'
<1> SUFFICES ASSUME IInv, [Next]_vars PROVE IInv'
  OBVIOUS
<1>1. CASE WriteStdin
  BY <1>1 DEF WriteStdin
<1>2. CASE WriterEnds
  BY <1>2 DEF WriterEnds
<1>3. CASE BrokenPipe
  BY <1>3 DEF BrokenPipe
<1>4. CASE Deadline
  BY <1>4 DEF Deadline
<1>5. CASE Dies
  BY <1>5 DEF Dies
<1>6. CASE UNCHANGED vars
  <2>1. /\ pc' = pc /\ error' = error /\ out' = out /\ expired' = expired /\ held' = held
        /\ writer' = writer /\ child' = child /\ php' = php /\ pipe' = pipe /\ eof' = eof /\ temp' = temp
        /\ inner' = inner /\ final' = final
    BY <1>6 DEF vars
  <2> QED
    BY <2>1
<1> QED
  BY <1>1, <1>2, <1>3, <1>4, <1>5, <1>6, PhpStep, RenderStep DEF Next

HIDE DEF IInv, TypeOK, EndIsClean

LEMMA Invariance == Spec => []IInv
  BY InitInv, StepInv, PTL DEF Spec

\* The types of the call, its threads and its process (core.py:644-763).
THEOREM RendererTypes == Spec => []TypeOK
<1>1. IInv => TypeOK
  BY DEF IInv
<1> QED
  BY <1>1, Invariance, PTL

\* os.replace comes after every check, and nothing but os.replace ends the call
\* without a raise (core.py:703-741).
THEOREM ReplacedOnSuccess == Spec => []ReplacedOnlyOnSuccess
<1>1. IInv => ReplacedOnlyOnSuccess
  BY DEF IInv, TypeOK, EndIsClean, ReplacedOnlyOnSuccess
<1> QED
  BY <1>1, Invariance, PTL

\* The finally kills the process, closes what the call still has of the two pipes and
\* unlinks the output, on every way out of the call (core.py:743-763).
THEOREM EndLeavesNothing == Spec => []EndIsClean
<1>1. IInv => EndIsClean
  BY DEF IInv
<1> QED
  BY <1>1, Invariance, PTL

-----------------------------------------------------------------------------
(* The call is atomic for the artifact file.                               *)

LEMMA CallInit == Init => Call!Init
  BY DEF Init, Call!Init, Outcome

\* A step that leaves the file and the error alone and render() alive or dead is
\* a stutter of the call; so are all steps of PHP, the writer and the clock.
LEMMA QuietStep ==
  ASSUME UNCHANGED <<final, error>>, pc' = "dead" <=> pc = "dead"
  PROVE  UNCHANGED <<final, Outcome>>
  BY DEF Outcome

LEMMA CallStep == IInv /\ [Next]_vars => [Call!Next]_<<final, Outcome>>
<1> SUFFICES ASSUME IInv, [Next]_vars PROVE [Call!Next]_<<final, Outcome>>
  OBVIOUS
<1> USE DEF Call!Next, IInv, TypeOK, EndIsClean
<1>1. CASE Dies
  BY <1>1 DEF Dies, Call!Lose, Outcome
<1>2. CASE CheckOk
  BY <1>2 DEF CheckOk, Call!Succeed, Outcome
<1>3. ASSUME NEW code, code # "none", pc # "dead", final = "old", error = "none",
             Raise(code), UNCHANGED final
      PROVE  Call!Fail
  BY <1>3 DEF Raise, Call!Fail, Outcome
<1>4. CASE StartFails \/ FileRefused
  BY <1>3, <1>4 DEF StartFails, FileRefused
<1>5. CASE TimeOut \/ WaitTimesOut
  BY <1>3, <1>5 DEF TimeOut, WaitTimesOut
<1>6. CASE ReadFlood \/ WaitBadStatus \/ JoinFails \/ CheckFails
  BY <1>3, <1>6 DEF ReadFlood, WaitBadStatus, JoinFails, CheckFails
<1>7. CASE Php \/ WriteStdin \/ WriterEnds \/ BrokenPipe \/ Deadline
  BY <1>7, QuietStep DEF Php, ReadInput, WriteInner, RenameInner, PrintReport, PrintDiagnostic,
     PrintWarning, PrintTooMuch, CloseOutput, Exit, OomKill, WriteStdin, WriterEnds, BrokenPipe, Deadline
<1>8. CASE StartPhp \/ ReadChunk \/ ReadEof \/ SelectTimesOut \/ PollRunning \/ PollGone
  BY <1>8, QuietStep DEF StartPhp, ReadChunk, ReadEof, SelectTimesOut, PollRunning, PollGone
<1>9. CASE WaitOk \/ JoinOk \/ Cleanup \/ UNCHANGED vars
  BY <1>9, QuietStep DEF WaitOk, JoinOk, Cleanup, vars
<1> QED
  BY <1>1, <1>2, <1>4, <1>5, <1>6, <1>7, <1>8, <1>9 DEF Next, Render

\* The artifact file changes in the step that decides on success and in no other,
\* whatever PHP does and whenever the agent is killed (core.py:655-661, 686-740).
THEOREM RendererImplementsCall == Spec => ImplementsCall
<1>1. IInv /\ [Next]_vars => [Call!Next]_<<final, Outcome>>
  BY CallStep
<1> QED
  BY <1>1, CallInit, Invariance, PTL DEF Spec, ImplementsCall, Call!Spec
=============================================================================
