------------------------------ MODULE Renderer ------------------------------
(***************************************************************************)
(* One call of Renderer.render (core.py:644-763): the worker's thread      *)
(* supervises a PHP process, a second thread feeds its standard input, and *)
(* a deadline runs.  The PHP side (renderer/bin/render.php,                *)
(* InvoiceRenderer::atomicWrite) reads its input, writes a file of its own *)
(* next to the output, renames it, prints a report and exits; it may fail, *)
(* print too much or hang at any point, and the agent may be killed, which *)
(* leaves PHP to itself.                                                   *)
(***************************************************************************)
EXTENDS Naturals

VARIABLES
  pc,       \* where render() is
  error,    \* the diagnostic of the RendererError, or "none"
  out,      \* what was read from the child's output
  expired,  \* the deadline has passed
  held,     \* the ends of the two pipes that the parent has open
  writer,   \* the thread that writes the snapshot to the child
  child,    \* the PHP process
  php,      \* how far PHP has come
  pipe,     \* what is in the pipe from the child and not read yet
  eof,      \* the child has closed its end of it
  temp,     \* the file output_name: absent, or the PDF
  inner,    \* PHP's own temporary file exists
  final     \* the artifact file: as before the call, or the new PDF

parent == <<pc, error, out>>
phpvars == <<child, php, pipe, eof, temp, inner>>
vars == <<parent, expired, held, writer, phpvars, final>>

Init == /\ pc = "start" /\ error = "none" /\ out = "empty"
        /\ expired = FALSE
        /\ held = {} /\ writer = "none"
        /\ child = "none" /\ php = "boot" /\ pipe = "empty" /\ eof = FALSE
        /\ temp = "absent" /\ inner = FALSE
        /\ final = "old"

\* mismatch is a report of another file, flood more than the 8192 bytes that are
\* accepted, garbage anything else that is neither a report nor a diagnostic.
Outputs == {"empty", "report", "mismatch", "diagnostic", "garbage", "flood"}

\* What a reader finds who gets b after a.
Join(a, b) == CASE a = "empty" -> b
                [] b = "empty" -> a
                [] OTHER -> IF "flood" \in {a, b} THEN "flood" ELSE "garbage"

Alive == child = "running"
Gone == child \in {"exit0", "exit1", "killed"}

-----------------------------------------------------------------------------
(* The PHP process.                                                        *)

ReadInput == /\ Alive /\ php = "boot" /\ writer \in {"closed", "ended"}
             /\ php' = "read"
             /\ UNCHANGED <<held, eof, parent, expired, writer, child, pipe, temp, inner, final>>

WriteInner == /\ Alive /\ php = "read"
              /\ php' = "written" /\ inner' = TRUE
              /\ UNCHANGED <<held, eof, parent, expired, writer, child, pipe, temp, final>>

\* Mutant: PHP is given the artifact file itself as its output.
RenameOver == /\ Alive /\ php = "written"
              /\ php' = "renamed" /\ inner' = FALSE /\ temp' = "pdf" /\ final' = "new"
              /\ UNCHANGED <<held, eof, parent, expired, writer, child, pipe>>

RenameInner == /\ Alive /\ php = "written"
               /\ php' = "renamed" /\ inner' = FALSE /\ temp' = "pdf"
               /\ UNCHANGED <<held, eof, parent, expired, writer, child, pipe, final>>

PrintReport == /\ Alive /\ php = "renamed"
               /\ php' = "reported" /\ pipe' \in {Join(pipe, "report"), Join(pipe, "mismatch")}
               /\ UNCHANGED <<held, eof, parent, expired, writer, child, temp, inner, final>>

\* fail() prints a diagnostic; the finally of atomicWrite removes its file.
PrintDiagnostic == /\ Alive /\ php \in {"boot", "read", "written", "renamed"}
                   /\ php' = "failing" /\ pipe' = Join(pipe, "diagnostic") /\ inner' = FALSE
                   /\ UNCHANGED <<held, eof, parent, expired, writer, child, temp, final>>

\* Warnings of PHP or its libraries, on the same pipe.
PrintWarning == /\ Alive /\ ~eof /\ pipe' = Join(pipe, "garbage")
                /\ UNCHANGED <<held, eof, parent, expired, writer, child, php, temp, inner, final>>

\* So many of them that they are not accepted.
PrintTooMuch == /\ Alive /\ ~eof /\ pipe' = "flood"
                /\ UNCHANGED <<held, eof, parent, expired, writer, child, php, temp, inner, final>>

\* At the end of the script PHP closes its output, a little before it exits.
CloseOutput == /\ Alive /\ ~eof /\ php \in {"reported", "failing"}
               /\ eof' = TRUE
               /\ UNCHANGED <<held, parent, expired, writer, child, php, pipe, temp, inner, final>>

Exit == /\ Alive /\ eof
        /\ child' = IF php = "reported" THEN "exit0" ELSE "exit1"
        /\ UNCHANGED <<held, parent, expired, writer, php, pipe, eof, temp, inner, final>>

\* The kernel kills it for memory, or systemd with the rest of the unit.
OomKill == /\ Alive
           /\ child' = "killed" /\ eof' = TRUE
           /\ UNCHANGED <<held, parent, expired, writer, php, pipe, temp, inner, final>>

-----------------------------------------------------------------------------
(* The writer thread and the clock.                                        *)

\* The snapshot fits the pipe or PHP reads it.
WriteStdin == /\ writer = "writing" /\ Alive /\ writer' = "closed"
              /\ held' = held \ {"stdin"}
              /\ UNCHANGED <<parent, expired, phpvars, final>>

\* The thread ends some time after it closed the pipe.
WriterEnds == /\ writer = "closed" /\ writer' = "ended"
              /\ UNCHANGED <<held, parent, expired, phpvars, final>>

\* The write fails, which leaves the end open, or the close does, which does not.
BrokenPipe == /\ writer = "writing" /\ Gone /\ writer' = "error"
              /\ held' \in {held, held \ {"stdin"}}
              /\ UNCHANGED <<parent, expired, phpvars, final>>

Deadline == /\ ~expired /\ pc \in {"poll", "selected", "wait"} /\ expired' = TRUE
            /\ UNCHANGED <<held, parent, writer, phpvars, final>>

\* The agent is killed, and its threads and pipes go with it: the snapshot is
\* cut short, or was all in the pipe already.  PHP runs on.
Dies == /\ pc \notin {"end", "dead"}
        /\ pc' = "dead" /\ held' = {}
        /\ writer' \in IF writer = "writing" THEN {"closed", "error"} ELSE {writer}
        /\ UNCHANGED <<error, out, expired, phpvars, final>>

-----------------------------------------------------------------------------
(* Renderer.render.                                                        *)

Raise(code) == pc' = "cleanup" /\ error' = code

StartPhp == /\ pc = "start"
            /\ child' = "running" /\ writer' = "writing" /\ pc' = "poll"
            /\ held' = {"stdin", "stdout"}
            /\ UNCHANGED <<eof, error, out, expired, php, pipe, temp, inner, final>>

\* The snapshot is too large, mkstemp fails or Popen does.
StartFails == /\ pc = "start"
              /\ \E code \in {"renderer_input_rejected", "renderer_artifact_failed",
                             "renderer_start_failed"} : Raise(code)
              /\ UNCHANGED <<held, out, expired, writer, phpvars, final>>

\* Mutant: the loop does not look at the deadline.
TimeOutNever == FALSE

\* The loop notices the deadline: the process group is killed and reaped.
TimeOut == /\ pc = "poll" /\ expired
           /\ Raise("renderer_timed_out")
           /\ child' = IF Alive THEN "killed" ELSE child
           /\ UNCHANGED <<held, eof, out, expired, writer, php, pipe, temp, inner, final>>

\* select finds output and it is read; too much of it ends the render.
ReadChunk == /\ pc = "poll" /\ ~expired /\ pipe # "empty" /\ Join(out, pipe) # "flood"
             /\ out' = Join(out, pipe) /\ pipe' = "empty"
             /\ UNCHANGED <<held, eof, pc, error, expired, writer, child, php, temp, inner, final>>

ReadFlood == /\ pc = "poll" /\ ~expired /\ pipe # "empty" /\ Join(out, pipe) = "flood"
             /\ out' = "flood" /\ pipe' = "empty"
             /\ Raise("renderer_output_overflow")
             /\ child' = IF Alive THEN "killed" ELSE child
             /\ UNCHANGED <<held, eof, expired, writer, php, temp, inner, final>>

\* The output is closed and drained: os.read returns nothing.
ReadEof == /\ pc = "poll" /\ ~expired /\ (eof \/ Gone) /\ pipe = "empty"
           /\ pc' = "wait"
           /\ UNCHANGED <<held, error, out, expired, writer, phpvars, final>>

\* select returns after 0.2 s with nothing to read.
SelectTimesOut == /\ pc = "poll" /\ ~expired /\ Alive /\ ~eof /\ pipe = "empty"
                  /\ pc' = "selected"
                  /\ UNCHANGED <<held, error, out, expired, writer, phpvars, final>>

\* process.poll() after that: the child may have printed and exited since.
PollRunning == /\ pc = "selected" /\ Alive
               /\ pc' = "poll"
               /\ UNCHANGED <<held, error, out, expired, writer, phpvars, final>>

PollGone == /\ pc = "selected" /\ Gone
            /\ pc' = "wait"
            /\ UNCHANGED <<held, error, out, expired, writer, phpvars, final>>

WaitOk == /\ pc = "wait" /\ child = "exit0"
          /\ pc' = "join"
          /\ UNCHANGED <<held, error, out, expired, writer, phpvars, final>>

WaitBadStatus == /\ pc = "wait" /\ child \in {"exit1", "killed"}
                 /\ Raise("renderer_exit")
                 /\ UNCHANGED <<held, out, expired, writer, phpvars, final>>

\* process.wait(timeout) meets the deadline: killed and reaped.
WaitTimesOut == /\ pc = "wait" /\ Alive /\ expired
                /\ Raise("renderer_timed_out")
                /\ child' = "killed"
                /\ UNCHANGED <<held, out, expired, writer, php, pipe, eof, temp, inner, final>>

\* writer.join(timeout=1): the thread is over, or the second is.
JoinOk == /\ pc = "join" /\ writer = "ended"
          /\ pc' = "check"
          /\ UNCHANGED <<held, error, out, expired, writer, phpvars, final>>

JoinFails == /\ pc = "join" /\ writer # "ended"
             /\ Raise("renderer_input_failed")
             /\ UNCHANGED <<held, out, expired, writer, phpvars, final>>

\* Mutant: the file is put in place before the report is checked.
CheckAfterReplace == /\ pc = "check" /\ temp = "pdf"
                     /\ final' = "new" /\ temp' = "absent"
                     /\ pc' = "cleanup" /\ error' = IF out = "report" THEN "none" ELSE "renderer_invalid_report"
                     /\ UNCHANGED <<held, eof, out, expired, writer, child, php, pipe, inner>>

\* The report is the one of PHP and the file has its size, head and digest:
\* os.replace.
CheckOk == /\ pc = "check" /\ out = "report" /\ temp = "pdf"
           /\ final' = "new" /\ temp' = "absent"
           /\ pc' = "cleanup"
           /\ UNCHANGED <<held, eof, error, out, expired, writer, child, php, pipe, inner>>

\* Mutant: a diagnostic that is not on the fixed list.
CheckFailsUnlisted == /\ pc = "check" /\ out # "report"
                      /\ Raise("renderer_digest_mismatch")
                      /\ UNCHANGED <<held, out, expired, writer, phpvars, final>>

\* No report, something besides it, or one of another size or digest.
CheckFails == /\ pc = "check" /\ out # "report"
              /\ Raise("renderer_invalid_report")
              /\ UNCHANGED <<held, out, expired, writer, phpvars, final>>

\* The PDF exceeds pdf_max_bytes, or reading or renaming it is an OSError.
FileRefused == /\ pc = "check" /\ out = "report"
               /\ \E code \in {"renderer_invalid_pdf", "renderer_artifact_failed"} : Raise(code)
               /\ UNCHANGED <<held, out, expired, writer, phpvars, final>>

\* Mutant: the finally forgets the output file.
CleanupKeepsOutput == /\ pc = "cleanup"
                      /\ child' = IF Alive THEN "killed" ELSE child
                      /\ pc' = "end" /\ held' = {}
                      /\ UNCHANGED <<eof, error, out, expired, writer, php, pipe, temp, inner, final>>

\* The finally: a live process is killed and reaped, the pipe ends that are still open
\* are closed, then the output is unlinked.
Cleanup == /\ pc = "cleanup"
           /\ child' = IF Alive THEN "killed" ELSE child
           /\ held' = {} /\ temp' = "absent" /\ pc' = "end"
           /\ UNCHANGED <<eof, error, out, expired, writer, php, pipe, inner, final>>

-----------------------------------------------------------------------------
Php == ReadInput \/ WriteInner \/ RenameInner \/ PrintReport \/ PrintDiagnostic
       \/ PrintWarning \/ PrintTooMuch \/ CloseOutput \/ Exit \/ OomKill
Render == \/ StartPhp \/ StartFails \/ TimeOut \/ ReadChunk \/ ReadFlood \/ ReadEof
          \/ SelectTimesOut \/ PollRunning \/ PollGone \/ WaitOk \/ WaitBadStatus \/ WaitTimesOut
          \/ JoinOk \/ JoinFails \/ CheckOk \/ CheckFails \/ FileRefused \/ Cleanup
Next == Php \/ WriteStdin \/ WriterEnds \/ BrokenPipe \/ Deadline \/ Dies \/ Render

Spec == Init /\ [][Next]_vars

(* Only render() itself and the clock are fair: PHP and the writer thread  *)
(* may hang for ever.                                                      *)
FairSpec == Spec /\ WF_vars(Render) /\ WF_vars(Deadline)

-----------------------------------------------------------------------------
(* Properties.                                                             *)

TypeOK ==
  /\ pc \in {"start", "poll", "selected", "wait", "join", "check", "cleanup", "end", "dead"}
  /\ error \in {"none", "renderer_start_failed", "renderer_timed_out", "renderer_output_overflow",
                "renderer_exit", "renderer_input_failed", "renderer_invalid_report",
                "renderer_invalid_pdf", "renderer_input_rejected", "renderer_artifact_failed"}
  /\ out \in Outputs /\ pipe \in Outputs
  /\ held \subseteq {"stdin", "stdout"}
  /\ expired \in BOOLEAN /\ eof \in BOOLEAN /\ inner \in BOOLEAN
  /\ writer \in {"none", "writing", "closed", "ended", "error"}
  /\ child \in {"none", "running", "exit0", "exit1", "killed"}
  /\ php \in {"boot", "read", "written", "renamed", "reported", "failing"}
  /\ temp \in {"absent", "pdf"} /\ final \in {"old", "new"}

\* The artifact file is replaced exactly when render() returns normally, and
\* then PHP had read the whole snapshot, reported success and exited with 0
\* (core.py:703-741).
ReplacedOnlyOnSuccess ==
  /\ final = "new" => error = "none" /\ child = "exit0" /\ php = "reported" /\ writer = "ended"
  /\ pc = "end" /\ error = "none" => final = "new"

\* When render() is over nothing of it is left that could still write or that uses up
\* a descriptor: the process is dead, both pipe ends are closed and the output path is
\* gone (core.py:743-763).
EndIsClean == pc = "end" => ~Alive /\ held = {} /\ temp = "absent"

\* The agent being killed apart, render() comes to an end although PHP may hang anywhere,
\* read nothing or never stop printing, and the writer thread may block (core.py:685-712).
RenderReturns == <>(pc \in {"end", "dead"})

\* What the caller has of the call.
Outcome == IF pc = "dead" THEN "lost"
           ELSE IF error # "none" THEN "failed"
           ELSE IF final = "new" THEN "ok" ELSE "open"

Call == INSTANCE Call WITH file <- final, outcome <- Outcome

\* The call is atomic for the artifact file: it changes in the step that decides
\* on success and in no other, not by a PHP process that outlives the deadline
\* or the agent (core.py:655-661, 686-740).
ImplementsCall == Call!Spec

\* protocol.md:149 says that a rendering error reports "failed"; a PHP run that
\* took the snapshot, wrote a PDF that is not too large, printed its report and
\* nothing else and exited with 0 before the deadline is none (core.py:691-703);
\* a writer thread that does not end in its second is left out.
SuccessIsNotReportedFailed ==
  /\ pc = "end" /\ child = "exit0" /\ writer = "ended" /\ ~expired
  /\ {pipe, out} \subseteq {"empty", "report"}
  => error \in {"none", "renderer_input_failed", "renderer_invalid_pdf", "renderer_artifact_failed"}
=============================================================================
