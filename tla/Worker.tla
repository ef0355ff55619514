------------------------------- MODULE Worker -------------------------------
(***************************************************************************)
(* The polling worker of the PDF agent: Agent.cycle and what it calls      *)
(* (pdf_agent/core.py:796-907), over the two SQLite tables and the         *)
(* artifact directory of StateStore (core.py:258-485).  One action is one  *)
(* stretch of code between two points at which the process can die or at   *)
(* which the ADMIN service is asked: a committed transaction, a rename, an *)
(* unlink, a POST.  ADMIN is external; it is modelled by the answers that  *)
(* the code has to cope with: lost requests, lost answers, answers that    *)
(* are no success, requests that arrive after the caller gave up, tasks    *)
(* that are handed out again, tasks that reuse an id.                      *)
(***************************************************************************)
EXTENDS Naturals, FiniteSets

CONSTANTS
  Ids,         \* task ids
  Artifacts,   \* artifact ids
  Revisions,   \* artifact revisions
  Tasks,       \* the task payloads ADMIN may hand out
  Refused,     \* the payloads validate_task refuses
  Digests,     \* SHA256 digests of rendered PDFs
  None,        \* no file, no digest, no task, no completion
  MaxFaults,   \* bound on crashes, lost or refused POSTs and stops
  MaxOffers    \* bound on how often ADMIN queues a task

Task == [id : Ids, type : {"render", "invalidate"},
         artifact : Artifacts, revision : Revisions]
Result == [status : {"ready", "revoked", "failed"}, sha : Digests \cup {None}]
Row == [status : {"absent", "ready", "revoked"}, revision : Nat,
        sha : Digests \cup {None}]
Completion == [task : Task, result : Result, delivered : BOOLEAN]
FileName == Artifacts \X Revisions

ASSUME TasksAssumption == Tasks \subseteq Task /\ Refused \subseteq Tasks
ASSUME RevisionsAssumption == Revisions \subseteq Nat
ASSUME NoneAssumption == /\ None \notin Digests
                         /\ None \notin Task
                         /\ None \notin Completion
ASSUME BoundsAssumption == MaxFaults \in Nat /\ MaxOffers \in Nat

VARIABLES
  row,       \* table artifacts: the one row of each artifact id
  done,      \* table completions: the one row of each task id, or None
  files,     \* the artifact directory: digest of each final file, or None
  pc,        \* where the worker's only thread is
  job,       \* the task in hand (its id and artifact name what is reported)
  result,    \* the result computed for the task in hand
  victims,   \* the superseded file that is still to be unlinked
  draining,  \* the report in progress was started by _deliver_pending
  beatDue,   \* time.monotonic() >= _next_heartbeat
  queue,     \* ADMIN: tasks handed out or to be handed out, not completed
  told,      \* ADMIN: the results it has accepted for each task id
  late,      \* completion POSTs that timed out and may still reach ADMIN
  pruned,    \* history: the task ids whose completion row was pruned once
  faults, offers

store  == <<row, done, files>>
memory == <<job, result, victims, draining>>
admin  == <<queue, told, late>>
vars   == <<store, pc, memory, beatDue, admin, pruned, faults, offers>>

NoRow    == [status |-> "absent", revision |-> 0, sha |-> None]
Failed   == [status |-> "failed", sha |-> None]
\* Mutant: the result carries a status ADMIN does not know.
RevokedMisnamed == [status |-> "deleted", sha |-> None]
Revoked  == [status |-> "revoked", sha |-> None]
Ready(d) == [status |-> "ready", sha |-> d]

\* Renderer.render's final_name: one file name per artifact and revision.
FileOf(a, r) == <<a, r>>

Undelivered == {i \in Ids : done[i] # None /\ ~done[i].delivered}

Init == /\ row = [a \in Artifacts |-> NoRow]
        /\ done = [i \in Ids |-> None]
        /\ files = [f \in FileName |-> None]
        /\ pc = "down"
        /\ job = None /\ result = Failed /\ victims = {} /\ draining = FALSE
        /\ beatDue = TRUE
        /\ queue = {} /\ told = [i \in Ids |-> {}] /\ late = {}
        /\ pruned = {} /\ faults = 0 /\ offers = 0

Fault == faults < MaxFaults /\ faults' = faults + 1

-----------------------------------------------------------------------------
(* The process: systemd starts it, anything may kill it.                   *)

\* A new process: Agent.__init__ sets _next_heartbeat to 0.
Start == /\ pc = "down"
         /\ pc' = "idle" /\ beatDue' = TRUE
         /\ UNCHANGED <<store, memory, admin, pruned, faults, offers>>

\* SIGKILL, an exception run() does not catch (sqlite3.Error, OSError of an unlink,
\* http.client's HTTPException): tables and files stay as they are, memory is gone.  A
\* completion POST in flight may or may not reach ADMIN later.
Crash == /\ pc # "down" /\ Fault
         /\ pc' = "down"
         /\ job' = None /\ result' = Failed /\ victims' = {} /\ draining' = FALSE
         /\ \/ late' = late
            \/ pc = "report" /\ late' = late \cup {<<job.id, result>>}
         /\ UNCHANGED <<store, beatDue, queue, told, pruned, offers>>

\* A POST is answered by 401 or by an explicit binding conflict: run() leaves
\* its loop and the process ends.
StopOnVerdict == /\ \/ pc = "idle" /\ beatDue
                    \/ pc \in {"report", "claim"}
                 /\ Fault
                 /\ pc' = "down"
                 /\ job' = None /\ result' = Failed /\ victims' = {} /\ draining' = FALSE
                 /\ UNCHANGED <<store, beatDue, admin, pruned, offers>>

\* An AgentError ends the cycle; run() waits and starts the next one.
AbandonCycle == /\ pc' = "idle"
                /\ job' = None /\ result' = Failed /\ victims' = {} /\ draining' = FALSE

-----------------------------------------------------------------------------
(* Agent.cycle up to the claim.                                            *)

BeatFallsDue == /\ pc = "idle" /\ ~beatDue
                /\ beatDue' = TRUE
                /\ UNCHANGED <<store, pc, memory, admin, pruned, faults, offers>>

Heartbeat == /\ pc = "idle" /\ beatDue
             /\ pc' = "prune" /\ beatDue' = FALSE
             /\ UNCHANGED <<store, memory, admin, pruned, faults, offers>>

HeartbeatFails == /\ pc = "idle" /\ beatDue /\ Fault
                  /\ AbandonCycle
                  /\ UNCHANGED <<store, beatDue, admin, pruned, offers>>

SkipHeartbeat == /\ pc = "idle" /\ ~beatDue
                 /\ pc' = "prune"
                 /\ UNCHANGED <<store, memory, beatDue, admin, pruned, faults, offers>>

\* Mutant: the DELETE forgets delivered=1.
PruneUndelivered == /\ pc = "prune"
                    /\ \E old \in SUBSET {i \in Ids : done[i] # None} :
                         /\ done' = [i \in Ids |-> IF i \in old THEN None ELSE done[i]]
                         /\ pruned' = pruned \cup old
                    /\ pc' = "deliver"
                    /\ UNCHANGED <<row, files, memory, beatDue, admin, faults, offers>>

\* The two DELETEs select by age and by rank, and only delivered rows: any
\* set of delivered rows may go.
Prune == /\ pc = "prune"
         /\ \E old \in SUBSET {i \in Ids : done[i] # None /\ done[i].delivered} :
              /\ done' = [i \in Ids |-> IF i \in old THEN None ELSE done[i]]
              /\ pruned' = pruned \cup old
         /\ pc' = "deliver"
         /\ UNCHANGED <<row, files, memory, beatDue, admin, faults, offers>>

\* _deliver_pending walks the undelivered rows; nobody else adds or removes
\* one meanwhile, so any of them may be the next (the order by completed_at
\* follows a clock that may be stepped).
DeliverNext == /\ pc = "deliver"
               /\ \E i \in Undelivered : job' = done[i].task /\ result' = done[i].result
               /\ draining' = TRUE /\ pc' = "report"
               /\ UNCHANGED <<store, victims, beatDue, admin, pruned, faults, offers>>

\* Mutant: the claim does not wait for the backlog.
DeliveredOrNot == /\ pc = "deliver"
                  /\ pc' = "gate"
                  /\ UNCHANGED <<store, memory, beatDue, admin, pruned, faults, offers>>

Delivered == /\ pc = "deliver" /\ Undelivered = {}
             /\ pc' = "gate"
             /\ UNCHANGED <<store, memory, beatDue, admin, pruned, faults, offers>>

LoadIsLow == /\ pc = "gate"
             /\ pc' = "claim"
             /\ UNCHANGED <<store, memory, beatDue, admin, pruned, faults, offers>>

LoadIsHigh == /\ pc = "gate"
              /\ pc' = "idle"
              /\ UNCHANGED <<store, memory, beatDue, admin, pruned, faults, offers>>

ClaimAnswered(t) == /\ pc = "claim" /\ t \in queue
                    /\ job' = t /\ pc' = "claimed"
                    /\ UNCHANGED <<store, result, victims, draining, beatDue, admin, pruned, faults, offers>>

ClaimEmpty == /\ pc = "claim"
              /\ pc' = "idle"
              /\ UNCHANGED <<store, memory, beatDue, admin, pruned, faults, offers>>

ClaimFails == /\ pc = "claim" /\ Fault
              /\ AbandonCycle
              /\ UNCHANGED <<store, beatDue, admin, pruned, offers>>

-----------------------------------------------------------------------------
(* Agent.process_task.  The fingerprint of a task stands for its payload.  *)

Known == done[job.id] # None
ReusesId == Known /\ done[job.id].task # job
Fresh == job \notin Refused /\ ~Known
\* Mutant: every render task renders, a ready revision too.
NeverReady == FALSE
\* StateStore.ready_artifact for the task in hand.
ReadyAtRevision == /\ row[job.artifact].status = "ready"
                   /\ row[job.artifact].revision = job.revision
\* Mutant: no revision guard.
NeverStale == FALSE
\* The guard mark_ready and revoke share.
Stale == row[job.artifact].revision > job.revision

\* validate_task raises, or completion() finds another payload under the id.
RefuseTask == /\ pc = "claimed" /\ (job \in Refused \/ ReusesId)
              /\ AbandonCycle
              /\ UNCHANGED <<store, beatDue, admin, pruned, faults, offers>>

\* Mutant: a task that comes again is taken for a reused id.
RepeatRefused == /\ pc = "claimed" /\ job \notin Refused /\ Known /\ ~ReusesId
                 /\ AbandonCycle
                 /\ UNCHANGED <<store, beatDue, admin, pruned, faults, offers>>

RepeatResult == /\ pc = "claimed" /\ job \notin Refused /\ Known /\ ~ReusesId
                /\ result' = done[job.id].result /\ pc' = "report"
                /\ UNCHANGED <<store, job, victims, draining, beatDue, admin, pruned, faults, offers>>

ReuseReady == /\ pc = "claimed" /\ Fresh /\ job.type = "render" /\ ReadyAtRevision
              /\ result' = Ready(row[job.artifact].sha) /\ pc' = "save"
              /\ UNCHANGED <<store, job, victims, draining, beatDue, admin, pruned, faults, offers>>

\* The renderer succeeded and os.replace has put the file in place.
RenderOk == /\ pc = "claimed" /\ Fresh /\ job.type = "render" /\ ~ReadyAtRevision
            /\ \E d \in Digests :
                 /\ files' = [files EXCEPT ![FileOf(job.artifact, job.revision)] = d]
                 /\ result' = Ready(d)
            /\ pc' = "markReady"
            /\ UNCHANGED <<row, done, job, victims, draining, beatDue, admin, pruned, faults, offers>>

RenderFails == /\ pc = "claimed" /\ Fresh /\ job.type = "render" /\ ~ReadyAtRevision
               /\ result' = Failed /\ pc' = "save"
               /\ UNCHANGED <<store, job, victims, draining, beatDue, admin, pruned, faults, offers>>

\* The file of a row, the set a column filename = NULL makes empty.
FileOfRow(a) == IF row[a].status = "ready" THEN {FileOf(a, row[a].revision)} ELSE {}

\* Mutant: the superseded file is unlinked before the transaction.
MarkReadyUnlinksFirst ==
  /\ pc = "markReady" /\ ~Stale
  /\ LET old == FileOfRow(job.artifact) \ {FileOf(job.artifact, job.revision)} IN
     IF \E f \in old : files[f] # None
     THEN /\ files' = [f \in FileName |-> IF f \in old THEN None ELSE files[f]]
          /\ UNCHANGED <<row, pc>>
     ELSE /\ row' = [row EXCEPT ![job.artifact] =
                       [status |-> "ready", revision |-> job.revision, sha |-> result.sha]]
          /\ pc' = "unlink" /\ UNCHANGED files
  /\ UNCHANGED <<done, job, result, victims, draining, beatDue, admin, pruned, faults, offers>>

\* The transaction of mark_ready commits; what it still has to unlink is the
\* old file unless it is the new one.
MarkReady == /\ pc = "markReady" /\ ~Stale
             /\ row' = [row EXCEPT ![job.artifact] =
                          [status |-> "ready", revision |-> job.revision, sha |-> result.sha]]
             /\ victims' = FileOfRow(job.artifact) \ {FileOf(job.artifact, job.revision)}
             /\ pc' = "unlink"
             /\ UNCHANGED <<done, files, job, result, draining, beatDue, admin, pruned, faults, offers>>

\* Mutant: the stale revision is noticed but the result stays "ready".
StaleSwallowed == /\ pc = "markReady" /\ Stale
                  /\ pc' = "save"
                  /\ UNCHANGED <<store, job, result, victims, draining, beatDue, admin, pruned, faults, offers>>

MarkReadyStale == /\ pc = "markReady" /\ Stale
                  /\ result' = Failed /\ pc' = "save"
                  /\ UNCHANGED <<store, job, victims, draining, beatDue, admin, pruned, faults, offers>>

\* Mutant: the old file name is read after the UPDATE has cleared it.
RevokeForgetsFile ==
  /\ pc = "claimed" /\ Fresh /\ job.type = "invalidate" /\ ~Stale
  /\ row' = [row EXCEPT ![job.artifact] =
               [status |-> "revoked", revision |-> job.revision, sha |-> None]]
  /\ result' = Revoked /\ pc' = "unlink"
  /\ UNCHANGED <<done, files, job, victims, draining, beatDue, admin, pruned, faults, offers>>

\* The transaction of revoke commits.
Revoke == /\ pc = "claimed" /\ Fresh /\ job.type = "invalidate" /\ ~Stale
          /\ row' = [row EXCEPT ![job.artifact] =
                       [status |-> "revoked", revision |-> job.revision, sha |-> None]]
          /\ victims' = FileOfRow(job.artifact)
          /\ result' = Revoked /\ pc' = "unlink"
          /\ UNCHANGED <<done, files, job, draining, beatDue, admin, pruned, faults, offers>>

RevokeStale == /\ pc = "claimed" /\ Fresh /\ job.type = "invalidate" /\ Stale
               /\ result' = Failed /\ pc' = "save"
               /\ UNCHANGED <<store, job, victims, draining, beatDue, admin, pruned, faults, offers>>

UnlinkOld == /\ pc = "unlink"
             /\ files' = [f \in FileName |-> IF f \in victims THEN None ELSE files[f]]
             /\ victims' = {} /\ pc' = "save"
             /\ UNCHANGED <<row, done, job, result, draining, beatDue, admin, pruned, faults, offers>>

\* Mutant: the result is reported without having been recorded.
ReportUnsaved == /\ pc = "save"
                 /\ pc' = "report"
                 /\ UNCHANGED <<store, memory, beatDue, admin, pruned, faults, offers>>

\* save_completion keeps a row that is already there.
SaveCompletion ==
  /\ pc = "save"
  /\ done' = [done EXCEPT ![job.id] =
                IF @ = None
                THEN [task |-> job, result |-> result, delivered |-> FALSE]
                ELSE @]
  /\ pc' = "report"
  /\ UNCHANGED <<row, files, memory, beatDue, admin, pruned, faults, offers>>

-----------------------------------------------------------------------------
(* Agent._complete: the POST, require_admin_ok, mark_delivered.            *)

\* ADMIN records a result for a task id, which ends the task there.
Record(i, r) == /\ told' = [told EXCEPT ![i] = @ \cup {r}]
                /\ queue' = {t \in queue : t.id # i}

ReportOk == /\ pc = "report"
            /\ Record(job.id, result)
            /\ pc' = "ack"
            /\ UNCHANGED <<store, memory, beatDue, late, pruned, faults, offers>>

\* ADMIN answers with anything but an explicit success.
ReportRejected == /\ pc = "report" /\ Fault
                  /\ AbandonCycle
                  /\ UNCHANGED <<store, beatDue, admin, pruned, offers>>

\* Mutant: no answer counts as success.
TimeoutIsSuccess == /\ pc = "report" /\ Fault
                    /\ late' = late \cup {<<job.id, result>>}
                    /\ pc' = "ack"
                    /\ UNCHANGED <<store, memory, beatDue, queue, told, pruned, offers>>

\* No answer in time.  ADMIN may still get the request, then or much later.
ReportTimesOut == /\ pc = "report" /\ Fault
                  /\ late' = late \cup {<<job.id, result>>}
                  /\ AbandonCycle
                  /\ UNCHANGED <<store, beatDue, queue, told, pruned, offers>>

MarkDelivered ==
  /\ pc = "ack"
  /\ done' = [done EXCEPT ![job.id] = IF @ = None THEN @ ELSE [@ EXCEPT !.delivered = TRUE]]
  /\ pc' = IF draining THEN "deliver" ELSE "idle"
  /\ job' = None /\ result' = Failed /\ draining' = FALSE
  /\ UNCHANGED <<row, files, victims, beatDue, admin, pruned, faults, offers>>

-----------------------------------------------------------------------------
(* ADMIN (external).                                                       *)

\* ADMIN queues a task, again or for the first time; task ids are its key.
AdminOffers(t) == /\ offers < MaxOffers /\ offers' = offers + 1
                  /\ \A u \in queue : u.id # t.id
                  /\ queue' = queue \cup {t}
                  /\ UNCHANGED <<store, pc, memory, beatDue, told, late, pruned, faults>>

AdminGetsLate == /\ \E m \in late : Record(m[1], m[2]) /\ late' = late \ {m}
                 /\ UNCHANGED <<store, pc, memory, beatDue, pruned, faults, offers>>

-----------------------------------------------------------------------------
Cycle == \/ BeatFallsDue \/ Heartbeat \/ HeartbeatFails \/ SkipHeartbeat
         \/ Prune \/ DeliverNext \/ Delivered \/ LoadIsLow \/ LoadIsHigh
         \/ \E t \in Tasks : ClaimAnswered(t)
         \/ ClaimEmpty \/ ClaimFails
ProcessTask == \/ RefuseTask \/ RepeatResult \/ ReuseReady
               \/ RenderOk \/ RenderFails \/ MarkReady \/ MarkReadyStale
               \/ Revoke \/ RevokeStale \/ UnlinkOld \/ SaveCompletion
Complete == ReportOk \/ ReportRejected \/ ReportTimesOut \/ MarkDelivered
Admin == AdminGetsLate \/ \E t \in Tasks : AdminOffers(t)

Next == Start \/ Crash \/ StopOnVerdict \/ Cycle \/ ProcessTask \/ Complete \/ Admin

Spec == Init /\ [][Next]_vars

(* The worker's thread keeps running; systemd or the operator starts it    *)
(* again; the load is not high for ever; ADMIN does not withhold a queued  *)
(* task for ever.                                                          *)
Fairness == /\ WF_vars(Start)
            /\ WF_vars(Heartbeat \/ SkipHeartbeat)
            /\ WF_vars(Prune) /\ WF_vars(DeliverNext \/ Delivered)
            /\ SF_vars(LoadIsLow)
            /\ WF_vars(LoadIsLow \/ LoadIsHigh)
            /\ \A t \in Tasks : SF_vars(ClaimAnswered(t))
            /\ WF_vars(ClaimEmpty \/ \E t \in Tasks : ClaimAnswered(t))
            /\ WF_vars(ProcessTask)
            /\ WF_vars(ReportOk) /\ WF_vars(MarkDelivered)

FairSpec == Spec /\ Fairness
-----------------------------------------------------------------------------
(* Properties.                                                             *)

TypeOK ==
  /\ row \in [Artifacts -> Row]
  /\ done \in [Ids -> Completion \cup {None}]
  /\ files \in [FileName -> Digests \cup {None}]
  /\ pc \in {"down", "idle", "prune", "deliver", "gate", "claim", "claimed",
             "markReady", "unlink", "save", "report", "ack"}
  /\ job \in Tasks \cup {None}
  /\ result \in Result
  /\ victims \subseteq FileName
  /\ draining \in BOOLEAN /\ beatDue \in BOOLEAN
  /\ queue \subseteq Tasks
  /\ told \in [Ids -> SUBSET Result]
  /\ late \subseteq Ids \X Result
  /\ pruned \subseteq Ids
  /\ faults \in 0 .. MaxFaults /\ offers \in 0 .. MaxOffers

\* The PDF a ready row names is on disk with the digest of the row, in every
\* state, also between render, commit and unlink and after a crash anywhere
\* (core.py:739, 833-834, 450-485).
ReadyFileMatches ==
  \A a \in Artifacts : row[a].status = "ready" =>
    /\ row[a].revision \in Revisions /\ row[a].sha \in Digests
    /\ files[FileOf(a, row[a].revision)] = row[a].sha

\* ADMIN never holds a result the agent could contradict: what it accepted
\* for a task, at once or from a POST that arrived late, is the recorded
\* result, unless the row was pruned (core.py:837, 802-807, 389-394).
ToldIsRecorded ==
  \A i \in Ids \ pruned : \A r \in told[i] : done[i] # None /\ done[i].result = r

\* A row is marked delivered only for a result that ADMIN has accepted
\* (core.py:804-807).
DeliveredWasTold ==
  \A i \in Ids : done[i] # None /\ done[i].delivered => done[i].result \in told[i]

\* However POSTs fail and the process dies, the backlog of undelivered results
\* never exceeds one: a result is delivered before the next task is claimed
\* (core.py:809-815, 862-866).
BacklogAtMostOne == \A i, j \in Undelivered : i = j

\* What backs the result of a task at the moment it is recorded.
Backed(t, r) ==
  /\ r.status = "ready" => /\ row[t.artifact] = [status |-> "ready", revision |-> t.revision, sha |-> r.sha]
                           /\ files[FileOf(t.artifact, t.revision)] = r.sha
  /\ r.status = "revoked" => /\ row[t.artifact] = [status |-> "revoked", revision |-> t.revision, sha |-> None]

\* A result is recorded only when the artifact row and the file say the same
\* at that moment (core.py:823-837).
ResultsAreBacked ==
  [][\A i \in Ids : done[i] = None /\ done'[i] # None
                     => Backed(done'[i].task, done'[i].result)]_vars

\* An undelivered completion row is neither dropped nor rewritten: the only
\* thing that can happen to it is its delivery (core.py:371-394).
UndeliveredKept ==
  [][\A i \in Undelivered : done'[i] \in {done[i], [done[i] EXCEPT !.delivered = TRUE]}]_vars

\* Every task that passes validation and does not reuse an id is answered,
\* whatever finitely many crashes, lost POSTs and refusals come between
\* (core.py:853-874, 876-907).
TasksAreAnswered ==
  \A t \in Tasks \ Refused :
    t \in queue ~> (t \notin queue \/ (done[t.id] # None /\ done[t.id].task # t))

\* What a download can find: the row's status and revision, and the bytes of
\* the file the row names (core.py:396-448).
Shown == [a \in Artifacts |->
            [status |-> row[a].status, revision |-> row[a].revision,
             content |-> IF row[a].status = "ready"
                         THEN files[FileOf(a, row[a].revision)] ELSE None]]

Shelf == INSTANCE Shelf WITH shelf <- Shown

\* The worker implements the shelf: what can be downloaded changes only by
\* publishing or withdrawing, each in one step (core.py:450-485, 739, 817-843).
ImplementsShelf == Shelf!Spec

\* The PDFs that are nobody's: no ready row names them, and the worker is not
\* about to record or to unlink them.
Orphans == {f \in FileName :
              /\ files[f] # None /\ f \notin FileOfRow(f[1]) \cup victims
              /\ ~(pc = "markReady" /\ f = FileOf(job.artifact, job.revision))}

\* A PDF becomes nobody's, and stays on the disk, in two cases only: the process
\* ends between the rename and the unlink, or the PDF is of a superseded revision
\* (core.py:450-485, 739, 833-834).
OrphansExplained ==
  [][\A f \in Orphans' \ Orphans :
       \/ pc \in {"markReady", "unlink"} /\ pc' = "down"
       \/ f[2] < row[f[1]].revision]_vars

\* What the completions table says about a task.
Entries == [i \in Ids |->
              IF done[i] = None THEN [state |-> "open", result |-> None]
              ELSE [state |-> IF done[i].delivered THEN "delivered" ELSE "settled",
                    result |-> done[i].result]]

Outbox == INSTANCE Outbox WITH entry <- Entries, flying <- late, heard <- told, Results <- Result

\* The worker implements the outbox: a result is settled once and alone, ADMIN hears
\* nothing else, also after the row is pruned, and rows go only when it has heard
\* them (core.py:364-394, 802-815, 837-843).
ImplementsOutbox == Outbox!Spec

\* tests/test_agent_core.py:481 "new revision removes superseded pdf": between
\* two cycles the only PDF of an artifact is the one its row names.
SupersededRemoved ==
  pc = "idle" => \A a \in Artifacts, r \in Revisions :
    files[FileOf(a, r)] # None => row[a].status = "ready" /\ row[a].revision = r
=============================================================================
