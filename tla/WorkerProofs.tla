---------------------------- MODULE WorkerProofs ----------------------------
(***************************************************************************)
(* Theorems about the worker for every choice of its constants.            *)
(***************************************************************************)
EXTENDS Worker, TLAPS

-----------------------------------------------------------------------------
(* Type correctness.                                                       *)

\* Where a task is in hand, the worker's variables hold one of ADMIN's tasks,
\* an artifact row has the revision of a task, a completion row the id of its
\* task as its key.
InHand ==
  /\ pc \in {"claimed", "markReady", "unlink", "save", "report", "ack"} => job \in Tasks
  /\ \A a \in Artifacts : row[a].status # "absent" => row[a].revision \in Revisions
  /\ \A i \in Ids : done[i] # None => done[i].task \in Tasks /\ done[i].task.id = i

TypeInv == TypeOK /\ InHand

USE TasksAssumption, RevisionsAssumption, NoneAssumption, BoundsAssumption

LEMMA ResultTypes == /\ Failed \in Result /\ Revoked \in Result
                     /\ \A d \in Digests \cup {None} : Ready(d) \in Result
  BY DEF Failed, Revoked, Ready, Result

\* The rows that mark_ready and revoke write are rows.
LEMMA RowTypes == /\ NoRow \in Row
                  /\ \A r \in Revisions, d \in Digests \cup {None} :
                       /\ [status |-> "ready", revision |-> r, sha |-> d] \in Row
                       /\ [status |-> "revoked", revision |-> r, sha |-> d] \in Row
  BY DEF NoRow, Row

\* mark_delivered changes nothing but the flag.
LEMMA DeliveredTypes ==
  \A c \in Completion : LET d == [c EXCEPT !.delivered = TRUE] IN
    d \in Completion /\ d.task = c.task /\ d.result = c.result /\ d.delivered
  BY DEF Completion

\* A fault stays within its bound.
LEMMA FaultTypes == faults \in 0 .. MaxFaults /\ Fault => faults' \in 0 .. MaxFaults
  BY DEF Fault

LEMMA InitTypes == Init => TypeInv
<1> SUFFICES ASSUME Init PROVE TypeInv
  OBVIOUS
<1>1. faults \in 0 .. MaxFaults /\ offers \in 0 .. MaxOffers
  BY DEF Init
<1>2. row \in [Artifacts -> Row] /\ result \in Result
  BY RowTypes, ResultTypes DEF Init
<1>3. InHand
  BY DEF Init, InHand, NoRow
<1>4. /\ done \in [Ids -> Completion \cup {None}]
      /\ files \in [FileName -> Digests \cup {None}]
      /\ told \in [Ids -> SUBSET Result]
  BY DEF Init
<1> QED
  BY <1>1, <1>2, <1>3, <1>4 DEF Init, TypeInv, TypeOK

\* Every action keeps the variables in their types (the whole of Worker.tla).
LEMMA StepTypes == TypeInv /\ [Next]_vars => TypeInv'
<1> SUFFICES ASSUME TypeInv, [Next]_vars PROVE TypeInv'
  OBVIOUS
<1> USE DEF TypeInv, TypeOK, InHand, store, memory, admin, Task
<1>1. CASE Start
  BY <1>1 DEF Start
<1>2. CASE Crash
  <2>1. pc = "report" => <<job.id, result>> \in Ids \X Result
    OBVIOUS
  <2> QED
    BY <1>2, <2>1, FaultTypes, ResultTypes DEF Crash
<1>3. CASE StopOnVerdict
  BY <1>3, FaultTypes, ResultTypes DEF StopOnVerdict
<1>4. CASE Cycle
  <2>1. CASE BeatFallsDue \/ Heartbeat \/ SkipHeartbeat
    BY <2>1 DEF BeatFallsDue, Heartbeat, SkipHeartbeat
  <2>2. CASE HeartbeatFails \/ ClaimFails
    BY <2>2, FaultTypes, ResultTypes DEF HeartbeatFails, ClaimFails, AbandonCycle
  <2>3. CASE Prune
    BY <2>3 DEF Prune
  <2>4. CASE DeliverNext
    BY <2>4 DEF DeliverNext, Undelivered, Completion
  <2>5. CASE Delivered \/ LoadIsLow \/ LoadIsHigh \/ ClaimEmpty
    BY <2>5 DEF Delivered, LoadIsLow, LoadIsHigh, ClaimEmpty
  <2>6. ASSUME NEW t \in Tasks, ClaimAnswered(t) PROVE TypeInv'
    BY <2>6 DEF ClaimAnswered
  <2> QED
    BY <1>4, <2>1, <2>2, <2>3, <2>4, <2>5, <2>6 DEF Cycle
<1>5. CASE ProcessTask
  <2>1. CASE RefuseTask
    BY <2>1, ResultTypes DEF RefuseTask, AbandonCycle
  <2>2. CASE RepeatResult
    BY <2>2 DEF RepeatResult, Known, Completion
  <2>3. CASE ReuseReady
    <3>1. row[job.artifact].sha \in Digests \cup {None}
      BY <2>3 DEF ReuseReady, Row
    <3> QED
      BY <2>3, <3>1, ResultTypes DEF ReuseReady
  <2>4. CASE RenderOk
    BY <2>4, ResultTypes DEF RenderOk, Ready, FileOf, FileName
  <2>5. CASE RenderFails \/ MarkReadyStale \/ RevokeStale
    BY <2>5, ResultTypes DEF RenderFails, MarkReadyStale, RevokeStale
  <2>6. CASE MarkReady
    <3>1. FileOfRow(job.artifact) \subseteq FileName
      BY <2>6 DEF MarkReady, FileOfRow, FileOf, FileName, Row
    <3>2. result.sha \in Digests \cup {None}
      BY DEF Result
    <3> QED
      BY <2>6, <3>1, <3>2, RowTypes DEF MarkReady
  <2>7. CASE Revoke
    <3>1. FileOfRow(job.artifact) \subseteq FileName
      BY <2>7 DEF Revoke, FileOfRow, FileOf, FileName, Row
    <3> QED
      BY <2>7, <3>1, RowTypes, ResultTypes DEF Revoke
  <2>8. CASE UnlinkOld
    BY <2>8 DEF UnlinkOld
  <2>9. CASE SaveCompletion
    BY <2>9 DEF SaveCompletion, Completion
  <2> QED
    BY <1>5, <2>1, <2>2, <2>3, <2>4, <2>5, <2>6, <2>7, <2>8, <2>9 DEF ProcessTask
<1>6. CASE Complete
  <2>1. CASE ReportOk
    BY <2>1 DEF ReportOk, Record
  <2>2. CASE ReportRejected
    BY <2>2, FaultTypes, ResultTypes DEF ReportRejected, AbandonCycle
  <2>3. CASE ReportTimesOut
    <3>1. <<job.id, result>> \in Ids \X Result
      BY <2>3 DEF ReportTimesOut
    <3> QED
      BY <2>3, <3>1, FaultTypes, ResultTypes DEF ReportTimesOut, AbandonCycle
  <2>4. CASE MarkDelivered
    <3> DEFINE new == IF done[job.id] = None THEN None
                      ELSE [done[job.id] EXCEPT !.delivered = TRUE]
    <3>1. job.id \in Ids /\ done[job.id] \in Completion \cup {None}
      BY <2>4 DEF MarkDelivered
    <3>2. /\ new \in Completion \cup {None}
          /\ new # None => new.task \in Tasks /\ new.task.id = job.id
      BY <3>1, DeliveredTypes
    <3>3. done' = [done EXCEPT ![job.id] = new]
      BY <2>4 DEF MarkDelivered
    <3> HIDE DEF new
    <3>4. done' \in [Ids -> Completion \cup {None}]
      BY <3>2, <3>3
    <3>5. \A i \in Ids : done'[i] # None => done'[i].task \in Tasks /\ done'[i].task.id = i
      BY <3>1, <3>2, <3>3
    <3> QED
      BY <2>4, <3>4, <3>5, ResultTypes DEF MarkDelivered
  <2> QED
    BY <1>6, <2>1, <2>2, <2>3, <2>4 DEF Complete
<1>7. CASE Admin
  <2>1. CASE AdminGetsLate
    BY <2>1 DEF AdminGetsLate, Record
  <2>2. ASSUME NEW t \in Tasks, AdminOffers(t) PROVE TypeInv'
    BY <2>2 DEF AdminOffers
  <2> QED
    BY <1>7, <2>1, <2>2 DEF Admin
<1>8. CASE UNCHANGED vars
  BY <1>8 DEF vars
<1> QED
  BY <1>1, <1>2, <1>3, <1>4, <1>5, <1>6, <1>7, <1>8 DEF Next

\* The worker's and ADMIN's variables keep their types in every behaviour.
THEOREM WorkerTypes == Spec => []TypeOK
<1>1. Spec => []TypeInv
  BY InitTypes, StepTypes, PTL DEF Spec
<1> QED
  BY <1>1, PTL DEF TypeInv

-----------------------------------------------------------------------------
(* The artifact store: the row, the file it names, the result it backs.    *)

\* ReadyFileMatches with what holds in the middle of a task: a rendered file
\* waits for its row, the file about to be unlinked is no row's file, and a
\* result about to be recorded is backed by row and file.
StoreInv ==
  /\ ReadyFileMatches
  /\ pc = "markReady" =>
       /\ result.status = "ready" /\ result.sha \in Digests
       /\ files[FileOf(job.artifact, job.revision)] = result.sha
       /\ ~ReadyAtRevision
  /\ pc = "unlink" => \A a \in Artifacts : FileOfRow(a) \cap victims = {}
  /\ pc \in {"unlink", "save"} => Backed(job, result)

\* A step that touches neither rows nor files and does not end in the middle of
\* a task keeps the invariant.
LEMMA QuietStep ==
  ASSUME StoreInv, row' = row, files' = files,
         pc' \notin {"markReady", "unlink", "save"}
  PROVE  StoreInv'
  BY DEF StoreInv, ReadyFileMatches

\* The files of two rows, or of two revisions, never share a name.
LEMMA FileNames ==
  \A a, b \in Artifacts, r, s \in Revisions :
    /\ FileOf(a, r) \in FileName
    /\ FileOf(a, r) = FileOf(b, s) => a = b /\ r = s
  BY DEF FileOf, FileName

\* A failed result needs no backing.
LEMMA FailureBacked == \A t : Backed(t, Failed)
  BY DEF Backed, Failed

LEMMA StoreInit == Init => StoreInv
  BY DEF Init, StoreInv, ReadyFileMatches, NoRow

LEMMA StoreStep == TypeInv /\ StoreInv /\ [Next]_vars => StoreInv'
<1> SUFFICES ASSUME TypeInv, StoreInv, [Next]_vars PROVE StoreInv'
  OBVIOUS
<1> USE DEF store, memory
<1>1. CASE Start \/ Crash \/ StopOnVerdict
  BY <1>1, QuietStep DEF Start, Crash, StopOnVerdict
<1>2. CASE Cycle
  BY <1>2, QuietStep DEF Cycle, BeatFallsDue, Heartbeat, SkipHeartbeat, HeartbeatFails,
     ClaimFails, AbandonCycle, Prune, DeliverNext, Delivered, LoadIsLow, LoadIsHigh,
     ClaimAnswered, ClaimEmpty
<1>3. CASE ProcessTask
  <2>1. CASE RefuseTask \/ RepeatResult
    BY <2>1, QuietStep DEF RefuseTask, RepeatResult, AbandonCycle
  <2>2. CASE ReuseReady
    <3>1. job \in Task
      BY <2>2 DEF ReuseReady, TypeInv, InHand
    <3>2. /\ row[job.artifact] \in Row
          /\ files[FileOf(job.artifact, job.revision)] = row[job.artifact].sha
      BY <2>2, <3>1 DEF ReuseReady, ReadyAtRevision, StoreInv, ReadyFileMatches, Task, TypeInv, TypeOK
    <3>3. Backed(job, result')
      BY <2>2, <3>2 DEF ReuseReady, ReadyAtRevision, Backed, Ready, Row
    <3> QED
      BY <2>2, <3>3 DEF ReuseReady, StoreInv, ReadyFileMatches, Backed
  <2>3. CASE RenderOk
    <3>1. job \in Task
      BY <2>3 DEF RenderOk, TypeInv, InHand
    <3>2. PICK d \in Digests :
            /\ files' = [files EXCEPT ![FileOf(job.artifact, job.revision)] = d]
            /\ result' = Ready(d)
      BY <2>3 DEF RenderOk
    <3>3. files'[FileOf(job.artifact, job.revision)] = d
      BY <3>1, <3>2, FileNames DEF Task, TypeInv, TypeOK
    <3>4. ASSUME NEW a \in Artifacts, row[a].status = "ready"
          PROVE  files'[FileOf(a, row[a].revision)] = files[FileOf(a, row[a].revision)]
      <4>1. row[a].revision \in Revisions /\ job.revision \in Revisions /\ job.artifact \in Artifacts
        BY <3>1, <3>4 DEF StoreInv, ReadyFileMatches, Task
      <4>2. ~(a = job.artifact /\ row[a].revision = job.revision)
        BY <2>3, <3>4 DEF RenderOk, ReadyAtRevision
      <4>3. FileOf(a, row[a].revision) # FileOf(job.artifact, job.revision)
        BY <4>1, <4>2, FileNames
      <4> QED
        BY <3>2, <3>4, <4>3, FileNames DEF TypeInv, TypeOK, StoreInv, ReadyFileMatches
    <3>5. ReadyFileMatches'
      BY <2>3, <3>4 DEF RenderOk, StoreInv, ReadyFileMatches
    <3> QED
      BY <2>3, <3>2, <3>3, <3>5 DEF RenderOk, StoreInv, Ready, ReadyAtRevision
  <2>4. CASE RenderFails \/ MarkReadyStale \/ RevokeStale
    BY <2>4, FailureBacked DEF RenderFails, MarkReadyStale, RevokeStale,
       StoreInv, ReadyFileMatches, Backed, Failed
  <2>5. CASE MarkReady
    <3>1. job \in Task /\ result.status = "ready" /\ result.sha \in Digests
      BY <2>5 DEF MarkReady, TypeInv, InHand, StoreInv
    <3>2. /\ row'[job.artifact] = [status |-> "ready", revision |-> job.revision, sha |-> result.sha]
          /\ \A a \in Artifacts : a # job.artifact => row'[a] = row[a]
      BY <2>5, <3>1 DEF MarkReady, TypeInv, TypeOK, Task
    <3>3. ReadyFileMatches'
      BY <2>5, <3>1, <3>2 DEF MarkReady, StoreInv, ReadyFileMatches, Task
    <3>4. ASSUME NEW a \in Artifacts PROVE FileOfRow(a)' \cap victims' = {}
      <4>1. CASE a = job.artifact
        BY <2>5, <3>1, <3>2, <4>1 DEF MarkReady, FileOfRow, FileOf
      <4>2. CASE a # job.artifact
        BY <2>5, <3>1, <3>2, <4>2 DEF MarkReady, FileOfRow, FileOf
      <4> QED
        BY <4>1, <4>2
    <3>5. Backed(job, result)'
      BY <2>5, <3>1, <3>2 DEF MarkReady, StoreInv, Backed
    <3> QED
      BY <2>5, <3>3, <3>4, <3>5 DEF MarkReady, StoreInv
  <2>6. CASE Revoke
    <3>1. job \in Task
      BY <2>6 DEF Revoke, TypeInv, InHand
    <3>2. /\ row'[job.artifact] = [status |-> "revoked", revision |-> job.revision, sha |-> None]
          /\ \A a \in Artifacts : a # job.artifact => row'[a] = row[a]
      BY <2>6, <3>1 DEF Revoke, TypeInv, TypeOK, Task
    <3>3. ReadyFileMatches'
      BY <2>6, <3>1, <3>2 DEF Revoke, StoreInv, ReadyFileMatches, Task
    <3>4. ASSUME NEW a \in Artifacts PROVE FileOfRow(a)' \cap victims' = {}
      <4>1. CASE a = job.artifact
        BY <2>6, <3>1, <3>2, <4>1 DEF Revoke, FileOfRow, FileOf
      <4>2. CASE a # job.artifact
        BY <2>6, <3>1, <3>2, <4>2 DEF Revoke, FileOfRow, FileOf
      <4> QED
        BY <4>1, <4>2
    <3>5. Backed(job, result)'
      BY <2>6, <3>1, <3>2 DEF Revoke, Revoked, Backed
    <3> QED
      BY <2>6, <3>3, <3>4, <3>5 DEF Revoke, StoreInv
  <2>7. CASE UnlinkOld
    <3>1. job \in Task
      BY <2>7 DEF UnlinkOld, TypeInv, InHand
    <3>2. ASSUME NEW a \in Artifacts, row[a].status = "ready"
          PROVE  files'[FileOf(a, row[a].revision)] = files[FileOf(a, row[a].revision)]
      BY <2>7, <3>2, FileNames DEF UnlinkOld, FileOfRow, StoreInv, ReadyFileMatches
    <3>3. ReadyFileMatches'
      BY <2>7, <3>2 DEF UnlinkOld, StoreInv, ReadyFileMatches
    <3>4. Backed(job, result)'
      BY <2>7, <3>1, <3>2 DEF UnlinkOld, StoreInv, Backed, Task
    <3> QED
      BY <2>7, <3>3, <3>4 DEF UnlinkOld, StoreInv
  <2>8. CASE SaveCompletion
    BY <2>8, QuietStep DEF SaveCompletion
  <2> QED
    BY <1>3, <2>1, <2>2, <2>3, <2>4, <2>5, <2>6, <2>7, <2>8 DEF ProcessTask
<1>4. CASE Complete
  BY <1>4, QuietStep DEF Complete, ReportOk, ReportRejected, ReportTimesOut, MarkDelivered, AbandonCycle
<1>5. CASE Admin \/ UNCHANGED vars
  BY <1>5 DEF Admin, AdminGetsLate, AdminOffers, vars, StoreInv, ReadyFileMatches,
     FileOfRow, Backed, ReadyAtRevision
<1> QED
  BY <1>1, <1>2, <1>3, <1>4, <1>5 DEF Next

\* The PDF of a ready row is on disk with the row's digest, always.
THEOREM StoreIsSound == Spec => []ReadyFileMatches
<1>1. Spec => [](TypeInv /\ StoreInv)
  BY InitTypes, StepTypes, StoreInit, StoreStep, PTL DEF Spec
<1> QED
  BY <1>1, PTL DEF StoreInv

-----------------------------------------------------------------------------
(* The shelf: what a download can find changes in whole steps only.        *)

\* A row that does not change shows the same, whatever happens to files.
LEMMA RowsShow ==
  ASSUME ReadyFileMatches, ReadyFileMatches', NEW a \in Artifacts, row'[a] = row[a]
  PROVE  Shown'[a] = Shown[a]
  BY DEF Shown, ReadyFileMatches

LEMMA ShelfInit == Init => Shelf!Init
  BY DEF Init, Shelf!Init, Shown, NoRow

LEMMA ShelfStep == /\ TypeInv /\ StoreInv /\ StoreInv' /\ [Next]_vars
                   => [Shelf!Next]_Shown
<1> SUFFICES ASSUME TypeInv, StoreInv, StoreInv', [Next]_vars PROVE [Shelf!Next]_Shown
  OBVIOUS
<1> USE DEF store, memory, admin
<1>1. CASE MarkReady
  <2>1. /\ job.artifact \in Artifacts /\ job.revision \in Revisions
        /\ job.revision \in Nat /\ row[job.artifact].revision \in Nat
    BY <1>1 DEF MarkReady, TypeInv, TypeOK, InHand, Task, Row
  <2>2. /\ row'[job.artifact] = [status |-> "ready", revision |-> job.revision, sha |-> result.sha]
        /\ \A a \in Artifacts : a # job.artifact => row'[a] = row[a]
        /\ result.sha \in Digests
    BY <1>1, <2>1 DEF MarkReady, TypeInv, TypeOK, StoreInv
  <2>3. \A a \in Artifacts : a # job.artifact => Shown'[a] = Shown[a]
    BY <2>2, RowsShow DEF StoreInv
  <2>4. Shown'[job.artifact] = [status |-> "ready", revision |-> job.revision, content |-> result.sha]
    BY <2>1, <2>2 DEF Shown, StoreInv, ReadyFileMatches
  <2>5. /\ Shown[job.artifact].status = row[job.artifact].status
        /\ Shown[job.artifact].revision = row[job.artifact].revision
    BY <2>1 DEF Shown
  <2>6. /\ Shown[job.artifact].revision <= job.revision
        /\ ~Shelf!Showing(job.artifact, job.revision)
    BY <1>1, <2>1, <2>5 DEF MarkReady, Stale, Shelf!Showing, StoreInv, ReadyAtRevision
  <2>7. Shown' = [Shown EXCEPT ![job.artifact] =
                    [status |-> "ready", revision |-> job.revision, content |-> result.sha]]
    BY <2>1, <2>3, <2>4 DEF Shown
  <2>8. Shelf!Publish(job.artifact, job.revision, result.sha)
    BY <2>6, <2>7 DEF Shelf!Publish
  <2> QED
    BY <2>1, <2>2, <2>8 DEF Shelf!Next
<1>2. CASE Revoke
  <2>1. /\ job.artifact \in Artifacts /\ job.revision \in Revisions
        /\ job.revision \in Nat /\ row[job.artifact].revision \in Nat
    BY <1>2 DEF Revoke, TypeInv, TypeOK, InHand, Task, Row
  <2>2. /\ row'[job.artifact] = [status |-> "revoked", revision |-> job.revision, sha |-> None]
        /\ \A a \in Artifacts : a # job.artifact => row'[a] = row[a]
    BY <1>2, <2>1 DEF Revoke, TypeInv, TypeOK
  <2>3. \A a \in Artifacts : a # job.artifact => Shown'[a] = Shown[a]
    BY <2>2, RowsShow DEF StoreInv
  <2>4. Shown'[job.artifact] = [status |-> "revoked", revision |-> job.revision, content |-> None]
    BY <2>1, <2>2 DEF Shown
  <2>5. Shown[job.artifact].revision = row[job.artifact].revision
    BY <2>1 DEF Shown
  <2>6. Shown[job.artifact].revision <= job.revision
    BY <1>2, <2>1, <2>5 DEF Revoke, Stale
  <2>7. Shown' = [Shown EXCEPT ![job.artifact] =
                    [status |-> "revoked", revision |-> job.revision, content |-> None]]
    BY <2>1, <2>3, <2>4 DEF Shown
  <2>8. Shelf!Withdraw(job.artifact, job.revision)
    BY <2>6, <2>7 DEF Shelf!Withdraw
  <2> QED
    BY <2>1, <2>8 DEF Shelf!Next
<1>3. ASSUME row' = row PROVE Shown' = Shown
  <2>1. \A a \in Artifacts : Shown'[a] = Shown[a]
    BY <1>3, RowsShow DEF StoreInv
  <2> QED
    BY <2>1 DEF Shown
<1>4. row' = row \/ MarkReady \/ Revoke
  BY DEF Next, Start, Crash, StopOnVerdict, Cycle, BeatFallsDue, Heartbeat, SkipHeartbeat,
     HeartbeatFails, ClaimFails, AbandonCycle, Prune, DeliverNext, Delivered, LoadIsLow,
     LoadIsHigh, ClaimAnswered, ClaimEmpty, ProcessTask, RefuseTask, RepeatResult, ReuseReady,
     RenderOk, RenderFails, MarkReadyStale, RevokeStale, UnlinkOld, SaveCompletion, Complete,
     ReportOk, ReportRejected, ReportTimesOut, MarkDelivered, Admin, AdminGetsLate, AdminOffers,
     vars
<1> QED
  BY <1>1, <1>2, <1>3, <1>4

\* The worker implements the shelf: a download finds a PDF that was published
\* in one step, stays as it is, and goes in one step.
THEOREM WorkerImplementsShelf == Spec => ImplementsShelf
<1>1. Spec => [](TypeInv /\ StoreInv)
  BY InitTypes, StepTypes, StoreInit, StoreStep, PTL DEF Spec
<1> QED
  BY <1>1, ShelfInit, ShelfStep, PTL DEF Spec, ImplementsShelf, Shelf!Spec

-----------------------------------------------------------------------------
(* The directory: which PDFs are left behind.                              *)

\* Only between a commit and the unlink after it is there a file to unlink.
VictimsInv == pc # "unlink" => victims = {}

LEMMA VictimsInit == Init => VictimsInv
  BY DEF Init, VictimsInv

LEMMA VictimsStep == VictimsInv /\ [Next]_vars => VictimsInv'
  BY DEF VictimsInv, store, memory, vars, Next, Start, Crash, StopOnVerdict, Cycle, BeatFallsDue,
     Heartbeat, SkipHeartbeat, HeartbeatFails, ClaimFails, AbandonCycle, Prune, DeliverNext,
     Delivered, LoadIsLow, LoadIsHigh, ClaimAnswered, ClaimEmpty, ProcessTask, RefuseTask,
     RepeatResult, ReuseReady, RenderOk, RenderFails, MarkReady, MarkReadyStale, Revoke, RevokeStale,
     UnlinkOld, SaveCompletion, Complete, ReportOk, ReportRejected, ReportTimesOut, MarkDelivered,
     Admin, AdminGetsLate, AdminOffers

\* What may be said of a PDF that a step leaves behind.
Explained(f) == \/ pc \in {"markReady", "unlink"} /\ pc' = "down"
                \/ f[2] < row[f[1]].revision

\* A step that keeps rows and files and has nothing to record or to unlink leaves
\* nothing behind.
LEMMA TidyStep ==
  ASSUME VictimsInv, row' = row, files' = files, pc \notin {"markReady", "unlink"}
  PROVE  Orphans' \subseteq Orphans
  BY DEF VictimsInv, Orphans, FileOfRow

\* Who leaves a PDF behind: the end of the process, or a render of an older revision.
LEMMA OrphanStep ==
  ASSUME TypeInv, VictimsInv, [Next]_vars, NEW f \in Orphans' \ Orphans
  PROVE  Explained(f)
<1> USE DEF store, memory
<1>1. /\ f \in FileName /\ files'[f] # None
      /\ f \notin FileOfRow(f[1])' /\ f \notin victims'
      /\ pc' = "markReady" => f # FileOf(job'.artifact, job'.revision)
  BY DEF Orphans
<1>2. f[1] \in Artifacts /\ f[2] \in Revisions /\ f = FileOf(f[1], f[2])
  BY <1>1 DEF FileName, FileOf
<1>3. CASE RenderOk
  <2>1. files' = files \/ \E d : files' = [files EXCEPT ![FileOf(job.artifact, job.revision)] = d]
    BY <1>3 DEF RenderOk
  <2>2. files'[f] = files[f]
    BY <1>1, <1>3, <2>1 DEF RenderOk, TypeInv, TypeOK
  <2> QED
    BY <1>1, <1>3, <2>2 DEF RenderOk, Orphans, FileOfRow
<1>4. CASE MarkReady
  <2>1. job \in Task
    BY <1>4 DEF MarkReady, TypeInv, InHand
  <2>2. /\ row'[job.artifact] = [status |-> "ready", revision |-> job.revision, sha |-> result.sha]
        /\ \A a \in Artifacts : a # job.artifact => row'[a] = row[a]
    BY <1>4, <2>1 DEF MarkReady, TypeInv, TypeOK, Task
  <2>3. f # FileOf(job.artifact, job.revision)
    BY <1>1, <2>1, <2>2 DEF FileOfRow, FileOf, Task
  <2>4. f \notin FileOfRow(f[1])
    BY <1>1, <1>2, <1>4, <2>2, <2>3 DEF MarkReady, FileOfRow
  <2> QED
    BY <1>1, <1>4, <2>3, <2>4 DEF MarkReady, Orphans, VictimsInv
<1>5. CASE Revoke
  <2>1. job \in Task
    BY <1>5 DEF Revoke, TypeInv, InHand
  <2>2. \A a \in Artifacts : a # job.artifact => row'[a] = row[a]
    BY <1>5, <2>1 DEF Revoke, TypeInv, TypeOK, Task
  <2>3. f \notin FileOfRow(f[1])
    BY <1>1, <1>2, <1>5, <2>2 DEF Revoke, FileOfRow
  <2> QED
    BY <1>1, <1>5, <2>3 DEF Revoke, Orphans, VictimsInv
<1>6. CASE MarkReadyStale
  <2>1. f = FileOf(job.artifact, job.revision)
    BY <1>1, <1>6 DEF MarkReadyStale, Orphans, FileOfRow
  <2> QED
    BY <1>6, <2>1 DEF MarkReadyStale, Stale, Explained, FileOf
<1>7. CASE UnlinkOld
  <2>1. f \notin victims /\ files[f] # None
    BY <1>1, <1>7 DEF UnlinkOld
  <2> QED
    BY <1>1, <1>7, <2>1 DEF UnlinkOld, Orphans, FileOfRow
<1>8. CASE Crash \/ StopOnVerdict
  <2>1. pc \notin {"markReady", "unlink"} => Orphans' \subseteq Orphans
    BY <1>8, TidyStep DEF Crash, StopOnVerdict
  <2> QED
    BY <1>8, <2>1 DEF Crash, StopOnVerdict, Explained
<1>9. CASE Admin \/ UNCHANGED vars
  BY <1>9 DEF Admin, AdminGetsLate, AdminOffers, vars, Orphans, FileOfRow
<1>10. CASE Start \/ Cycle \/ Complete
  BY <1>10, TidyStep DEF Start, Cycle, BeatFallsDue, Heartbeat, SkipHeartbeat, HeartbeatFails,
     ClaimFails, AbandonCycle, Prune, DeliverNext, Delivered, LoadIsLow, LoadIsHigh, ClaimAnswered,
     ClaimEmpty, Complete, ReportOk, ReportRejected, ReportTimesOut, MarkDelivered
<1>11. CASE RefuseTask \/ RepeatResult \/ ReuseReady \/ RenderFails \/ RevokeStale \/ SaveCompletion
  BY <1>11, TidyStep DEF RefuseTask, AbandonCycle, RepeatResult, ReuseReady, RenderFails, RevokeStale,
     SaveCompletion
<1> QED
  BY <1>3, <1>4, <1>5, <1>6, <1>7, <1>8, <1>9, <1>10, <1>11 DEF Next, ProcessTask

\* A PDF that no row names stays on the disk only if the process ended in the
\* middle of its task or its revision was superseded before it was rendered.
THEOREM OrphansHaveReason == Spec => OrphansExplained
<1>1. Spec => [](TypeInv /\ VictimsInv)
  BY InitTypes, StepTypes, VictimsInit, VictimsStep, PTL DEF Spec
<1>2. TypeInv /\ VictimsInv /\ [Next]_vars =>
        [\A f \in Orphans' \ Orphans : \/ pc \in {"markReady", "unlink"} /\ pc' = "down"
                                       \/ f[2] < row[f[1]].revision]_vars
  BY OrphanStep DEF Explained
<1> QED
  BY <1>1, <1>2, PTL DEF Spec, OrphansExplained

-----------------------------------------------------------------------------
(* The outbox: results, what ADMIN was told, what is still in flight.      *)

InTask == pc \in {"markReady", "unlink", "save"}
BeforeReport == pc \in {"gate", "claim", "claimed", "markReady", "unlink", "save"}

\* The three safety properties with what the thread knows on its way: the task
\* in hand has no result yet, or the one being reported is the recorded one,
\* and so is whatever is still in flight; the backlog is empty before a report.
OutboxInv ==
  /\ ToldIsRecorded
  /\ DeliveredWasTold
  /\ BacklogAtMostOne
  /\ InTask => done[job.id] = None
  /\ pc \in {"report", "ack"} => done[job.id] # None /\ done[job.id].result = result
  /\ pc = "ack" => result \in told[job.id]
  /\ \A i \in Ids \ pruned, r \in Result :
       <<i, r>> \in late => done[i] # None /\ done[i].result = r
  /\ BeforeReport => Undelivered = {}

LEMMA OutboxInit == Init => OutboxInv
  BY DEF Init, OutboxInv, ToldIsRecorded, DeliveredWasTold, BacklogAtMostOne,
     Undelivered, InTask, BeforeReport

LEMMA OutboxStep == TypeInv /\ OutboxInv /\ [Next]_vars => OutboxInv'
<1> SUFFICES ASSUME TypeInv, OutboxInv, [Next]_vars PROVE OutboxInv'
  OBVIOUS
<1> USE DEF store, memory, admin, OutboxInv, ToldIsRecorded, DeliveredWasTold,
            BacklogAtMostOne, Undelivered, InTask, BeforeReport
<1>1. CASE Start \/ StopOnVerdict
  BY <1>1 DEF Start, StopOnVerdict
<1>2. CASE Crash
  BY <1>2 DEF Crash
<1>3. CASE Cycle
  <2>1. CASE BeatFallsDue \/ Heartbeat \/ SkipHeartbeat \/ HeartbeatFails \/ ClaimFails
    BY <2>1 DEF BeatFallsDue, Heartbeat, SkipHeartbeat, HeartbeatFails, ClaimFails, AbandonCycle
  <2>2. CASE Delivered \/ LoadIsLow \/ LoadIsHigh \/ ClaimEmpty
    BY <2>2 DEF Delivered, LoadIsLow, LoadIsHigh, ClaimEmpty
  <2>3. CASE Prune
    BY <2>3 DEF Prune, TypeInv, TypeOK
  <2>4. CASE DeliverNext
    BY <2>4 DEF DeliverNext, TypeInv, InHand
  <2>5. ASSUME NEW t \in Tasks, ClaimAnswered(t) PROVE OutboxInv'
    BY <2>5 DEF ClaimAnswered
  <2> QED
    BY <1>3, <2>1, <2>2, <2>3, <2>4, <2>5 DEF Cycle
<1>4. CASE ProcessTask
  <2>1. CASE RefuseTask
    BY <2>1 DEF RefuseTask, AbandonCycle
  <2>2. CASE RepeatResult
    BY <2>2 DEF RepeatResult, Known
  <2>3. CASE ReuseReady \/ RenderOk \/ RenderFails
    BY <2>3 DEF ReuseReady, RenderOk, RenderFails, Fresh, Known
  <2>4. CASE MarkReady \/ MarkReadyStale
    BY <2>4 DEF MarkReady, MarkReadyStale
  <2>5. CASE Revoke \/ RevokeStale
    BY <2>5 DEF Revoke, RevokeStale, Fresh, Known
  <2>6. CASE UnlinkOld
    BY <2>6 DEF UnlinkOld
  <2>7. CASE SaveCompletion
    <3>1. job \in Task
      BY <2>7 DEF SaveCompletion, TypeInv, InHand
    <3>2. /\ done[job.id] = None
          /\ done'[job.id] = [task |-> job, result |-> result, delivered |-> FALSE]
          /\ \A i \in Ids : i # job.id => done'[i] = done[i]
      BY <2>7, <3>1 DEF SaveCompletion, TypeInv, TypeOK, Task
    <3>3. done'[job.id] # None
      <4>1. [task |-> job, result |-> result, delivered |-> FALSE] \in Completion
        BY <3>1 DEF Completion, TypeInv, TypeOK
      <4> QED
        BY <3>2, <4>1
    <3> QED
      BY <2>7, <3>1, <3>2, <3>3 DEF SaveCompletion, Task
  <2> QED
    BY <1>4, <2>1, <2>2, <2>3, <2>4, <2>5, <2>6, <2>7 DEF ProcessTask
<1>5. CASE Complete
  <2>1. CASE ReportOk
    BY <2>1 DEF ReportOk, Record, TypeInv, TypeOK, InHand, Task
  <2>2. CASE ReportRejected
    BY <2>2 DEF ReportRejected, AbandonCycle
  <2>3. CASE ReportTimesOut
    BY <2>3 DEF ReportTimesOut, AbandonCycle
  <2>4. CASE MarkDelivered
    <3>1. job \in Task /\ done[job.id] \in Completion
      BY <2>4 DEF MarkDelivered, TypeInv, TypeOK, InHand, Task
    <3>2. /\ done'[job.id] = [done[job.id] EXCEPT !.delivered = TRUE]
          /\ \A i \in Ids : i # job.id => done'[i] = done[i]
      BY <2>4, <3>1 DEF MarkDelivered, TypeInv, TypeOK, Task
    <3>3. /\ done'[job.id] \in Completion
          /\ done'[job.id].result = done[job.id].result /\ done'[job.id].delivered
      BY <3>1, <3>2, DeliveredTypes
    <3>4. done[job.id].result = result
      BY <2>4 DEF MarkDelivered
    <3>5. done'[job.id] # None /\ done'[job.id].result = result /\ done'[job.id].delivered
      BY <3>3, <3>4
    <3> QED
      BY <2>4, <3>1, <3>2, <3>5 DEF MarkDelivered, Task
  <2> QED
    BY <1>5, <2>1, <2>2, <2>3, <2>4 DEF Complete
<1>6. CASE Admin
  <2>1. CASE AdminGetsLate
    BY <2>1 DEF AdminGetsLate, Record, TypeInv, TypeOK
  <2>2. ASSUME NEW t \in Tasks, AdminOffers(t) PROVE OutboxInv'
    BY <2>2 DEF AdminOffers
  <2> QED
    BY <1>6, <2>1, <2>2 DEF Admin
<1>7. CASE UNCHANGED vars
  BY <1>7 DEF vars
<1> QED
  BY <1>1, <1>2, <1>3, <1>4, <1>5, <1>6, <1>7 DEF Next

LEMMA OutboxInvariance == Spec => [](TypeInv /\ OutboxInv)
  BY InitTypes, StepTypes, OutboxInit, OutboxStep, PTL DEF Spec

\* What ADMIN has accepted for a task is the recorded result, whatever is lost,
\* late or repeated, unless the row was pruned (core.py:802-807, 837).
THEOREM OutboxIsSound == Spec => []ToldIsRecorded
<1>1. OutboxInv => ToldIsRecorded
  BY DEF OutboxInv
<1> QED
  BY <1>1, OutboxInvariance, PTL

\* A row is marked delivered only after ADMIN has accepted its result
\* (core.py:804-807).
THEOREM DeliveredAfterTold == Spec => []DeliveredWasTold
<1>1. OutboxInv => DeliveredWasTold
  BY DEF OutboxInv
<1> QED
  BY <1>1, OutboxInvariance, PTL

\* Never more than one result waits for delivery (core.py:809-815, 862-866).
THEOREM OneInBacklog == Spec => []BacklogAtMostOne
<1>1. OutboxInv => BacklogAtMostOne
  BY DEF OutboxInv
<1> QED
  BY <1>1, OutboxInvariance, PTL

\* The refinement: who moves the outbox.
Reports == Crash \/ ReportOk \/ ReportTimesOut

LEMMA WhoMovesOutbox ==
  [Next]_vars => \/ UNCHANGED <<done, late, told>>
                 \/ Prune \/ SaveCompletion \/ MarkDelivered \/ Reports \/ AdminGetsLate
  BY DEF Next, Start, StopOnVerdict, Cycle, BeatFallsDue, Heartbeat, SkipHeartbeat,
     HeartbeatFails, ClaimFails, AbandonCycle, DeliverNext, Delivered, LoadIsLow, Reports,
     LoadIsHigh, ClaimAnswered, ClaimEmpty, ProcessTask, RefuseTask, RepeatResult, ReuseReady,
     RenderOk, RenderFails, MarkReady, MarkReadyStale, Revoke, RevokeStale, UnlinkOld, Complete,
     ReportRejected, Admin, AdminOffers, vars, store, memory, admin

\* The entry of a task, spelled out.
LEMMA EntryOf ==
  \A i \in Ids :
    /\ done[i] = None => Entries[i] = [state |-> "open", result |-> None]
    /\ done[i] # None => /\ Entries[i].result = done[i].result
                         /\ Entries[i].state = IF done[i].delivered THEN "delivered" ELSE "settled"
  BY DEF Entries

\* The entry of the task that is being reported.
LEMMA ReportedEntry ==
  TypeInv /\ OutboxInv /\ pc \in {"report", "ack"} =>
    /\ job.id \in Ids /\ done[job.id] # None
    /\ Entries[job.id].state # "open" /\ Entries[job.id].result = result
<1> SUFFICES ASSUME TypeInv, OutboxInv, pc \in {"report", "ack"}
             PROVE  /\ job.id \in Ids /\ done[job.id] # None
                    /\ Entries[job.id].state # "open" /\ Entries[job.id].result = result
  OBVIOUS
<1>1. job.id \in Ids
  BY DEF TypeInv, InHand, Task
<1>2. done[job.id] # None /\ done[job.id].result = result
  BY DEF OutboxInv
<1> QED
  BY <1>1, <1>2, EntryOf

LEMMA OutboxMapsInit == Init => Outbox!Init
  BY DEF Init, Outbox!Init, Outbox!Open, Entries

LEMMA PruneForgets == TypeInv /\ Prune => Outbox!Forget
<1> SUFFICES ASSUME TypeInv, Prune PROVE Outbox!Forget
  OBVIOUS
<1>1. PICK old \in SUBSET {i \in Ids : done[i] # None /\ done[i].delivered} :
        done' = [i \in Ids |-> IF i \in old THEN None ELSE done[i]]
  BY DEF Prune
<1>2. old \subseteq Outbox!In("delivered")
  BY <1>1, EntryOf DEF Outbox!In
<1>3. Entries' = [i \in Ids |-> IF i \in old THEN Outbox!Open ELSE Entries[i]]
  BY <1>1 DEF Entries, Outbox!Open
<1> QED
  BY <1>2, <1>3 DEF Prune, Outbox!Forget, admin

LEMMA SaveSettles == TypeInv /\ OutboxInv /\ SaveCompletion => Outbox!Settle(job.id)
<1> SUFFICES ASSUME TypeInv, OutboxInv, SaveCompletion PROVE Outbox!Settle(job.id)
  OBVIOUS
<1>1. job \in Task /\ job.id \in Ids /\ done[job.id] = None /\ result \in Result
  BY DEF SaveCompletion, OutboxInv, InTask, TypeInv, TypeOK, InHand, Task
<1> DEFINE c == [task |-> job, result |-> result, delivered |-> FALSE]
<1>2. c \in Completion /\ c.result = result /\ ~c.delivered
  BY <1>1 DEF Completion, TypeInv, TypeOK
<1>3. c # None
  BY <1>2, NoneAssumption
<1>4. done' = [done EXCEPT ![job.id] = c]
  BY <1>1 DEF SaveCompletion
<1>5. \A i \in Ids : done'[i] = IF i = job.id THEN c ELSE done[i]
  BY <1>1, <1>4 DEF TypeInv, TypeOK
<1> HIDE DEF c
<1>6. Entries' = [Entries EXCEPT ![job.id] = Outbox!Entry("settled", result)]
  BY <1>1, <1>2, <1>3, <1>5 DEF Entries, Outbox!Entry
<1>7. job.id \in Outbox!In("open")
  BY <1>1, EntryOf DEF Outbox!In
<1>8. Outbox!In("settled") = {}
  BY EntryOf DEF Outbox!In, OutboxInv, Undelivered, BeforeReport, SaveCompletion
<1> QED
  BY <1>1, <1>6, <1>7, <1>8 DEF Outbox!Settle, SaveCompletion, admin

LEMMA AckConfirms ==
  TypeInv /\ OutboxInv /\ MarkDelivered => Outbox!Confirm(job.id) \/ Entries' = Entries
<1> SUFFICES ASSUME TypeInv, OutboxInv, MarkDelivered
             PROVE  Outbox!Confirm(job.id) \/ Entries' = Entries
  OBVIOUS
<1>1. /\ job.id \in Ids /\ done[job.id] # None /\ Entries[job.id].result = result
      /\ result \in told[job.id]
  BY ReportedEntry DEF MarkDelivered, OutboxInv
<1>2. done[job.id] \in Completion
  BY <1>1 DEF TypeInv, TypeOK
<1> DEFINE c == [done[job.id] EXCEPT !.delivered = TRUE]
<1>3. c \in Completion /\ c.result = done[job.id].result /\ c.delivered
  BY <1>2, DeliveredTypes
<1>4. c # None
  BY <1>3, NoneAssumption
<1>5. done' = [done EXCEPT ![job.id] = c]
  BY <1>1 DEF MarkDelivered
<1>6. \A i \in Ids : done'[i] = IF i = job.id THEN c ELSE done[i]
  BY <1>1, <1>5 DEF TypeInv, TypeOK
<1> HIDE DEF c
<1>7. Entries' = [Entries EXCEPT ![job.id] = [state |-> "delivered", result |-> done[job.id].result]]
  BY <1>1, <1>3, <1>4, <1>6 DEF Entries
<1>8. Entries[job.id] = [state |-> IF done[job.id].delivered THEN "delivered" ELSE "settled",
                         result |-> done[job.id].result]
  BY <1>1 DEF Entries
<1>9. CASE done[job.id].delivered
  BY <1>1, <1>7, <1>8, <1>9 DEF Entries
<1>10. CASE ~done[job.id].delivered
  <2>1. [Entries[job.id] EXCEPT !.state = "delivered"] =
          [state |-> "delivered", result |-> done[job.id].result]
    BY <1>8
  <2>2. Entries' = [Entries EXCEPT ![job.id].state = "delivered"]
    BY <1>7, <2>1
  <2>3. job.id \in Outbox!In("settled")
    BY <1>1, <1>8, <1>10 DEF Outbox!In
  <2> QED
    BY <1>1, <2>2, <2>3 DEF Outbox!Confirm, MarkDelivered, admin
<1> QED
  BY <1>9, <1>10

LEMMA ReportSends ==
  TypeInv /\ OutboxInv /\ Reports =>
    Outbox!Send(job.id) \/ Outbox!Hear(job.id) \/ UNCHANGED <<Entries, late, told>>
<1> SUFFICES ASSUME TypeInv, OutboxInv, Reports
             PROVE  Outbox!Send(job.id) \/ Outbox!Hear(job.id) \/ UNCHANGED <<Entries, late, told>>
  OBVIOUS
<1>1. Entries' = Entries
  BY DEF Reports, Crash, ReportOk, ReportTimesOut, store, Entries
<1>2. pc = "report" => job.id \notin Outbox!In("open") /\ Entries[job.id].result = result
  BY ReportedEntry DEF Outbox!In
<1>3. CASE ReportOk
  BY <1>1, <1>2, <1>3 DEF ReportOk, Record, Outbox!Hear, Outbox!Record
<1>4. CASE Crash \/ ReportTimesOut
  BY <1>1, <1>2, <1>4 DEF Crash, ReportTimesOut, Outbox!Send
<1> QED
  BY <1>3, <1>4 DEF Reports

LEMMA OutboxMapsStep == TypeInv /\ OutboxInv /\ [Next]_vars => [Outbox!Next]_<<Entries, late, told>>
<1> SUFFICES ASSUME TypeInv, OutboxInv, [Next]_vars
             PROVE  [Outbox!Next]_<<Entries, late, told>>
  OBVIOUS
<1>1. CASE UNCHANGED <<done, late, told>>
  BY <1>1 DEF Entries
<1>2. CASE Prune
  BY <1>2, PruneForgets DEF Outbox!Next
<1>3. CASE SaveCompletion
  <2>1. job.id \in Ids
    BY <1>3 DEF SaveCompletion, TypeInv, InHand, Task
  <2> QED
    BY <1>3, <2>1, SaveSettles DEF Outbox!Next
<1>4. CASE MarkDelivered
  <2>1. job.id \in Ids
    BY <1>4, ReportedEntry DEF MarkDelivered
  <2> QED
    BY <1>4, <2>1, AckConfirms DEF Outbox!Next, MarkDelivered, admin
<1>5. CASE Reports
  <2>1. CASE pc = "report"
    BY <1>5, <2>1, ReportSends, ReportedEntry DEF Outbox!Next
  <2>2. CASE pc # "report"
    BY <1>5, <2>2 DEF Reports, Crash, ReportOk, ReportTimesOut, store, Entries
  <2> QED
    BY <2>1, <2>2
<1>6. CASE AdminGetsLate
  <2>1. Entries' = Entries
    BY <1>6 DEF AdminGetsLate, store, Entries
  <2>2. Outbox!HearLate
    BY <1>6, <2>1 DEF AdminGetsLate, Record, Outbox!HearLate, Outbox!Record
  <2> QED
    BY <2>2 DEF Outbox!Next
<1> QED
  BY <1>1, <1>2, <1>3, <1>4, <1>5, <1>6, WhoMovesOutbox

\* The worker implements the outbox: a result is settled once, alone, and is all
\* that ADMIN ever hears for the task until it may be forgotten (core.py:364-394,
\* 802-815, 837-843).
THEOREM WorkerImplementsOutbox == Spec => ImplementsOutbox
  BY OutboxInvariance, OutboxMapsInit, OutboxMapsStep, PTL
  DEF Spec, ImplementsOutbox, Outbox!Spec, Outbox!ovars

-----------------------------------------------------------------------------
(* Action properties.                                                      *)

\* Only three actions write the completion table.
LEMMA WhoWritesCompletions == [Next]_vars => done' = done \/ Prune \/ SaveCompletion \/ MarkDelivered
  BY DEF Next, Start, Crash, StopOnVerdict, Cycle, BeatFallsDue, Heartbeat, SkipHeartbeat,
     HeartbeatFails, ClaimFails, AbandonCycle, DeliverNext, Delivered, LoadIsLow,
     LoadIsHigh, ClaimAnswered, ClaimEmpty, ProcessTask, RefuseTask, RepeatResult, ReuseReady,
     RenderOk, RenderFails, MarkReady, MarkReadyStale, Revoke, RevokeStale, UnlinkOld, Complete,
     ReportOk, ReportRejected, ReportTimesOut, Admin, AdminGetsLate, AdminOffers,
     vars, store, memory, admin

LEMMA BackedStep ==
  TypeInv /\ StoreInv /\ [Next]_vars =>
    \A i \in Ids : done[i] = None /\ done'[i] # None => Backed(done'[i].task, done'[i].result)
<1> SUFFICES ASSUME TypeInv, StoreInv, [Next]_vars,
                    NEW i \in Ids, done[i] = None, done'[i] # None
             PROVE  Backed(done'[i].task, done'[i].result)
  OBVIOUS
<1>1. CASE SaveCompletion
  <2>1. done'[i] = [task |-> job, result |-> result, delivered |-> FALSE]
    BY <1>1 DEF SaveCompletion, TypeInv, TypeOK
  <2> QED
    BY <1>1, <2>1 DEF SaveCompletion, StoreInv
<1>2. CASE done' = done \/ Prune \/ MarkDelivered
  BY <1>2 DEF Prune, MarkDelivered, TypeInv, TypeOK
<1> QED
  BY <1>1, <1>2, WhoWritesCompletions

\* A "ready" or "revoked" result is recorded only while row and file agree.
THEOREM ResultsBacked == Spec => ResultsAreBacked
<1>1. Spec => [](TypeInv /\ StoreInv)
  BY InitTypes, StepTypes, StoreInit, StoreStep, PTL DEF Spec
<1> QED
  BY <1>1, BackedStep, PTL DEF Spec, ResultsAreBacked

LEMMA KeptStep ==
  TypeInv /\ [Next]_vars =>
    \A i \in Undelivered : done'[i] \in {done[i], [done[i] EXCEPT !.delivered = TRUE]}
<1> SUFFICES ASSUME TypeInv, [Next]_vars, NEW i \in Undelivered
             PROVE  done'[i] \in {done[i], [done[i] EXCEPT !.delivered = TRUE]}
  OBVIOUS
<1>1. i \in Ids /\ done[i] # None /\ ~done[i].delivered
  BY DEF Undelivered
<1>2. CASE SaveCompletion
  BY <1>1, <1>2 DEF SaveCompletion, TypeInv, TypeOK
<1>3. CASE Prune
  BY <1>1, <1>3 DEF Prune
<1>4. CASE MarkDelivered
  BY <1>1, <1>4 DEF MarkDelivered, TypeInv, TypeOK
<1> QED
  BY <1>2, <1>3, <1>4, WhoWritesCompletions

\* An undelivered result is neither dropped nor rewritten by any step.
THEOREM UndeliveredStays == Spec => UndeliveredKept
<1>1. Spec => []TypeInv
  BY InitTypes, StepTypes, PTL DEF Spec
<1> QED
  BY <1>1, KeptStep, PTL DEF Spec, UndeliveredKept
=============================================================================
