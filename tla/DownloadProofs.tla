--------------------------- MODULE DownloadProofs ---------------------------
(***************************************************************************)
(* Theorems about downloads next to the worker, for any number of handler  *)
(* threads.                                                                *)
(***************************************************************************)
EXTENDS Download, WorkerProofs

\* What a thread holds at each place: an artifact and a revision while it looks
\* for them, bytes of a file once it has opened one, verified ones when it
\* streams.
HandlerInv ==
  /\ DTypeOK
  /\ \A h \in Handlers :
       /\ handler[h].at # "idle" => handler[h].artifact \in Artifacts /\ handler[h].revision \in Revisions
       /\ handler[h].at \in {"hash", "stream"} => handler[h].fd \in Digests
       /\ handler[h].at = "stream" => handler[h].fd = handler[h].seen

DInv == TypeInv /\ StoreInv /\ HandlerInv

\* A step of a handler leaves the worker alone and moves one thread.
LEMMA HandlerMoves ==
  ASSUME NEW h \in Handlers, Handle(h)
  PROVE  UNCHANGED <<vars, damaged>> /\ \E next : handler' = [handler EXCEPT ![h] = next]
  BY DEF Handle, Request, ReadRow, OpenMissing, OpenFile, HashDiffers, HashMatches, Finish,
     EndRequest, Become

LEMMA WorkerSteps == [DNext]_dvars => [Next]_vars
  BY HandlerMoves DEF DNext, WorkerStep, LosePower, Next, dvars

LEMMA IdleTypes == IdleHandler \in [at : {"idle", "row", "open", "hash", "stream"},
                                    artifact : Artifacts \cup {None}, revision : Nat,
                                    seen : Digests \cup {None}, fd : Digests \cup {None}]
  BY DEF IdleHandler

LEMMA RequestTypes ==
  \A a \in Artifacts, r \in Revisions :
    LET next == [IdleHandler EXCEPT !.at = "row", !.artifact = a, !.revision = r] IN
    /\ next \in [at : {"idle", "row", "open", "hash", "stream"},
                 artifact : Artifacts \cup {None}, revision : Nat,
                 seen : Digests \cup {None}, fd : Digests \cup {None}]
    /\ next.at = "row" /\ next.artifact = a /\ next.revision = r
  BY IdleTypes, RevisionsAssumption

LEMMA HandlerInit == DInit => HandlerInv
  BY IdleTypes DEF DInit, HandlerInv, DTypeOK, IdleHandler

LEMMA HandlerStep == TypeInv /\ HandlerInv /\ [DNext]_dvars => HandlerInv'
<1> SUFFICES ASSUME TypeInv, HandlerInv, [DNext]_dvars PROVE HandlerInv'
  OBVIOUS
<1>1. CASE WorkerStep \/ LosePower
  BY <1>1, IdleTypes DEF WorkerStep, LosePower, HandlerInv, DTypeOK, IdleHandler
<1>2. ASSUME NEW h \in Handlers, Handle(h) PROVE HandlerInv'
  <2> USE DEF HandlerInv, DTypeOK, Become
  <2>1. ASSUME NEW a \in Artifacts, NEW r \in Revisions, Request(h, a, r) PROVE HandlerInv'
    <3> DEFINE next == [IdleHandler EXCEPT !.at = "row", !.artifact = a, !.revision = r]
    <3>1. /\ next \in [at : {"idle", "row", "open", "hash", "stream"},
                       artifact : Artifacts \cup {None}, revision : Nat,
                       seen : Digests \cup {None}, fd : Digests \cup {None}]
          /\ next.at = "row" /\ next.artifact = a /\ next.revision = r
      BY RequestTypes
    <3>2. handler' = [handler EXCEPT ![h] = next]
      BY <2>1 DEF Request
    <3>3. damaged' = damaged
      BY <2>1 DEF Request
    <3> HIDE DEF next
    <3> QED
      BY <3>1, <3>2, <3>3
  <2>2. CASE EndRequest(h)
    BY <2>2, IdleTypes DEF EndRequest, IdleHandler
  <2>3. CASE ReadRow(h) /\ ~EndRequest(h)
    <3>1. row[handler[h].artifact].sha \in Digests \cup {None}
      BY <2>3 DEF ReadRow, TypeInv, TypeOK, Row
    <3>2. handler' = [handler EXCEPT ![h] = [handler[h] EXCEPT !.at = "open",
                                                 !.seen = row[handler[h].artifact].sha]]
      BY <2>3 DEF ReadRow
    <3>3. handler[h].at = "row" /\ damaged' = damaged
      BY <2>3 DEF ReadRow
    <3> QED
      BY <3>1, <3>2, <3>3
  <2>4. CASE OpenFile(h)
    <3>1. Asked(h) \in FileName
      BY <2>4 DEF OpenFile, Asked, FileOf, FileName
    <3>2. PICK d \in Digests : handler' = [handler EXCEPT ![h] = [handler[h] EXCEPT !.at = "hash", !.fd = d]]
      BY <2>4 DEF OpenFile
    <3>3. handler[h].at = "open" /\ damaged' = damaged
      BY <2>4 DEF OpenFile
    <3> QED
      BY <3>2, <3>3
  <2>5. CASE HashMatches(h)
    BY <2>5 DEF HashMatches
  <2> QED
    BY <1>2, <2>1, <2>2, <2>3, <2>4, <2>5 DEF Handle, OpenMissing, HashDiffers, Finish
<1>3. CASE UNCHANGED dvars
  BY <1>3 DEF dvars, HandlerInv, DTypeOK
<1> QED
  BY <1>1, <1>2, <1>3 DEF DNext

LEMMA DInvariance == DSpec => []DInv
<1>1. DInit => DInv
  BY InitTypes, StoreInit, HandlerInit DEF DInit, DInv
<1>2. DInv /\ [DNext]_dvars => DInv'
  BY WorkerSteps, StepTypes, StoreStep, HandlerStep DEF DInv
<1> QED
  BY <1>1, <1>2, PTL DEF DSpec

\* Downloads do not disturb the worker: next to any number of handler threads it
\* behaves as it does alone, so what is proved of Spec holds with downloads
\* (core.py:396-448).
THEOREM DownloadIsWorker == DSpec => Spec
<1>1. DInit => Init
  BY DEF DInit
<1> QED
  BY <1>1, WorkerSteps, PTL DEF DSpec, Spec

\* The types of what the threads hold (core.py:401-448, 998-1047).
THEOREM HandlerTypes == DSpec => []DTypeOK
<1>1. DInv => DTypeOK
  BY DEF DInv, HandlerInv
<1> QED
  BY <1>1, DInvariance, PTL

\* What is streamed is what a ready row named when the handler read it
\* (core.py:401-448, 1021-1047).
THEOREM DownloadsAreShown == DSpec => []ServesWhatWasShown
<1>1. DInv => ServesWhatWasShown
  BY DEF DInv, HandlerInv, ServesWhatWasShown
<1> QED
  BY <1>1, DInvariance, PTL

\* A ready row's file can be opened and holds the row's bytes as long as the row
\* is in place: the commit of a row comes after the rename of its file and before
\* the unlink of the old one (core.py:408-422, 450-485).
LEMMA OpenStep ==
  ASSUME DInv, DInv', [DNext]_dvars, NEW h \in Handlers,
         handler[h].at = "open", handler'[h] # handler[h], ProcessUp',
         row[handler[h].artifact] =
           [status |-> "ready", revision |-> handler[h].revision, sha |-> handler[h].seen],
         Asked(h) \notin damaged
  PROVE  handler'[h].at = "hash" /\ handler'[h].fd = handler[h].seen
<1>1. PICK k \in Handlers : Handle(k)
  BY DEF DNext, WorkerStep, LosePower, Crash, ProcessUp, dvars
<1>2. k = h
  BY <1>1, HandlerMoves DEF DInv, HandlerInv, DTypeOK
<1>3. files[Asked(h)] = handler[h].seen /\ handler[h].seen \in Digests
  BY DEF DInv, StoreInv, ReadyFileMatches, HandlerInv, Asked
<1>4. OpenFile(h)
  BY <1>1, <1>2, <1>3, NoneAssumption
  DEF Handle, Request, ReadRow, OpenMissing, HashDiffers, HashMatches, Finish
<1>5. handler' = [handler EXCEPT ![h] = [handler[h] EXCEPT !.at = "hash", !.fd = handler[h].seen]]
  BY <1>3, <1>4 DEF OpenFile, Become
<1> QED
  BY <1>5 DEF DInv, HandlerInv, DTypeOK

\* Whoever finds the row can open the file, unless the row is superseded or
\* withdrawn first or the file was lost with the power (core.py:408-422).
THEOREM OpenFinds == DSpec => OpenFindsShown
<1>1. DInv /\ DInv' /\ [DNext]_dvars =>
      [\A h \in Handlers :
         LET a == handler[h].artifact IN
         /\ handler[h].at = "open" /\ handler'[h] # handler[h] /\ ProcessUp'
         /\ row[a] = [status |-> "ready", revision |-> handler[h].revision, sha |-> handler[h].seen]
         /\ Asked(h) \notin damaged
         => handler'[h].at = "hash" /\ handler'[h].fd = handler[h].seen]_dvars
  BY OpenStep
<1> QED
  BY <1>1, DInvariance, PTL DEF DSpec, OpenFindsShown

\* Which actions of the worker take these steps.
LEMMA WhoseStep ==
  Next => /\ pc = "claimed" /\ pc' = "markReady" => RenderOk
          /\ pc = "unlink" /\ pc' = "save" => UnlinkOld
          /\ pc = "down" \/ pc' = "down" => row' = row
  BY DEF Next, Start, Crash, StopOnVerdict, Cycle, ProcessTask, Complete, Admin,
     BeatFallsDue, Heartbeat, HeartbeatFails, SkipHeartbeat, Prune, DeliverNext, Delivered,
     LoadIsLow, LoadIsHigh, ClaimAnswered, ClaimEmpty, ClaimFails, RefuseTask, RepeatResult,
     ReuseReady, RenderOk, RenderFails, MarkReady, MarkReadyStale, Revoke, RevokeStale, UnlinkOld,
     SaveCompletion, ReportOk, ReportRejected, ReportTimesOut, MarkDelivered, AdminOffers,
     AdminGetsLate, AbandonCycle, store

\* The files a step of the worker writes anew or unlinks are named by no ready
\* row, and the step changes no row.
LEMMA TouchedUnshown ==
  ASSUME DInv, Next, NEW f \in Touched
  PROVE  row' = row /\ ~(row[f[1]].status = "ready" /\ row[f[1]].revision = f[2])
<1>1. CASE pc = "claimed" /\ pc' = "markReady"
  <2>1. RenderOk
    BY <1>1, WhoseStep
  <2>2. f = FileOf(job.artifact, job.revision)
    BY <1>1 DEF Touched
  <2> QED
    BY <2>1, <2>2 DEF RenderOk, ReadyAtRevision, FileOf
<1>2. CASE pc = "unlink" /\ pc' = "save"
  <2>1. UnlinkOld
    BY <1>2, WhoseStep
  <2>2. f \in victims
    BY <1>2 DEF Touched
  <2>3. f \in FileName /\ f = FileOf(f[1], f[2]) /\ f[1] \in Artifacts
    BY <2>2 DEF DInv, TypeInv, TypeOK, FileName, FileOf
  <2>4. FileOfRow(f[1]) \cap victims = {}
    BY <1>2, <2>3 DEF DInv, StoreInv
  <2> QED
    BY <2>1, <2>2, <2>3, <2>4 DEF FileOfRow, UnlinkOld
<1> QED
  BY <1>1, <1>2 DEF Touched

\* A file that lost its bytes is written or unlinked again only when no ready row
\* names it (core.py:827-831, 450-485).
THEOREM LossStays == DSpec => LossNeedsWithdrawal
<1> DEFINE A == \A f \in damaged \ damaged' : ~(row[f[1]].status = "ready" /\ row[f[1]].revision = f[2])
<1>1. ASSUME DInv, [DNext]_dvars PROVE [A]_dvars
  <2> SUFFICES ASSUME NEW f \in damaged \ damaged'
               PROVE  ~(row[f[1]].status = "ready" /\ row[f[1]].revision = f[2])
    OBVIOUS
  <2>1. WorkerStep /\ f \in Touched
    BY <1>1, HandlerMoves DEF DNext, WorkerStep, LosePower, dvars
  <2> QED
    BY <1>1, <2>1, TouchedUnshown DEF WorkerStep
<1> QED
  BY <1>1, DInvariance, PTL DEF DSpec, LossNeedsWithdrawal

-----------------------------------------------------------------------------
(* Downloads are linearizable: the listener implements Readers.            *)

Readings == [h \in Handlers |-> Reading(handler[h])]

\* What a thread's place maps to.
LEMMA ReadingAt ==
  ASSUME NEW s
  PROVE  /\ s.at = "row" => Reading(s) = Readers!Request("asked", s.artifact, s.revision, None)
         /\ s.at = "open" \/ (s.at = "hash" /\ s.fd = s.seen)
              => Reading(s) = [at |-> "found", artifact |-> s.artifact, revision |-> s.revision,
                               content |-> s.seen]
         /\ s.at = "stream"
              => Reading(s) = [at |-> "serving", artifact |-> s.artifact, revision |-> s.revision,
                               content |-> s.fd]
         /\ s.at = "idle" \/ (s.at = "hash" /\ s.fd # s.seen) => Reading(s) = Readers!Idle
  BY DEF Reading, IdleReading, Readers!Request, Readers!Idle

\* A thread that moves turns one reader and leaves the shelf alone.
LEMMA Turns ==
  ASSUME HandlerInv, NEW h \in Handlers, NEW next, Become(h, next)
  PROVE  Readers!Turn(h, Reading(next))
<1>1. handler' = [handler EXCEPT ![h] = next] /\ damaged' = damaged /\ row' = row /\ files' = files
      /\ pc' = pc
  BY DEF Become, vars, store
<1>2. Readings' = [Readings EXCEPT ![h] = Reading(next)]
  BY <1>1 DEF HandlerInv, DTypeOK, Readings
<1>3. Shown' = Shown
  BY <1>1 DEF Shown
<1> QED
  BY <1>1, <1>2, <1>3 DEF Readers!Turn, Readings, ProcessUp

LEMMA ReadersInit == DInit => Readers!RInit
<1> SUFFICES ASSUME DInit PROVE Readers!RInit
  OBVIOUS
<1>1. Readers!Init
  BY ShelfInit DEF DInit, Shelf!Init, Readers!Init
<1>2. \A h \in Handlers : Reading(handler[h]) = Readers!Idle
  BY ReadingAt DEF DInit, IdleHandler
<1> QED
  BY <1>1, <1>2 DEF DInit, Init, ProcessUp, Readers!RInit

\* The shelf of the worker is the one the readers look at.
LEMMA SameShelf == Shelf!Next => Readers!Next
  BY DEF Shelf!Next, Shelf!Publish, Shelf!Withdraw, Shelf!Showing,
         Readers!Next, Readers!Publish, Readers!Withdraw, Readers!Showing

\* What the shelf shows under a row, ready or not.
LEMMA ShownRow ==
  ASSUME StoreInv, NEW a \in Artifacts, NEW r
  PROVE  /\ Readers!Showing(a, r) <=> row[a].status = "ready" /\ row[a].revision = r
         /\ row[a].status = "ready" => Shown[a].content = row[a].sha
         /\ row[a].status = "ready" => row[a].revision \in Revisions /\ row[a].sha \in Digests
  BY DEF Readers!Showing, Shown, StoreInv, ReadyFileMatches

LEMMA HandlerReads ==
  ASSUME DInv, NEW h \in Handlers, Handle(h)
  PROVE  Readers!Reads(h) \/ UNCHANGED <<Shown, Readings, damaged, ProcessUp>>
<1> DEFINE s == handler[h]
<1> USE DEF Readings
<1>0. /\ HandlerInv /\ StoreInv /\ Readings[h] = Reading(s)
      /\ s.at # "idle" => s.artifact \in Artifacts /\ s.revision \in Revisions
  BY DEF DInv, HandlerInv
<1>1. ASSUME NEW a \in Artifacts, NEW r \in Revisions, Request(h, a, r) PROVE Readers!Ask(h, a, r)
  <2> DEFINE next == [IdleHandler EXCEPT !.at = "row", !.artifact = a, !.revision = r]
  <2>1. next.at = "row" /\ next.artifact = a /\ next.revision = r
    BY RequestTypes
  <2>2. Become(h, next) /\ s.at = "idle"
    BY <1>1 DEF Request
  <2> HIDE DEF next
  <2>3. Readers!Turn(h, Reading(next)) /\ Reading(next) = Readers!Request("asked", a, r, None)
    BY <1>0, <2>1, <2>2, Turns, ReadingAt
  <2>4. Readings[h].at = "idle"
    BY <1>0, <2>2, ReadingAt DEF Readers!Idle, Readers!Request
  <2> QED
    BY <1>1, <2>3, <2>4 DEF Readers!Ask, Request
<1>2. ASSUME EndRequest(h) PROVE Readers!Turn(h, Readers!Idle)
  BY <1>0, <1>2, Turns, ReadingAt DEF EndRequest, IdleHandler
<1>3. CASE ReadRow(h)
  <2>1. s.at = "row" /\ Readings[h] = Readers!Request("asked", s.artifact, s.revision, None)
    BY <1>0, <1>3, ReadingAt DEF ReadRow
  <2>2. Readings[h].at = "asked"
        /\ Readings[h].artifact = s.artifact /\ Readings[h].revision = s.revision
    BY <2>1 DEF Readers!Request
  <2>3. CASE ~Readers!Showing(s.artifact, s.revision)
    <3>1. EndRequest(h)
      BY <1>0, <1>3, <2>1, <2>3, ShownRow DEF ReadRow
    <3>2. Readers!Miss(h)
      BY <1>2, <2>2, <2>3, <3>1 DEF Readers!Miss, Readers!Shows
    <3> QED
      BY <3>2 DEF Readers!Reads
  <2>4. CASE Readers!Showing(s.artifact, s.revision)
    <3> DEFINE next == [s EXCEPT !.at = "open", !.seen = row[s.artifact].sha]
    <3>1. /\ Become(h, next)
          /\ Shown[s.artifact].content = row[s.artifact].sha
      BY <1>0, <1>3, <2>1, <2>4, ShownRow DEF ReadRow
    <3>2. /\ next.at = "open" /\ next.artifact = s.artifact /\ next.revision = s.revision
          /\ next.seen = row[s.artifact].sha
      BY <1>0 DEF HandlerInv, DTypeOK
    <3> HIDE DEF next
    <3>3. Reading(next) = [at |-> "found", artifact |-> s.artifact, revision |-> s.revision,
                           content |-> row[s.artifact].sha]
      BY <3>2, ReadingAt
    <3>4. Reading(next) = Readers!Request("found", s.artifact, s.revision, Shown[s.artifact].content)
      BY <3>1, <3>3 DEF Readers!Request
    <3>5. Readers!Turn(h, Reading(next))
      BY <1>0, <3>1, Turns
    <3>6. Readers!Find(h)
      BY <2>2, <2>4, <3>4, <3>5 DEF Readers!Find, Readers!Shows, Readers!Advance
    <3> QED
      BY <3>6 DEF Readers!Reads
  <2> QED
    BY <2>3, <2>4
<1>4. ASSUME s.at = "open"
      PROVE  /\ Readings[h] = [at |-> "found", artifact |-> s.artifact, revision |-> s.revision,
                               content |-> s.seen]
             /\ \/ ~(Readers!Shows(h) /\ Shown[s.artifact].content = s.seen)
                \/ files[Asked(h)] = s.seen /\ s.seen \in Digests
  <2>1. Readings[h] = [at |-> "found", artifact |-> s.artifact, revision |-> s.revision,
                       content |-> s.seen]
    BY <1>0, <1>4, ReadingAt
  <2>2. Readers!Showing(s.artifact, s.revision) /\ Shown[s.artifact].content = s.seen
        => files[Asked(h)] = s.seen /\ s.seen \in Digests
    BY <1>0, <1>4, ShownRow DEF Asked, StoreInv, ReadyFileMatches
  <2> QED
    BY <2>1, <2>2 DEF Readers!Shows
<1>5. ASSUME s.at = "open", Readers!Turn(h, Readers!Idle),
             files[Asked(h)] # s.seen \/ s.seen \notin Digests \/ Asked(h) \in damaged
      PROVE  Readers!Drop(h)
  BY <1>4, <1>5 DEF Readers!Drop, Asked, FileOf
<1>6. CASE OpenMissing(h)
  <2>1. files[Asked(h)] # s.seen \/ s.seen \notin Digests \/ Asked(h) \in damaged
    BY <1>6, NoneAssumption DEF OpenMissing
  <2>2. Readers!Drop(h)
    BY <1>2, <1>5, <1>6, <2>1 DEF OpenMissing
  <2> QED
    BY <2>2 DEF Readers!Reads
<1>7. CASE OpenFile(h)
  <2>1. PICK d \in Digests : /\ d = files[Asked(h)] <=> Asked(h) \notin damaged
                             /\ Become(h, [s EXCEPT !.at = "hash", !.fd = d])
    BY <1>7 DEF OpenFile
  <2> DEFINE next == [s EXCEPT !.at = "hash", !.fd = d]
  <2>2. /\ next.at = "hash" /\ next.artifact = s.artifact /\ next.revision = s.revision
        /\ next.seen = s.seen /\ next.fd = d
    BY <1>0 DEF HandlerInv, DTypeOK
  <2>3. Become(h, next)
    BY <2>1
  <2> HIDE DEF next
  <2>4. s.at = "open" /\ Readers!Turn(h, Reading(next))
    BY <1>0, <1>7, <2>3, Turns DEF OpenFile
  <2>5. CASE d = s.seen
    <3>1. Reading(next) = Readings[h]
      BY <1>4, <2>2, <2>4, <2>5, ReadingAt
    <3>2. UNCHANGED <<Shown, Readings, damaged, ProcessUp>>
      BY <1>0, <2>4, <3>1 DEF Readers!Turn
    <3> QED
      BY <3>2
  <2>6. CASE d # s.seen
    <3>1. Reading(next) = Readers!Idle
      BY <2>2, <2>6, ReadingAt
    <3>2. Readers!Drop(h)
      BY <1>5, <2>1, <2>4, <2>6, <3>1
    <3> QED
      BY <3>2 DEF Readers!Reads
  <2> QED
    BY <2>5, <2>6
<1>8. CASE HashDiffers(h)
  <2>1. Readings[h] = Readers!Idle
    BY <1>0, <1>8, ReadingAt DEF HashDiffers
  <2>2. UNCHANGED <<Shown, Readings, damaged, ProcessUp>>
    BY <1>0, <1>2, <1>8, <2>1 DEF HashDiffers, Readers!Turn
  <2> QED
    BY <2>2
<1>9. CASE HashMatches(h)
  <2> DEFINE next == [s EXCEPT !.at = "stream"]
  <2>1. s.at = "hash" /\ s.fd = s.seen /\ Become(h, next)
    BY <1>9 DEF HashMatches
  <2>2. /\ next.at = "stream" /\ next.artifact = s.artifact /\ next.revision = s.revision
        /\ next.fd = s.fd
    BY <1>0 DEF HandlerInv, DTypeOK
  <2> HIDE DEF next
  <2>3. Reading(next) = [at |-> "serving", artifact |-> s.artifact, revision |-> s.revision,
                         content |-> s.seen]
    BY <2>1, <2>2, ReadingAt
  <2>4. Readings[h] = [at |-> "found", artifact |-> s.artifact, revision |-> s.revision,
                       content |-> s.seen]
    BY <1>0, <2>1, ReadingAt
  <2>5. Readers!Turn(h, Reading(next))
    BY <1>0, <2>1, Turns
  <2>6. /\ Readings[h].at = "found" /\ Readings[h].content = s.seen
        /\ Readings[h].artifact = s.artifact /\ Readings[h].revision = s.revision
    BY <2>4
  <2>7. Readers!Serve(h)
    BY <2>3, <2>5, <2>6 DEF Readers!Serve, Readers!Advance, Readers!Request
  <2> QED
    BY <2>7 DEF Readers!Reads
<1>10. CASE Finish(h)
  <2>1. Readings[h].at = "serving"
    BY <1>0, <1>10, ReadingAt DEF Finish
  <2>2. Readers!End(h)
    BY <1>2, <1>10, <2>1 DEF Finish, Readers!End
  <2> QED
    BY <2>2 DEF Readers!Reads
<1> QED
  BY <1>1, <1>3, <1>6, <1>7, <1>8, <1>9, <1>10 DEF Handle, Readers!Reads

LEMMA ReadersStep ==
  ASSUME DInv, DInv', [DNext]_dvars
  PROVE  [Readers!RNext]_<<Shown, Readings, damaged, ProcessUp>>
<1> USE DEF Readers!RNext
<1>1. CASE \E h \in Handlers : Handle(h)
  BY <1>1, HandlerReads
<1>2. ASSUME row' = row PROVE Shown' = Shown
  <2>1. \A a \in Artifacts : Shown'[a] = Shown[a]
    BY <1>2, RowsShow DEF DInv, StoreInv
  <2> QED
    BY <2>1 DEF Shown
<1>3. ASSUME handler' = [h \in Handlers |-> IdleHandler], damaged \subseteq damaged', row' = row, pc' = "down"
      PROVE  Readers!Cut
  <2>1. \A h \in Handlers : Reading(handler'[h]) = Readers!Idle
    BY <1>3, ReadingAt DEF IdleHandler
  <2>2. Readings' = [h \in Handlers |-> Readers!Idle]
    BY <2>1 DEF Readings
  <2> QED
    BY <1>2, <1>3, <2>2 DEF Readers!Cut, Readings, ProcessUp
<1>4. CASE LosePower
  BY <1>3, <1>4 DEF LosePower, Crash, store
<1>5. CASE WorkerStep
  <2>1. CASE pc' = "down"
    <3>1. row' = row /\ Touched = {}
      BY <1>5, <2>1, WhoseStep DEF WorkerStep, Touched
    <3> QED
      BY <1>3, <1>5, <2>1, <3>1 DEF WorkerStep
  <2>2. CASE pc # "down" /\ pc' # "down" /\ Touched = {}
    <3>1. handler' = handler /\ damaged' = damaged
      BY <1>5, <2>2 DEF WorkerStep
    <3>2. [Shelf!Next]_Shown
      BY <1>5, ShelfStep DEF WorkerStep, DInv
    <3> QED
      BY <2>2, <3>1, <3>2, SameShelf DEF Readers!Change, Readings, ProcessUp
  <2>3. CASE pc # "down" /\ pc' # "down" /\ Touched # {}
    <3>1. /\ row' = row
          /\ \A f \in Touched : ~(row[f[1]].status = "ready" /\ row[f[1]].revision = f[2])
      BY <1>5, <2>3, TouchedUnshown DEF WorkerStep
    <3>2. handler' = handler /\ damaged' = damaged \ Touched
      BY <1>5, <2>3 DEF WorkerStep
    <3>3. \A f \in damaged : f[1] \in Artifacts
      BY DEF DInv, HandlerInv, DTypeOK, FileName
    <3>4. \A f \in damaged \ damaged' : ~Readers!Showing(f[1], f[2])
      BY <3>1, <3>2, <3>3, ShownRow DEF DInv
    <3> QED
      BY <1>2, <2>3, <3>1, <3>2, <3>4 DEF Readers!Mend, Readings, ProcessUp
  <2>4. CASE pc = "down" /\ pc' # "down"
    <3>1. row' = row /\ handler' = handler /\ damaged' = damaged
      BY <1>5, <2>4, WhoseStep DEF WorkerStep, Touched
    <3> QED
      BY <1>2, <2>4, <3>1 DEF Readers!Boot, Readings, ProcessUp
  <2> QED
    BY <2>1, <2>2, <2>3, <2>4
<1>6. CASE UNCHANGED dvars
  BY <1>6 DEF dvars, vars, store, Shown, Readings, ProcessUp
<1> QED
  BY <1>1, <1>4, <1>5, <1>6 DEF DNext

\* Every download is answered as at one moment of its life, for any number of
\* threads next to the worker and whatever a power loss did to the files
\* (core.py:401-448, 998-1047).
THEOREM DownloadImplementsReaders == DSpec => ImplementsReaders
<1>1. DInv /\ DInv' /\ [DNext]_dvars => [Readers!RNext]_<<Shown, Readings, damaged, ProcessUp>>
  BY ReadersStep
<1> QED
  BY <1>1, ReadersInit, DInvariance, PTL DEF DSpec, ImplementsReaders, Readers!RSpec, Readers!rvars, Readings
=============================================================================
