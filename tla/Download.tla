------------------------------ MODULE Download ------------------------------
(***************************************************************************)
(* The download listener next to the worker: handler threads of            *)
(* DownloadServer (_serve, core.py:998-1047) read the artifact table and   *)
(* open files through StateStore.artifact_file (core.py:401-448) while the *)
(* worker of module Worker commits rows, renames PDFs into place and       *)
(* unlinks them.  The handlers and the worker share one process, the table *)
(* and the directory; a handler takes its steps on a row read before and   *)
(* on a descriptor opened before, and the worker is anywhere meanwhile.    *)
(* Grants are taken as verified for an artifact and a revision.            *)
(* Commits are durable (WAL, synchronous=FULL), but nothing syncs a PDF    *)
(* before os.replace: when the machine loses power, any PDF may turn out   *)
(* not to have been written back.  Only the listener looks at the bytes.   *)
(***************************************************************************)
EXTENDS Worker

CONSTANTS Handlers   \* the threads of the listener

VARIABLES
  handler,    \* where each thread is, what it asked for and what it holds
  damaged     \* the files that are not what was written: empty, older or gone

dvars == <<vars, handler, damaged>>

\* seen: the sha256 column of the row read; fd: the digest of the bytes of the
\* inode the descriptor is open on, which no later rename or unlink changes.
IdleHandler == [at |-> "idle", artifact |-> None, revision |-> 0, seen |-> None, fd |-> None]

DInit == Init /\ handler = [h \in Handlers |-> IdleHandler] /\ damaged = {}

ProcessUp == pc # "down"

Become(h, next) == /\ handler' = [handler EXCEPT ![h] = next]
                   /\ UNCHANGED <<vars, damaged>>
\* The thread ends, after a response or a 404.
EndRequest(h) == Become(h, IdleHandler)

Asked(h) == FileOf(handler[h].artifact, handler[h].revision)

\* Mutant: the revision is used before its type was checked.
RequestUntyped(h, a, r) == /\ ProcessUp /\ handler[h].at = "idle"
                           /\ Become(h, [IdleHandler EXCEPT !.at = "row", !.artifact = a, !.revision = None])

\* A request with a valid grant.
Request(h, a, r) == /\ ProcessUp /\ handler[h].at = "idle"
                    /\ Become(h, [IdleHandler EXCEPT !.at = "row", !.artifact = a, !.revision = r])

\* Mutant: the newest ready row of the artifact is taken.
ReadRowAnyRevision(h) ==
  /\ handler[h].at = "row"
  /\ LET a == handler[h].artifact IN
     IF row[a].status = "ready"
     THEN Become(h, [handler[h] EXCEPT !.at = "open", !.seen = row[a].sha])
     ELSE EndRequest(h)

\* ready_artifact under the lock of the store.
ReadRow(h) == /\ handler[h].at = "row"
              /\ LET a == handler[h].artifact IN
                 IF row[a].status = "ready" /\ row[a].revision = handler[h].revision
                 THEN Become(h, [handler[h] EXCEPT !.at = "open", !.seen = row[a].sha])
                 ELSE EndRequest(h)

OpenMissing(h) == /\ handler[h].at = "open"
                  /\ files[Asked(h)] = None \/ Asked(h) \in damaged
                  /\ EndRequest(h)

OpenFile(h) == /\ handler[h].at = "open" /\ files[Asked(h)] # None
               /\ \E d \in Digests :
                    /\ d = files[Asked(h)] <=> Asked(h) \notin damaged
                    /\ Become(h, [handler[h] EXCEPT !.at = "hash", !.fd = d])

HashDiffers(h) == /\ handler[h].at = "hash" /\ handler[h].fd # handler[h].seen
                  /\ EndRequest(h)

\* Mutant: the response opens the path once more after it was verified.
HashThenReopen(h) == /\ handler[h].at = "hash" /\ handler[h].fd = handler[h].seen
                     /\ Become(h, [handler[h] EXCEPT !.at = "stream", !.fd = files[Asked(h)]])

\* Size and digest are those of the row; the same descriptor is served.
HashMatches(h) == /\ handler[h].at = "hash" /\ handler[h].fd = handler[h].seen
                  /\ Become(h, [handler[h] EXCEPT !.at = "stream"])

\* The body is written, or the client or its timeout ends the response.
Finish(h) == /\ handler[h].at = "stream"
             /\ EndRequest(h)

Handle(h) == \/ \E a \in Artifacts, r \in Revisions : Request(h, a, r)
             \/ ReadRow(h) \/ OpenMissing(h) \/ OpenFile(h)
             \/ HashDiffers(h) \/ HashMatches(h) \/ Finish(h)

\* The files this step of the worker writes anew or unlinks.
Touched == IF pc = "claimed" /\ pc' = "markReady" THEN {FileOf(job.artifact, job.revision)}
           ELSE IF pc = "unlink" /\ pc' = "save" THEN victims
           ELSE {}

\* A worker step; the handlers go with the process.
WorkerStep == /\ Next
              /\ handler' = IF pc' = "down" THEN [h \in Handlers |-> IdleHandler] ELSE handler
              /\ damaged' = damaged \ Touched

\* The process goes down like in any crash, and files lose what was not on disk.
LosePower == /\ Crash
             /\ handler' = [h \in Handlers |-> IdleHandler]
             /\ \E lost \in SUBSET {f \in FileName : files[f] # None} : damaged' = damaged \cup lost

DNext == WorkerStep \/ LosePower \/ \E h \in Handlers : Handle(h)

DSpec == DInit /\ [][DNext]_dvars

-----------------------------------------------------------------------------
(* Properties.                                                             *)

DTypeOK == /\ damaged \subseteq FileName
           /\ handler \in [Handlers -> [at : {"idle", "row", "open", "hash", "stream"},
                                        artifact : Artifacts \cup {None},
                                        revision : Nat,
                                        seen : Digests \cup {None},
                                        fd : Digests \cup {None}]]

\* What is streamed for an artifact and revision is the PDF that a ready row of
\* that revision named when the handler read it, whatever the worker renamed or
\* unlinked since and whatever a power loss did to the file (core.py:401-448,
\* 1021-1047).
ServesWhatWasShown ==
  \A h \in Handlers : handler[h].at = "stream" => /\ handler[h].fd = handler[h].seen
                                                  /\ handler[h].fd \in Digests

\* While the row is still the one a handler has read, opening the file succeeds
\* and finds the row's bytes: a 404 after the row was found means that the
\* artifact has been superseded or revoked in between, or its file was lost with the
\* power (core.py:408-422, 450-485).
OpenFindsShown ==
  [][\A h \in Handlers :
       LET a == handler[h].artifact IN
       /\ handler[h].at = "open" /\ handler'[h] # handler[h] /\ ProcessUp'
       /\ row[a] = [status |-> "ready", revision |-> handler[h].revision, sha |-> handler[h].seen]
       /\ Asked(h) \notin damaged
       => handler'[h].at = "hash" /\ handler'[h].fd = handler[h].seen]_dvars

\* A PDF that was lost under a ready row is not made good by any task of its
\* revision, since they are answered from the row: it takes an invalidation or a
\* newer revision first (core.py:827-831).
LossNeedsWithdrawal ==
  [][\A f \in damaged \ damaged' : ~(row[f[1]].status = "ready" /\ row[f[1]].revision = f[2])]_dvars

IdleReading == [at |-> "idle", artifact |-> None, revision |-> 0, content |-> None]

\* The request as its client could account for it: it is over as soon as bytes
\* that are not the row's have been opened.
Reading(s) ==
  LET stage(at, content) == [at |-> at, artifact |-> s.artifact, revision |-> s.revision,
                             content |-> content] IN
  CASE s.at = "row" -> stage("asked", None)
    [] s.at = "open" \/ (s.at = "hash" /\ s.fd = s.seen) -> stage("found", s.seen)
    [] s.at = "stream" -> stage("serving", s.fd)
    [] OTHER -> IdleReading

Readers == INSTANCE Readers WITH shelf <- Shown, reader <- [h \in Handlers |-> Reading(handler[h])],
                                 lost <- damaged, up <- ProcessUp

\* Downloads are linearizable: although the row, the directory and the inode are
\* read one after the other while the worker goes on, every request is answered
\* as at one moment of its life (core.py:401-448, 998-1047).
ImplementsReaders == Readers!RSpec
=============================================================================
