# Formal models of the PPFlight PDF agent

TLA+ models of the agent in this repository, TLC configurations that check them
on small instances, and TLAPS proofs of what matters most for every instance.
Paths like `core.py:833` are relative to `src/pdf_agent/` (core.py), `src/scripts/`
(lib.sh, verify-runtime-config.py) or `src/` (the rest).

    cd tla
    tlc -workers 2 -config MCWorker_faults.cfg MCWorker     # any run of the table below
    tlapm WorkerProofs.tla                                  # the proofs

## 1. The system

An agent on a VPS asks the ADMIN service for work over HTTPS, renders invoices to
PDF with a PHP child process, keeps the PDFs in one directory and serves them on
loopback to whoever shows a signed grant. One worker thread does the work; it
shares the process, the SQLite connection (one re-entrant lock) and the artifact
directory with the threads of one or two download listeners. Operator scripts
bind, install, update and remove the agent from other processes.

| component | state | operations | modelled by |
|---|---|---|---|
| Worker cycle (`Agent.cycle`, `process_task`, `_deliver_pending`, `_complete`, `run`) | the task in hand, `_next_heartbeat` | heartbeat, prune, deliver backlog, load gate, claim, render or invalidate, record, report | `Worker` |
| State store (`StateStore`) | tables `artifacts`, `completions`; the artifact directory | `mark_ready`, `revoke`, `save_completion`, `mark_delivered`, `prune_completions`, `artifact_file` | `Worker`, `Shelf`, `Outbox`, `Download` |
| Binding (`read_binding`, `write_binding`, `clear_binding`, `Agent.bind`, `run`'s verdicts, `bind.sh`, systemd) | `state.json` | bind, use, remove, restart, post-start check | `Binding` |
| ADMIN client (`AdminClient.post`, `require_admin_ok`) | none | classifies an answer | `Answers`, used by `Binding`; its outcomes in `Worker` |
| Renderer supervision (`Renderer.render`) | child process, pipe, writer thread, deadline, output file | spawn, feed, read, time out, check, replace, clean up | `Renderer`, `Call` |
| PHP renderer (`render.php`, `InvoiceRenderer`, `SnapshotValidator`) | its own temporary file | validate, lay out, write atomically, report | its process behaviour in `Renderer` |
| Download listener (`DownloadServer`) | 8 slots, one thread per connection | accept, refuse, verify, open, hash, stream | `Slots`, `Listener`, `Download`, `Readers` |
| Download grants (`mint_download_grant`, `verify_download_grant`) | none; read the key of `state.json` and the clock | mint, verify | `Listener` |
| Configuration (`AgentConfig`, `verify-runtime-config.py`) | `config.json` | validate | the check at the start of the service, in `Lifecycle` |
| Life cycle scripts (`install.sh`, `update.sh`, `rollback.sh`, `uninstall.sh`, `lib.sh`) | releases, `current`, unit file, wrappers, `config.json`, `install.env`, lock | install, switch, restore, remove | `Lifecycle` |
| Bootstrap, menu (`bootstrap.sh`, `ag-pdf`, `pag`) | none of their own | fetch a release, call the scripts, start and stop the service | not modelled (section 7) |
| Status report, release verification, packaging, CI | none | read, build | only the unit: `Restart=` and the stop timeout in `Binding`, `ExecStartPre` and `ReadWritePaths` in `Lifecycle` |

How they interact: the worker *calls* ADMIN and waits; ADMIN never calls the
agent. The worker and the handler threads meet in the `artifacts` table (each
statement under the lock) and in the directory (not under the lock: a handler
opens a path after it read the row). The binder and the worker meet only in
`state.json` and through systemd. The renderer's parent and child meet through
two pipes, an exit status and one file name. The scripts exclude each other by a lock,
but not systemd and not the operator's `systemctl`: these start whatever unit file and
`current` are in place at that moment.

What is hard: crashes between a rename, a commit, an unlink, a second commit and a
POST; a POST whose answer is lost or that arrives late; tasks that come twice, out
of revision order or under a reused id; the credential replaced while a POST with
the old one is in flight; a row read before and a file opened after the worker
moved on; a child that hangs, floods or exits at the wrong moment; a gateway that answers
in ADMIN's place; two clocks; a PDF lost with the power; a script that fails or is killed
between any two of its steps while the service is started from what is there. `PROJECT.json`
lists these hazards line by line with the properties that cover them.

## 2. Modules

**`Shelf`** is the abstract specification: per artifact, one revision is shown or
nothing is. `Publish` and `Withdraw` are its only steps; a revision never goes
back, and a PDF that is shown is not exchanged for another under its revision.

**`Worker`** is the core. The cut between actions is where the process can die or
where ADMIN is asked: a transaction, a rename, an unlink and a POST are actions of
their own, everything between two of them is part of one.

| variable | code |
|---|---|
| `row` | table `artifacts` (primary key `artifact_id`); `filename` is a function of artifact and revision (core.py:658) |
| `done` | table `completions`; the stored payload stands for the fingerprint, `delivered` for the column |
| `files` | the artifact directory: digest by final file name |
| `pc`, `job`, `result`, `victims`, `draining` | the thread and its locals in `cycle`, `process_task`, `mark_ready`/`revoke` (`old`), `_deliver_pending` |
| `beatDue` | `time.monotonic() >= _next_heartbeat` |
| `queue`, `told`, `late` | ADMIN: what it will hand out, what it has accepted, what is still on the way |
| `pruned`, `faults`, `offers` | history, and counters for the bounds |

`Prune` lets any set of delivered rows go: the age and the rank by which the code
selects them depend on a wall clock that can be stepped. `DeliverNext` takes any
undelivered row for the same reason. Validation of a task is the set `Refused`.
ADMIN hands out any queued task, may queue it again after it was completed, and
drops a task when it accepts a result for its id. ADMIN's side is external: it is
modelled only by the answers the code has to cope with.

**`Outbox`** is the other abstract specification, of what the worker promises to ADMIN: per
task id an entry that is open, settled or delivered. A result is settled once and while no
other is waiting (`Settle`), ADMIN hears nothing but settled results, at once or late
(`Hear`, `Send`, `HearLate`), and only an entry it has heard may be confirmed and forgotten.
`Worker` refines it with `entry <- Entries` (the completions table), `flying <- late` and
`heard <- told`.

**`Download`** extends `Worker` with handler threads: `ready_artifact`, `os.open`,
the hash over the descriptor, the streaming. A descriptor keeps the bytes of its
inode whatever is renamed over or unlinked. Grants are taken as verified. `LosePower` is
a crash after which any set of PDFs is not what was written (`damaged`): rows are
committed with fsync, but nothing syncs a PDF before `os.replace`. Only the listener looks
at the bytes of a PDF, so the worker carries on as in any crash.

**`Readers`** is the abstract specification of a download over the `Shelf`: a request is asked, *finds*
or *misses* its PDF in one look at the shelf, and is then served exactly what it found or sent away
(`Drop`), the latter only if the shelf no longer shows it or a power failure destroyed it. So a download
is linearizable although the code reads the row, the directory and the inode one after the other.
`Download` refines it with `shelf <- Shown`, `lost <- damaged` and `reader` from the handlers' places: a
handler has found its PDF once it has read the row, and a handler that will see a wrong hash counts as
sent away from the moment it opened the file, which is when it was too late.

**`Answers`** is a pure module: the responses an authenticated POST may get, and `Classify`,
what `post`, `require_admin_ok` and the order of `run`'s handlers make of one. `Foreign` are
the responses of anybody but ADMIN, with any status: a 401 is among them, and `Classify`, like
`post`, looks at the status alone and takes it for ADMIN's.

**`Binding`** has the file, the service (process, listener, stop event, `run`'s
loop with the credential read at the start of the cycle and the one the POST in
flight carries), `bind.sh` with `Agent.bind` inside, and ADMIN's slot. ADMIN decides
on a POST at one moment, the worker acts on the answer at a later one. ADMIN's own answers
and any response of `Foreign` go through `Classify`: a 401 leads to `ClearBinding`, an
explicit conflict to the exit, everything else to a retry. `spoof` is history: the answer in hand
is a 401 that ADMIN did not give. `restarting` is systemd's restart job: once `bind.sh` has asked
for it, it is done even if `bind.sh` dies.

**`Renderer`** is one call of `render`: the polling loop (`poll`, `selected`), `wait`,
`join`, `check`, `cleanup`, with the PHP process, the pipe, the writer thread and
the clock as actions of their own. The output is a report, a report of another size or digest
(`mismatch`), a diagnostic, more than is accepted, or anything else (`garbage`: a warning that
PHP prints on the same pipe, alone or around the rest); `held` are the parent's ends of the pipes.

`Dies` is the agent killed in the middle: the thread and the pipe ends go, PHP goes on alone.

**`Call`** is what the worker relies on, and what one action of `Worker` stands for: the artifact file
is replaced in the step in which the call succeeds; a call that fails, and everything that outlives a
caller that died, leaves it alone. `Renderer` refines it with `file <- final` and the outcome read from
`pc`, `error` and `final`.

**`Slots`** is the semaphore of the listener, with threads that cannot be started.
**`Listener`** extends it with what the threads do while they hold a slot: read the request,
read the key of `state.json` (`ReadKey`), judge the grant by the clock as it is then (`Judge`),
open, stream, hang up. Grants are minted by ADMIN's clock, which differs by `ahead`, or by
`mint_download_grant`; the binding changes at any time, and `old` is history: `state.json` has not
held the grant's key since the request was read. A step of `Listener` is a step of
`Slots` or a stutter of it.

**`Lifecycle`** is the machine under the operator's scripts.

| variable | code |
|---|---|
| `releases`, `current`, `menu` | `/opt/ppflight-pdf-agent/releases` (absent, partial, built = with `.venv`, complete), the symlink, `ag-pdf` and `pag` with the release they were copied from |
| `unit`, `config`, `env` | the three records of the artifact directory: unit file (with its release, `@ARTIFACT_DIR@` until `sed` ran), `config.json`, `install.env` |
| `loaded`, `enabled`, `wanted`, `service` | systemd: the unit of the last daemon-reload, started at boot, started and not stopped, the process with its release and directory |
| `op`, `at` | the script that holds the lock, and its next step |
| `target`, `dir`, `prev`, `oldUnit`, `oldMenu`, `wasActive` | `VERSION`, `ARTIFACT_DIR`, `PREVIOUS_RELEASE`, the backups, `SERVICE_WAS_ACTIVE` |
| `took`, `torn`, `drift`, `stray` | history: what the properties exempt (section 3) |

One action per command that changes something. `Fail` lets any step of `install.sh` fail, after which
its EXIT trap runs step by step; `Killed` ends a script without the trap, `ParentKilled` only
`update.sh` while its child goes on with the inherited lock; `Reboot` may come at any time.
`Launch` is a start of the service: it takes the unit systemd has loaded, and the process stays up
only if `CanStart`, that is if the release has its virtual environment and
`verify-runtime-config.py` finds the unit's directory in `config.json`; even then it may not.
Without a unit systemd refuses, and a process that runs goes on (`TryRestart`, where the script
does not care).
`Bind` is `bind.sh` as far as it touches the service. Taken for granted: the commands of the
trap succeed (each has `|| true`), nobody edits `artifact_dir` in `config.json` by hand, the
operator does not start the service in the middle of an uninstallation, a kill takes the script
with its children. A refusal before the trap is set changes nothing and is no step.

`MC*` modules only add model values and the task sets of the runs.

## 3. Runs

| run | module, cfg | checks | expected |
|---|---|---|---|
| `worker_faults` | `MCWorker`, `MCWorker_faults.cfg` | `TypeOK ReadyFileMatches ToldIsRecorded DeliveredWasTold BacklogAtMostOne ResultsAreBacked UndeliveredKept OrphansExplained ImplementsShelf ImplementsOutbox` | pass (2.6 million states) |
| `worker_live` | `MCWorker`, `MCWorker_live.cfg` | `TasksAreAnswered` | pass (86 000 states) |
| `worker_superseded` | `MCWorker`, `MCWorker_superseded.cfg` | `SupersededRemoved` | violation |
| `binding` | `MCBinding`, `MCBinding.cfg` | `TypeOK OnlyRevocationClears OnlyRejectionStops RefusedBindKeepsBinding RevokedIsRetired` | pass (32 000 states) |
| `binding_stolen` | `MCBinding`, `MCBinding_stolen.cfg` | `ClearsOnlyRejected` | violation |
| `binding_unchecked` | `MCBinding`, `MCBinding_unchecked.cfg` | `SuccessIsChecked` | violation |
| `download` | `MCDownload`, `MCDownload.cfg` | `DTypeOK ServesWhatWasShown OpenFindsShown LossNeedsWithdrawal ImplementsReaders` | pass (2.1 million states) |
| `slots` | `MCListener`, `MCListener.cfg` | `LTypeOK SlotsAccounted GrantIsShortLived JudgedForAReason ConnectionsEnd SlotsComeBack` | pass (460 000 states) |
| `renderer` | `Renderer`, `Renderer.cfg` | `TypeOK ReplacedOnlyOnSuccess EndIsClean RenderReturns ImplementsCall` | pass |
| `renderer_lost` | `Renderer`, `Renderer_lost.cfg` | `SuccessIsNotReportedFailed` | violation |
| `lifecycle` | `MCLifecycle`, `MCLifecycle.cfg` | `TypeOK CurrentComplete OneArtifactDir RunsConfigured RunningIsInstalled InstallerAgrees InStep FailedInstallUndone` | pass (1.4 million states) |
| `lifecycle_mismatch` | `MCLifecycle`, `MCLifecycle_mismatch.cfg` | `NoUnitConfigMismatch` | violation |

What the properties say:

- `ReadyFileMatches`: a ready row names a file with the row's digest, in every state,
  so also in every state a crash can leave behind.
- `ImplementsShelf`: what can be downloaded changes only as `Shelf` allows.
- `ImplementsOutbox`: results are settled, heard, confirmed and forgotten only as `Outbox` allows.
- `ToldIsRecorded`, `DeliveredWasTold`: ADMIN and the completions table never
  contradict each other, at once or through a late POST; only a pruned row is out of
  the comparison.
- `BacklogAtMostOne`: the agent never has two undelivered results.
- `ResultsAreBacked`: a result is recorded only with the row (and file) that back it.
- `UndeliveredKept`: an undelivered row can only be delivered.
- `OrphansExplained`: a PDF that no row names stays on the disk in two cases only: the process ended
  between the rename and the unlink, or its revision was superseded before it was rendered. Together with
  `worker_superseded` it says what that finding can and cannot leave behind.
- `TasksAreAnswered`: a valid task with an id of its own gets its answer, also a failure for a
  revision that has been superseded; a refused payload and one under an id that is taken get none.
- `ServesWhatWasShown`, `OpenFindsShown`: what is streamed has the digest of the row the
  handler read, also after a power loss; a 404 after the row was found means it has been
  superseded meanwhile or its file was lost.
- `LossNeedsWithdrawal`: a PDF lost under a ready row stays lost until the row is withdrawn or
  superseded, since tasks of its revision are answered from the row.
- `ImplementsReaders`: every download is answered as if the shelf had been read at one moment between
  the request and the opening of the file.
- `OnlyRevocationClears`, `OnlyRejectionStops`, `RefusedBindKeepsBinding`, `RevokedIsRetired`: only
  a 401 removes `state.json`, and when ADMIN gave it the credential really was revoked; only a 401 or
  ADMIN's conflict makes the worker stop by itself. Both are conditional on the 401 being ADMIN's
  (`spoof`), as the code takes anybody's; of all else a gateway may answer, nothing has either effect.
  A bind in doubt does not touch the file; a
  revoked credential ends with the file or the listener gone, also when the removal
  fails or the process is killed.
- `SlotsAccounted`, `ConnectionsEnd`, `SlotsComeBack`: a slot is lost only to a thread that
  could not be started, never otherwise; every connection is served or closed.
- `GrantIsShortLived`, `JudgedForAReason`: whatever ADMIN's clock says, two uses of a grant are less
  than a window apart; a grant that fits its path is refused only because it has expired, the key
  has changed, or its life was longer than the window less the lead of ADMIN's clock. The last case
  is real: a full five-minute grant of an ADMIN whose clock is a second ahead is refused at first.
  Conversely it is accepted only if `state.json` has held its key since the request was read: a grant
  from before a rebind is refused after it.
- `ReplacedOnlyOnSuccess`, `EndIsClean`, `RenderReturns`: the artifact file changes only on a
  success, a call that returns leaves no live process, open pipe end or output file, and it ends
  though PHP may hang anywhere.
- `ImplementsCall`: file and outcome change together, also when the agent is killed and PHP outlives it.
- `CurrentComplete`: `current` names a finished release, however scripts end, unless `rollback.sh`, which
  only looks for the directory, was told to take a partial one (`took`).
- `OneArtifactDir`: unit, saved unit, `config.json` and `install.env` name one directory, unless a script
  was cut off, or an install gave up, before `install.env` was there (`torn`).
- `RunsConfigured`, `RunningIsInstalled`: the process may write to the configured directory and to no
  other, and its release is there; the exception (`stray`) is a process that a failed install leaves
  running because none ran before it or there is no unit to restart, whoever started it, that
  `uninstall.sh` met without its unit file, or that systemd starts during an uninstallation.
- `InstallerAgrees`: when an installer restarts the service, unit, `config.json` and `install.env` are there
  and name one directory, unless an earlier script was cut off: what the finding `lifecycle_mismatch` leaves
  of the check of `install.sh`.
- `InStep`: at rest, unit file, wrappers and `current` are of one release. `rollback.sh`, the restore of
  `update.sh` and a cut leave a mixture (`drift`); the next install that succeeds ends it.
- `FailedInstallUndone`: an install that gives up leaves unit, wrappers and `current` as it found them.

Every one of them is broken by a plausible bug: `PROJECT.json` names one mutant per
property, defined in front of the definition it replaces.

### Where the code and its documents disagree

- `worker_superseded`: a render task for an older revision is rendered and renamed into
  place *before* `mark_ready` compares revisions; the task fails, its PDF stays for good.
  It cannot be downloaded (`ImplementsShelf`), it only occupies the disk.
- `binding_stolen`: a 401 for the old token, handled after `bind --replace` wrote the new
  one, removes the new one. The slot at ADMIN stays taken by it.
- `binding_unchecked`: `bind.sh` prints its success message without an authenticated check
  if `state.json` is gone by the time it looks.
- `renderer_lost`: a report printed between an empty `select` and `poll()` is lost and the
  task is recorded as failed, which is final: the same task id gets that answer for ever.
- `lifecycle_mismatch`: the installer compares the directory with `install.env`, the last of the three
  records it writes. Cut off before it, the next install accepts another directory (each source
  checkout defaults to its own), keeps the old `config.json` and writes a unit that does not match it.
  `RunsConfigured` shows what catches it: the service does not start.

Without a document to quote, but worth knowing: a 401 of a gateway or proxy removes a valid credential
and stops the worker for good, since `core.py:538` looks at the status before content type and body; the
comment above it takes only a 403 to be a WAF's, and `protocol.md:94` says "an explicit `401`" without
saying whose (`OnlyRevocationClears` without its `spoof` is violated at once); eight handler threads that cannot be
started close the listener until the next restart (`SlotsAccounted` counts them), and a
PHP process killed between `tempnam` and `rename` leaves its temporary file; a PDF lost with the
power is answered with 404 while ADMIN is told `ready` by every task of its revision; a PDF revoked just
before the process dies stays on the disk, as the row has forgotten its name (`OrphansExplained`), and is
not served; after a rollback
the unit file and the menu are those of the newer release.

## 4. Bounds

- `worker_faults`: one artifact, revisions 1 and 2, three ids, five payloads (two
  renders, an invalidation, an id reused for another payload, a refused payload), two
  digests, so that rendering again gives other bytes; 2 faults (crash, stop, lost,
  refused or late POST) and 4 offers. Two faults reach "lost, then crashed while
  retrying"; four offers reach publish, invalidate, publish again and a repeat. Rows of
  different artifacts share nothing but the worker; `worker_live` has two.
- `worker_live`: two artifacts, 1 fault, 3 offers of five tasks under three ids: a newer revision, two
  tasks of the older one (rendered or invalidated late: `MarkReadyStale`, `RevokeStale`), another payload
  under the id of one of them, and a refused payload under the id of the other.
- `download`: one handler (handlers share nothing with each other), four tasks, 3 offers
  and 1 fault, which may be a power loss: publish, withdraw and publish again under one revision,
  or supersede.
- `binding`: three credentials, so a binding can be replaced twice; 2 faults.
- `slots`: 2 slots instead of 8, 2 clients that come again, up to 2 failed starts, which is all slots;
  a window of 2 ticks, clocks that differ by 1 at most, 4 readings of the clock, so that a grant can be
  too early, valid and expired; two keys, so that a binding can come back; one grant at a time in
  flight (requests share nothing but clock and key).
- `lifecycle`: 2 releases and 2 directories, so that there is always another one; 3 faults: a cut, a
  failure of the script after it, and one in its successor. Scripts are not bounded.
- `renderer`: one call, no bounds; its state space is finite by itself and ends, so
  deadlock is not checked there. In all other runs it is.

## 5. Fairness

- `Worker`: the thread takes its steps (weak fairness on each stretch), systemd or the
  operator starts the process again. Two strong assumptions are about the environment:
  the load gate is open again and again when asked, and ADMIN does not withhold one queued
  task for ever while it hands out others. Faults are finitely many. None is placed on
  ADMIN offering tasks, on late POSTs or on faults.
- `Binding`: the loop runs and a heartbeat falls due again and again (`SF` on
  `SendControl`: a cycle does at least a claim or a heartbeat unless its backlog or the load
  gate ends it first), ADMIN is reached in the end, and systemd restarts after a failure and completes a
  restart job it has queued.
  No fairness on the operator.
- `Listener`: the accepting thread gets to every connection in the listen queue (`SF`: it takes one at a
  time), handler threads run and end (`WF` on `Serve`): each socket operation waits 15 s at most and
  all parts of a request and of a response are of limited length. None on the clock, the binding
  or ADMIN.
- `Lifecycle` has no liveness property and no fairness.
- `Renderer`: only `render` itself and the clock. PHP and the writer thread may hang.

## 6. Proofs

`tlapm` proves, for every value of the constants that satisfies the `ASSUME`s of the module
(tasks are well-typed and their ids and artifacts come from the given sets, `None` is none of
the values it stands beside, the placeholder is no directory, bounds are naturals, the window is
positive, connections are finitely many):

| theorem | module | what |
|---|---|---|
| `WorkerTypes` | `WorkerProofs` | `Spec => []TypeOK` |
| `StoreIsSound` | `WorkerProofs` | `Spec => []ReadyFileMatches` |
| `WorkerImplementsShelf` | `WorkerProofs` | `Spec => ImplementsShelf` |
| `OrphansHaveReason` | `WorkerProofs` | `Spec => OrphansExplained` |
| `OutboxIsSound`, `DeliveredAfterTold`, `OneInBacklog` | `WorkerProofs` | `ToldIsRecorded`, `DeliveredWasTold`, `BacklogAtMostOne` always hold |
| `WorkerImplementsOutbox` | `WorkerProofs` | `Spec => ImplementsOutbox` |
| `ResultsBacked`, `UndeliveredStays` | `WorkerProofs` | the two action properties |
| `BindingTypes`, `RevocationOnly`, `StopsForReason`, `BindInDoubt` | `BindingProofs` | `TypeOK`, `OnlyRevocationClears`, `OnlyRejectionStops`, `RefusedBindKeepsBinding` |
| `HandlerTypes`, `DownloadsAreShown`, `OpenFinds`, `LossStays` | `DownloadProofs` | `DTypeOK`, `ServesWhatWasShown`, `OpenFindsShown`, `LossNeedsWithdrawal` |
| `DownloadIsWorker` | `DownloadProofs` | `DSpec => Spec`: the worker next to downloads is a worker |
| `DownloadImplementsReaders` | `DownloadProofs` | `DSpec => ImplementsReaders` |
| `RendererTypes`, `ReplacedOnSuccess`, `EndLeavesNothing` | `RendererProofs` | `TypeOK`, `ReplacedOnlyOnSuccess`, `EndIsClean` |
| `RendererImplementsCall` | `RendererProofs` | `Spec => ImplementsCall` |
| `SlotsNeverLeak` | `SlotsProofs` | `SlotsAccounted` of `Slots` |
| `ListenerTypes`, `ListenerSlots`, `ShortLived`, `JudgementHasReason` | `ListenerProofs` | `LTypeOK`, `SlotsAccounted`, `GrantIsShortLived`, `JudgedForAReason` of `Listener` |
| `ListenerIsSlots` | `ListenerProofs` | `LSpec => Spec`: the listener is the semaphore of `Slots` with more to do |
| `LifecycleTypes`, `CurrentIsComplete`, `OneDirectory`, `ProcessIsConfigured`, `ProcessIsInstalled`, `InstallersAgree`, `ReleasesInStep`, `InstallUndone` | `LifecycleProofs` | `TypeOK`, `CurrentComplete`, `OneArtifactDir`, `RunsConfigured`, `RunningIsInstalled`, `InstallerAgrees`, `InStep`, `FailedInstallUndone` |

The arguments:

- *Types* (`TypeInv`): `TypeOK` alone is not inductive, since `done[job.id]` and
  `row[job.artifact]` make sense only with a task in hand. `InHand` adds that, and that a
  completion is stored under the id of its task.
- *Store* (`StoreInv`): `ReadyFileMatches` has to survive the middle of a task. The
  strengthening says what each place owes: in `markReady` the rendered file is there and
  is no ready row's file; in `unlink` no row names a victim; in `unlink` and `save` the
  result is backed. Rendering cannot overwrite a ready row's file because a ready row of
  that revision is short-circuited, and file names are one per artifact and revision.
- *Shelf*: each step maps to `Publish`, `Withdraw` or a stutter of `Shelf`; the
  commits of `mark_ready` and `revoke` are the only steps that change `Shown`, because
  `StoreInv` keeps renames and unlinks away from files that are shown.
- *Directory* (`VictimsInv`: there is a file to unlink only between a commit and its unlink): a PDF is
  a row's, rendered and waiting for its row, or a victim; each action that ends one of these roles gives
  the PDF the next, except `MarkReadyStale` and the end of the process (`OrphanStep`).
- *Outbox* (`OutboxInv`): whatever is being reported, or still on the way to ADMIN after a
  timeout, equals the recorded result unless the row was pruned; nothing is undelivered
  between the gate and the record. For the refinement, `SaveCompletion` is `Settle`, a report
  that arrives is `Hear`, one that does not is `Send`, `MarkDelivered` is `Confirm`, `Prune` is
  `Forget`; `OutboxInv` supplies that the backlog is empty before `Settle` and that what is
  reported is what is recorded.
- *Binding* (`CredInv`): whoever holds a credential holds an issued one, a rejected
  one stays inactive, as `AdminBinds` issues each credential once, unless the rejection was somebody
  else's 401 (`spoof`), and a process that is down is in no cycle. `ForeignByStatus` and `OwnAnswers` say
  what `Classify` makes of each kind of answer: of the foreign ones, only a 401 is not a retry.
- *Download* (`HandlerInv`): on top of `TypeInv` and `StoreInv`, which carry over because a step of
  `Download` is a step of `Worker` or a stutter of it.
  `LossStays`: a file that is damaged under a ready row is not rendered, since the row
  short-circuits the task, nor unlinked, by `StoreInv`.
- *Readers*: `DownloadIsWorker` gives the steps of the shelf. A handler's step turns one reader: `ReadRow`
  is `Find` or `Miss`, `OpenMissing` is a `Drop`, and so is an `OpenFile` that gets other bytes than the
  row's; `OpenStep` supplies that this happens only when the row has changed or the file is damaged, and
  `TouchedUnshown` that the worker never writes or unlinks a file that is shown (`Mend`).
- *Slots*: the accounting is inductive itself, by the cardinality of the holders; `Listener` inherits it
  step by step (`StepIsSlots`).
- *Grants* (`GrantsWellMinted`, `HeldWasMinted`, `AcceptedInWindow`): expiry is minting time plus lead plus
  life, whatever a thread judges was minted, and both uses of a grant lie in the window before its expiry;
  an outdated grant's key is neither the one in `state.json` nor the one its thread has read
  (`OldIsOutdated`), and no step but `Judge` decides (`OnlyJudgeJudges`).
- *Renderer* (`IInv`): each place of `render` owes something to the next: without a process there is no
  output; `join` and `check` are reached with status 0 only, `check` with the writer ended; an error leads to
  `cleanup` with the old file; `cleanup` and `end` have an error or the new file. `CheckOk` is `Succeed` of
  `Call`, the steps that raise are `Fail`, `Dies` is `Lose`; PHP and the clock stutter.
- *Life cycle*: `TypeInv` says which steps each script has and which of its variables are set; `RelInv` how
  far the target has got at each step and that `prev` stays usable, so that every restore names
  a complete release; `DirInv` that before `install.env` exists nothing else names a directory but
  in the script that writes all three, and what it has put in place at each step; `RunInv` that a process was started from `current` with the
  directory of `config.json`, and is gone before its release is; `AlignInv` what of the old release the
  script holds as a backup and what of the new one it has put in place.

## 7. What is only model-checked, and what is not modelled

Only model-checked: liveness (`TasksAreAnswered`, `RevokedIsRetired`, `ConnectionsEnd`,
`SlotsComeBack`, `RenderReturns`), which the provers cannot do under fairness. Every invariant, action
property and refinement of the passing runs is also a theorem. `Renderer` has no constants, so its run is
complete as well; its proof adds the argument, and that it does not depend on the run.

Not modelled, and why:

- the schema migration at start (core.py:275-282) and `summary`: the model's rows have all columns,
  the counts change nothing;
- an `open` or a read of a healthy PDF that fails for a reason of its own (no descriptor left, an I/O error):
  the code answers 404 as for a missing file, so the guarantees about a 404 hold but for that;
- HTTP routes and headers, HTML and layout, the rules and amounts of a snapshot: text and
  arithmetic without state;
- `AgentConfig.load`: types and ranges of one file, read once;
- the status report, release building and verification, bootstrap and menu: they read, download or
  call what is modelled;
- the service account, modes and owners of directories;
- ADMIN's handling of a POST with the identity of one binding and the token of another (core.py:803):
  unknown;
- power loss in the middle of a life cycle script: `Reboot` keeps every file, as the scripts sync none
  of them and any of them could be gone;
- `bind.sh` in full next to the other scripts: its steps are in `Binding`, its effect on the service is
  one action of `Lifecycle`, and the lock keeps them apart.

## 8. Plan

In order:

1. The safety part of what `RevokedIsRetired` promises, as an invariant of `Binding`: which places may still
   hold a credential that was rejected.
2. The migration, as another `Init` of `Worker` with rows that have no fingerprint and are not marked.
3. The status report as a reader of the three tables and the directory next to `Worker`, if a document
   comes to say what it promises.
4. Invoice amounts and the snapshot rules against reference definitions.
