------------------------------- MODULE Binding -------------------------------
(***************************************************************************)
(* The credential of the agent: state.json, the running worker that uses   *)
(* it (Agent.run, core.py:876-907, started by agent.py:33-53 under systemd) *)
(* and the operator's bind.sh that replaces it while the worker runs       *)
(* (bind.sh:45-53, Agent.bind, core.py:774-794).  The two processes share  *)
(* nothing but the file.  ADMIN, external, admits one active credential at *)
(* a time; what the worker asks inside a cycle is the Worker module's      *)
(* matter, here a cycle is a series of POSTs and each is answered from     *)
(* what ADMIN knows at one moment and handled at a later one.              *)
(***************************************************************************)
EXTENDS Naturals, Answers

CONSTANTS
  Creds,      \* credentials ADMIN can issue, each at most once
  None,       \* no credential, no state.json
  MaxFaults   \* bound on kills, lost answers, failed unlinks, reboots

ASSUME CredsAssumption == None \notin Creds
ASSUME BoundAssumption == MaxFaults \in Nat

VARIABLES
  file,       \* the credential in state.json, or None
  proc,       \* the service: up, inactive after exit 0, or failed
  listening,  \* the download listener of the running process
  stopAsked,  \* SIGTERM was received: the stop event is set
  wpc,        \* where Agent.run is
  wcred,      \* the credential read at the start of the cycle
  wtoken,     \* the credential the POST in flight carries
  wanswer,    \* what post() made of the answer to it
  spoof,      \* history: that answer is a 401 that ADMIN did not give
  restarting, \* systemd has a restart job, which waits for the process to end
  bpc,        \* where bind.sh is
  bold,       \* the credential bind found in state.json
  bcred,      \* the credential ADMIN answered to bind
  verdict,    \* what bind.sh ended with: success after a check or without one
  active,     \* ADMIN: the credential in the one binding slot, or None
  issued,     \* ADMIN: the credentials issued so far
  faults

worker == <<proc, listening, stopAsked, wpc, wcred, wtoken, wanswer, spoof>>
binder == <<bpc, bold, bcred, verdict>>
admin  == <<active, issued>>
vars   == <<file, worker, restarting, binder, admin, faults>>

CredOrNone == Creds \cup {None}

Init == /\ file = None
        /\ proc = "up" /\ listening = TRUE /\ stopAsked = FALSE
        /\ wpc = "idle" /\ wcred = None /\ wtoken = None /\ wanswer = "none" /\ spoof = FALSE
        /\ restarting = FALSE
        /\ bpc = "off" /\ bold = None /\ bcred = None /\ verdict = "none"
        /\ active = None /\ issued = {}
        /\ faults = 0

Fault == faults < MaxFaults /\ faults' = faults + 1

-----------------------------------------------------------------------------
(* Agent.run.                                                              *)

\* A new process: listeners start before the loop.
Boot == /\ proc' = "up" /\ listening' = TRUE /\ stopAsked' = FALSE
        /\ wpc' = "idle" /\ wcred' = None /\ wtoken' = None /\ wanswer' = "none" /\ spoof' = FALSE

Running(s) == proc = "up" /\ wpc = s

\* The memory of a process that is gone.
Gone == /\ listening' = FALSE /\ stopAsked' = FALSE
        /\ wpc' = "idle" /\ wcred' = None /\ wtoken' = None /\ wanswer' = "none" /\ spoof' = FALSE

\* binding() at the start of cycle(); without a file the cycle is an
\* AgentError and nothing changes.
BeginCycle == /\ Running("idle") /\ ~stopAsked /\ file # None
              /\ wcred' = file /\ wpc' = "cycle"
              /\ UNCHANGED <<file, proc, listening, stopAsked, wtoken, wanswer, spoof, restarting, binder, admin, faults>>

LeaveLoop == /\ Running("idle") /\ stopAsked
             /\ wpc' = "close"
             /\ UNCHANGED <<file, proc, listening, stopAsked, wcred, wtoken, wanswer, spoof, restarting, binder, admin, faults>>

\* Heartbeat and claim carry the token read at the start of the cycle.
SendControl == /\ Running("cycle")
               /\ wtoken' = wcred /\ wpc' = "sent"
               /\ UNCHANGED <<file, proc, listening, stopAsked, wcred, wanswer, spoof, restarting, binder, admin, faults>>

\* _complete reads state.json again.
SendComplete == /\ Running("cycle") /\ file # None
                /\ wtoken' = file /\ wpc' = "sent"
                /\ UNCHANGED <<file, proc, listening, stopAsked, wcred, wanswer, spoof, restarting, binder, admin, faults>>

\* The cycle is over, or _complete finds no state.json (an AgentError).
EndCycle == /\ Running("cycle")
            /\ wpc' = "idle" /\ wcred' = None
            /\ UNCHANGED <<file, proc, listening, stopAsked, wtoken, wanswer, spoof, restarting, binder, admin, faults>>

\* A response arrives: post() and require_admin_ok turn it into a verdict.
Receive(r) == wanswer' = Classify(r) /\ wpc' = "answered"

\* ADMIN looks the token up.  A token that is not active is rejected with 401,
\* or, when another agent holds the slot, perhaps with the conflict code.
AdminAnswers == /\ Running("sent")
                /\ spoof' = FALSE
                /\ \/ wtoken = active /\ Receive(Accepted)
                   \/ wtoken # active /\ Receive(Rejected)
                   \/ active \notin {None, wtoken} /\ \E r \in BoundElsewhere : Receive(r)
                /\ UNCHANGED <<file, proc, listening, stopAsked, wcred, wtoken, restarting, binder, admin, faults>>

\* A gateway answers, or ADMIN with another error, or nobody.  post() cannot tell
\* a gateway's 401 from ADMIN's.
EdgeAnswers == /\ Running("sent") /\ Fault
               /\ \E r \in Foreign : Receive(r) /\ spoof' = (r.status = 401)
               /\ UNCHANGED <<file, proc, listening, stopAsked, wcred, wtoken, restarting, binder, admin>>

HandleOk == /\ Running("answered") /\ wanswer = "ok"
            /\ wpc' = "cycle" /\ wanswer' = "none" /\ spoof' = FALSE
            /\ UNCHANGED <<file, proc, listening, stopAsked, wcred, wtoken, restarting, binder, admin, faults>>

HandleRetry == /\ Running("answered") /\ wanswer = "retry"
               /\ wpc' = "idle" /\ wcred' = None /\ wanswer' = "none" /\ spoof' = FALSE
               /\ UNCHANGED <<file, proc, listening, stopAsked, wtoken, restarting, binder, admin, faults>>

\* Mutant: a 401 is retried like a 403.
Handle401Retries == /\ Running("answered") /\ wanswer = "401"
                    /\ wpc' = "idle" /\ wcred' = None /\ wanswer' = "none" /\ spoof' = FALSE
                    /\ UNCHANGED <<file, proc, listening, stopAsked, wtoken, restarting, binder, admin, faults>>

Handle401 == /\ Running("answered") /\ wanswer = "401"
             /\ wpc' = "clear"
             /\ UNCHANGED <<file, proc, listening, stopAsked, wcred, wtoken, wanswer, spoof, restarting, binder, admin, faults>>

HandleConflict == /\ Running("answered") /\ wanswer = "conflict"
                  /\ wpc' = "close"
                  /\ UNCHANGED <<file, proc, listening, stopAsked, wcred, wtoken, wanswer, spoof, restarting, binder, admin, faults>>

\* clear_binding unlinks state.json, whatever is in it by now.
ClearBinding == /\ Running("clear")
                /\ file' = None /\ wpc' = "close"
                /\ UNCHANGED <<proc, listening, stopAsked, wcred, wtoken, wanswer, spoof, restarting, binder, admin, faults>>

\* The unlink fails; run() swallows the AgentError and stops all the same.
ClearFails == /\ Running("clear") /\ Fault
              /\ wpc' = "close"
              /\ UNCHANGED <<file, proc, listening, stopAsked, wcred, wtoken, wanswer, spoof, restarting, binder, admin>>

\* The finally of main: the servers are closed, then the process ends with 0.
CloseAndExit == /\ Running("close")
                /\ proc' = "inactive" /\ Gone
                /\ UNCHANGED <<file, restarting, binder, admin, faults>>

\* SIGKILL, also the one systemd sends TimeoutStopSec after SIGTERM.
Kill == /\ proc = "up" /\ Fault
        /\ proc' = "failed" /\ Gone
        /\ UNCHANGED <<file, restarting, binder, admin>>

\* Restart=on-failure, unless a restart job is queued.
SystemdRestarts == /\ proc = "failed" /\ ~restarting
                   /\ Boot
                   /\ UNCHANGED <<file, restarting, binder, admin, faults>>

-----------------------------------------------------------------------------
(* bind.sh; the deployment lock admits one at a time.                      *)

BindDone(v) == bpc' = "off" /\ bold' = None /\ bcred' = None /\ verdict' = v

\* The machine reboots: both processes are gone, the enabled unit starts again.
Reboot == /\ Fault /\ Boot /\ BindDone("none")
          /\ restarting' = FALSE
          /\ UNCHANGED <<file, admin>>

\* Agent.bind refuses an existing binding unless --replace was given.
BindStart(replace) == /\ bpc = "off"
                      /\ file = None \/ replace
                      /\ bpc' = "posting" /\ bold' = file /\ verdict' = "none"
                      /\ UNCHANGED <<file, worker, restarting, bcred, admin, faults>>

\* Mutant: state.json is written while the binding is still in doubt.
AdminBindsAndWrites == /\ bpc = "posting" /\ active = None
                       /\ \E c \in Creds \ issued :
                            active' = c /\ issued' = issued \cup {c} /\ bcred' = c /\ file' = c
                       /\ bpc' = "accepted"
                       /\ UNCHANGED <<worker, restarting, bold, verdict, faults>>

\* The slot is free: ADMIN issues a fresh credential.
AdminBinds == /\ bpc = "posting" /\ active = None
              /\ \E c \in Creds \ issued :
                   active' = c /\ issued' = issued \cup {c} /\ bcred' = c
              /\ bpc' = "accepted"
              /\ UNCHANGED <<file, worker, restarting, bold, verdict, faults>>

\* The slot is taken (409) or the code is not valid: the CLI ends with an error.
AdminRefusesBind == /\ bpc = "posting"
                    /\ BindDone("none")
                    /\ UNCHANGED <<file, worker, restarting, admin, faults>>

\* The CLI is killed, or ADMIN's answer does not come back.  A restart job that
\* systemd has taken goes on.
BindDies == /\ bpc # "off" /\ Fault
            /\ BindDone("none")
            /\ UNCHANGED <<file, worker, restarting, admin>>

\* Mutant: written in place, a reader can meet half a file.
WriteTorn == /\ bpc = "accepted"
             /\ file' \in {bcred, "torn"} /\ bpc' = "written"
             /\ UNCHANGED <<worker, restarting, bold, bcred, verdict, admin, faults>>

\* write_binding: one os.replace.
WriteBinding == /\ bpc = "accepted"
                /\ file' = bcred /\ bpc' = "written"
                /\ UNCHANGED <<worker, restarting, bold, bcred, verdict, admin, faults>>

\* systemctl restart queues a job: SIGTERM, wait for the end, start.
StopOld == /\ bpc = "written"
           /\ stopAsked' = (proc = "up") /\ restarting' = TRUE
           /\ bpc' = "stopping"
           /\ UNCHANGED <<file, proc, listening, wpc, wcred, wtoken, wanswer, spoof, bold, bcred, verdict, admin, faults>>

\* The job ends, also when the bind.sh that asked for it is gone.
StartNew == /\ restarting /\ proc # "up"
            /\ Boot /\ restarting' = FALSE
            /\ bpc' = IF bpc = "stopping" THEN "started" ELSE bpc
            /\ UNCHANGED <<file, bold, bcred, verdict, admin, faults>>

\* post_start_check: /healthz answers and there is no state.json to check with.
SucceedUnchecked == /\ bpc = "started" /\ listening /\ file = None
                    /\ BindDone("unchecked")
                    /\ UNCHANGED <<file, worker, restarting, admin, faults>>

FindState == /\ bpc = "started" /\ listening /\ file # None
             /\ bpc' = "check"
             /\ UNCHANGED <<file, worker, restarting, bold, bcred, verdict, admin, faults>>

\* /healthz does not answer within its attempts.
HealthFails == /\ bpc = "started" /\ ~listening
               /\ BindDone("none")
               /\ UNCHANGED <<file, worker, restarting, admin, faults>>

\* agent.py check: a heartbeat with what state.json holds by now.
CheckOk == /\ bpc = "check" /\ file # None /\ file = active
           /\ BindDone("checked")
           /\ UNCHANGED <<file, worker, restarting, admin, faults>>

CheckFails == /\ bpc = "check" /\ (file = None \/ file # active)
              /\ BindDone("none")
              /\ UNCHANGED <<file, worker, restarting, admin, faults>>

-----------------------------------------------------------------------------
(* The administrator disables or rotates the credential (external).        *)

AdminRevokes == /\ active # None
                /\ active' = None
                /\ UNCHANGED <<file, worker, restarting, binder, issued, faults>>

-----------------------------------------------------------------------------
Post == SendControl \/ SendComplete
Handle == HandleOk \/ HandleRetry \/ Handle401 \/ HandleConflict
Run == \/ BeginCycle \/ LeaveLoop \/ Post \/ EndCycle \/ AdminAnswers \/ EdgeAnswers
       \/ Handle \/ ClearBinding \/ ClearFails \/ CloseAndExit
       \/ Kill \/ SystemdRestarts
BindCli == \/ \E replace \in BOOLEAN : BindStart(replace)
           \/ AdminBinds \/ AdminRefusesBind \/ BindDies \/ WriteBinding
           \/ StopOld \/ StartNew \/ SucceedUnchecked \/ FindState \/ HealthFails
           \/ CheckOk \/ CheckFails

Next == Run \/ BindCli \/ Reboot \/ AdminRevokes

Spec == Init /\ [][Next]_vars

(* The worker's thread runs, a heartbeat falls due again and again, ADMIN  *)
(* is reached in the end.                                                  *)
Fairness == /\ WF_vars(BeginCycle) /\ WF_vars(LeaveLoop)
            /\ SF_vars(SendControl) /\ WF_vars(Post \/ EndCycle)
            /\ SF_vars(AdminAnswers) /\ WF_vars(Handle)
            /\ WF_vars(ClearBinding) /\ WF_vars(CloseAndExit)
            /\ WF_vars(SystemdRestarts \/ StartNew)

FairSpec == Spec /\ Fairness

-----------------------------------------------------------------------------
(* Properties.                                                             *)

TypeOK ==
  /\ file \in CredOrNone
  /\ proc \in {"up", "inactive", "failed"}
  /\ listening \in BOOLEAN /\ stopAsked \in BOOLEAN
  /\ wpc \in {"idle", "cycle", "sent", "answered", "clear", "close"}
  /\ wcred \in CredOrNone /\ wtoken \in CredOrNone
  /\ wanswer \in {"none", "ok", "retry", "401", "conflict"} /\ spoof \in BOOLEAN
  /\ restarting \in BOOLEAN
  /\ bpc \in {"off", "posting", "accepted", "written", "stopping", "started", "check"}
  /\ bold \in CredOrNone /\ bcred \in CredOrNone
  /\ verdict \in {"none", "checked", "unchecked"}
  /\ active \in CredOrNone /\ issued \subseteq Creds
  /\ faults \in 0 .. MaxFaults

\* state.json is removed only after a 401, and only for a credential that is really
\* revoked when it is ADMIN's own 401: lost answers, 403, 5xx, broken bodies and
\* conflicts never end in clear_binding, however they meet a replaced credential.
\* A gateway's 401 does (core.py:538 takes anybody's), so it is excepted (core.py:534-561,
\* 880-903).
OnlyRevocationClears == wpc = "clear" => wtoken \in issued /\ (wtoken # active \/ spoof)

\* The worker stops for good, as systemd does not restart an exit with 0, only when
\* it was told to, when its credential is really not the active one, or when somebody
\* else answered 401: no other answer of a gateway, no 403, no 409 that is not
\* ADMIN's binding conflict ends it (core.py:534-561, 879-893; the unit's
\* Restart=on-failure).
OnlyRejectionStops ==
  wpc = "close" => stopAsked \/ (wtoken \in issued /\ (wtoken # active \/ spoof))

\* A bind that ADMIN has not accepted leaves the local binding as it was; the
\* worker may meanwhile have removed it (core.py:775-793, protocol.md:71-74).
RefusedBindKeepsBinding == bpc \in {"posting", "accepted"} => file \in {bold, None}

\* A worker whose credential was revoked does not go on serving: in the end
\* state.json holds something else or the listener is closed, also when the
\* removal of state.json fails (core.py:880-889, agent.py:43-50).
RevokedIsRetired ==
  \A c \in Creds : (proc = "up" /\ file = c /\ active # c)
                   ~> (file # c \/ ~listening)

\* core.py:341 "Remove invalid bearer/HMAC material after an explicit ADMIN
\* revocation": what clear_binding removes is the material ADMIN rejected.
ClearsOnlyRejected == [][file # None /\ file' = None => file = wtoken]_vars

\* README.md:85: the closing line of bind.sh means that the authentication with
\* ADMIN has been checked (bind.sh:52-53, lib.sh:372-382).
SuccessIsChecked == verdict # "unchecked"
=============================================================================
