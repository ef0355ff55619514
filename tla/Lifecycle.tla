------------------------------ MODULE Lifecycle ------------------------------
(***************************************************************************)
(* The operator scripts that put a release of the agent on a machine and   *)
(* take it off: install.sh with its EXIT trap, update.sh which runs the    *)
(* installer of the downloaded release, rollback.sh, uninstall.sh          *)
(* (--purge), over the helpers of scripts/lib.sh.  One script runs at a    *)
(* time (take_lock).  Each step may fail, the script may be killed between *)
(* any two steps, and the machine may reboot.  systemd, external, starts   *)
(* the service from the unit it has loaded; it and the operator do so at   *)
(* any time.  The artifact directory is written to three places: the unit, *)
(* config.json and install.env.                                            *)
(***************************************************************************)
EXTENDS Naturals

CONSTANTS
  Versions,   \* release versions
  Dirs,       \* artifact directories an operator may name or default to
  None,       \* no release, no unit, no directory
  MaxFaults   \* bound on failed steps, kills and reboots

\* A unit whose @ARTIFACT_DIR@ has not been replaced yet.
Template == "@ARTIFACT_DIR@"
Units    == [version : Versions, dir : Dirs \cup {Template}]
Service  == [version : Versions, dir : Dirs]
Maybe(S) == S \cup {None}

ASSUME NoneAssumption == None \notin Versions \cup Dirs \cup Units \cup Service
ASSUME TemplateAssumption == Template \notin Dirs
ASSUME BoundAssumption == MaxFaults \in Nat

VARIABLES
  releases,   \* /opt/ppflight-pdf-agent/releases: how far each one has got
  current,    \* the symlink
  unit,       \* the unit file
  menu,       \* /usr/local/bin/ag-pdf and pag: the release they were copied from
  config,     \* artifact_dir of config.json
  env,        \* PDF_AGENT_ARTIFACT_DIR of install.env
  loaded,     \* systemd: the unit as of the last daemon-reload
  enabled,    \* systemd: started at boot
  wanted,     \* systemd: started and not stopped, so restarted on failure
  service,    \* the running process: its release and the directory it may write
  op,         \* the script that holds the lock
  at,         \* its next step
  target,     \* VERSION
  dir,        \* ARTIFACT_DIR
  prev,       \* PREVIOUS_RELEASE
  oldUnit,    \* UNIT_BACKUP
  oldMenu,    \* PAG_BACKUP, AG_PDF_BACKUP
  wasActive,  \* SERVICE_WAS_ACTIVE
  took,       \* history: incomplete releases rollback.sh made current
  torn,       \* history: a script left a directory that install.env does not name
  drift,      \* history: unit, menu and current may be of different releases
  stray,      \* history: a script that should have ended the process did not
  faults

tree    == <<releases, current, menu>>
dirs    == <<unit, config, env>>
systemd == <<loaded, enabled, wanted, service>>
locals  == <<target, dir, prev, oldUnit, oldMenu, wasActive>>
script  == <<op, at, locals>>
history == <<took, torn, drift>>
vars    == <<tree, dirs, systemd, stray, script, history, faults>>

Fault == faults < MaxFaults /\ faults' = faults + 1

NoLocals == /\ target' = None /\ dir' = None /\ prev' = None
            /\ oldUnit' = None /\ oldMenu' = None /\ wasActive' = FALSE

Init == /\ releases = [v \in Versions |-> "absent"]
        /\ current = None /\ unit = None /\ menu = None /\ config = None /\ env = None
        /\ loaded = None /\ enabled = FALSE /\ wanted = FALSE /\ service = None
        /\ op = "none" /\ at = "off"
        /\ target = None /\ dir = None /\ prev = None
        /\ oldUnit = None /\ oldMenu = None /\ wasActive = FALSE
        /\ took = {} /\ torn = FALSE /\ drift = FALSE /\ stray = FALSE
        /\ faults = 0

-----------------------------------------------------------------------------
(* systemd and what it starts.                                             *)

\* The process gets as far as its listener only with a virtual environment in
\* the current release, and ExecStartPre (verify-runtime-config.py) compares
\* the unit's directory with that of config.json.
CanStart(u) == /\ u # None /\ current # None
               /\ releases[current] \in {"built", "complete"}
               /\ config # None /\ u.dir = config

\* systemd reads a unit file it has not loaded yet.
Known == IF loaded = None THEN unit ELSE loaded

Removing == op \in {"uninstall", "purge"}

\* Mutant: no ExecStartPre.
LaunchUnchecked ==
  /\ Known # None /\ loaded' = Known
  /\ wanted' = TRUE /\ stray' = Removing
  /\ service' \in {None} \cup
       IF /\ current # None /\ Known.dir # Template
          /\ releases[current] \in {"built", "complete"} /\ config # None
       THEN {[version |-> current, dir |-> Known.dir]} ELSE {}

\* systemctl (re)start: the old process is gone; whether the new one stays up
\* depends on things outside this module.  An uninstallation does not expect it.
Launch == /\ Known # None /\ loaded' = Known
          /\ wanted' = TRUE /\ stray' = Removing
          /\ service' \in {None} \cup
               IF CanStart(Known) THEN {[version |-> current, dir |-> Known.dir]} ELSE {}

\* systemctl restart || true: without a unit it is refused, and a process that runs
\* goes on.
TryRestart == Launch \/ (Known = None /\ UNCHANGED <<systemd, stray>>)

\* The process dies: Restart=on-failure, unless it ended with 0.
ServiceDies == /\ service # None
               /\ service' = None /\ stray' = FALSE /\ wanted' \in {wanted, FALSE}
               /\ UNCHANGED <<tree, dirs, loaded, enabled, script, history, faults>>

ServiceRetried == /\ wanted /\ service = None /\ loaded # None
                  /\ Launch
                  /\ UNCHANGED <<tree, dirs, enabled, script, history, faults>>

\* A unit nothing refers to is forgotten and read again when it is needed.
Forgets == /\ loaded # None /\ ~wanted /\ ~enabled /\ service = None
           /\ loaded' = None
           /\ UNCHANGED <<tree, dirs, enabled, wanted, service, stray, script, history, faults>>

\* ag-pdf service start|restart, at any time but during an uninstallation.
OperatorStarts == /\ ~Removing
                  /\ Launch
                  /\ UNCHANGED <<tree, dirs, enabled, script, history, faults>>

OperatorStops == /\ service # None \/ wanted
                 /\ service' = None /\ stray' = FALSE /\ wanted' = FALSE
                 /\ UNCHANGED <<tree, dirs, loaded, enabled, script, history, faults>>

\* bind.sh holds the lock for as long as module Binding says; here it enables
\* and restarts the service.
Bind == /\ op = "none" /\ current # None /\ config # None /\ env # None
        /\ releases[current] \in {"built", "complete"}
        /\ enabled' = TRUE
        /\ Launch
        /\ UNCHANGED <<tree, dirs, script, history, faults>>

-----------------------------------------------------------------------------
(* install.sh, also as the child of update.sh.                             *)

Installing == op \in {"install", "update"}

\* Mutant: only the directory the operator names counts.
BeginAnywhere(o, v, d) ==
  /\ op = "none" /\ releases[v] = "absent"
  /\ o = "update" => current # None
  /\ op' = o /\ at' = "mkdir" /\ target' = v /\ dir' = d
  /\ prev' = current /\ oldUnit' = unit /\ oldMenu' = menu /\ wasActive' = (service # None)
  /\ UNCHANGED <<tree, dirs, systemd, stray, history, faults>>

\* Up to the trap: nothing is changed, the state to restore is saved.  The
\* directory is the one install.env names, if it names one.
Begin(o, v, d) ==
  /\ op = "none" /\ releases[v] = "absent" /\ env \in {None, d}
  /\ o = "update" => current # None
  /\ op' = o /\ at' = "mkdir" /\ target' = v /\ dir' = d
  /\ prev' = current /\ oldUnit' = unit /\ oldMenu' = menu /\ wasActive' = (service # None)
  /\ UNCHANGED <<tree, dirs, systemd, stray, history, faults>>

Goes(from, to) == Installing /\ at = from /\ at' = to /\ UNCHANGED <<op, locals>>

Grow(from, to, level) ==
  /\ Goes(from, to)
  /\ releases' = [releases EXCEPT ![target] = level]
  /\ UNCHANGED <<current, menu, dirs, systemd, stray, history, faults>>

MakeDir  == Grow("mkdir", "build", "partial")
Build    == Grow("build", "deps", "built")
Validate == Grow("deps", "unit", "complete")

\* Mutant: a unit file that is there is kept.
KeepUnit == /\ Goes("unit", "sed")
            /\ unit' = IF unit = None THEN [version |-> target, dir |-> Template] ELSE unit
            /\ UNCHANGED <<tree, config, env, systemd, stray, history, faults>>

\* install copies the unit file, sed -i replaces the placeholder.
WriteUnit == /\ Goes("unit", "sed")
             /\ unit' = [version |-> target, dir |-> Template]
             /\ UNCHANGED <<tree, config, env, systemd, stray, history, faults>>

FillUnit == /\ Goes("sed", "config")
            /\ unit' = [unit EXCEPT !.dir = dir]
            /\ UNCHANGED <<tree, config, env, systemd, stray, history, faults>>

\* Mutant: the example is copied as it is.
CopyConfig == /\ Goes("config", "env")
              /\ config' = IF config = None THEN Template ELSE config
              /\ UNCHANGED <<tree, unit, env, systemd, stray, history, faults>>

WriteConfig == /\ Goes("config", "env")
               /\ config' = IF config = None THEN dir ELSE config
               /\ UNCHANGED <<tree, unit, env, systemd, stray, history, faults>>

WriteEnv == /\ Goes("env", "switch")
            /\ env' = IF env = None THEN dir ELSE env
            /\ UNCHANGED <<tree, unit, config, systemd, stray, history, faults>>

Switch == /\ Goes("switch", "menu")
          /\ current' = target
          /\ UNCHANGED <<releases, menu, dirs, systemd, stray, history, faults>>

WriteMenu == /\ Goes("menu", "reload")
             /\ menu' = target
             /\ UNCHANGED <<releases, current, dirs, systemd, stray, history, faults>>

\* trap - EXIT, and back to update.sh if that is the parent.
Installed == IF op = "install" THEN op' = "none" /\ at' = "off" /\ NoLocals /\ drift' = FALSE
                               ELSE at' = "recheck" /\ UNCHANGED <<op, locals, drift>>

\* daemon-reload and enable; --no-start ends here.
Reload == /\ Installing /\ at = "reload"
          /\ loaded' = unit /\ enabled' = TRUE
          /\ \/ at' = "restart" /\ UNCHANGED <<op, locals, drift>>
             \/ op = "install" /\ Installed
          /\ UNCHANGED <<tree, dirs, wanted, service, stray, took, torn, faults>>

Restart == /\ Goes("restart", "check")
           /\ Launch
           /\ UNCHANGED <<tree, dirs, enabled, history, faults>>

\* post_start_check needs an answer of the listener.
CheckPasses == /\ Installing /\ at = "check" /\ service # None
               /\ Installed
               /\ UNCHANGED <<tree, dirs, systemd, stray, took, torn, faults>>

-----------------------------------------------------------------------------
(* The EXIT trap, rollback_install.                                        *)

CheckFails == /\ Goes("check", "tUnit")
              /\ UNCHANGED <<tree, dirs, systemd, stray, history, faults>>

\* Any other step fails and has no effect.
Fail == /\ Installing
        /\ at \in {"mkdir", "build", "deps", "unit", "sed", "config", "env", "switch", "menu", "reload"}
        /\ at' = "tUnit" /\ Fault
        /\ UNCHANGED <<tree, dirs, systemd, stray, op, locals, history>>

RestoreUnit == /\ Goes("tUnit", "tMenu")
               /\ unit' = oldUnit
               /\ enabled' \in (IF oldUnit = None THEN {FALSE, enabled} ELSE {enabled})
               /\ UNCHANGED <<tree, config, env, loaded, wanted, service, stray, history, faults>>

\* Mutant: the wrappers of the failed release stay.
KeepMenu == /\ Goes("tMenu", "tCurrent")
            /\ UNCHANGED <<tree, dirs, systemd, stray, history, faults>>

RestoreMenu == /\ Goes("tMenu", "tCurrent")
               /\ menu' = oldMenu
               /\ UNCHANGED <<releases, current, dirs, systemd, stray, history, faults>>

\* Mutant: current stays on the failed release.
KeepCurrent == /\ Goes("tCurrent", "tReload")
               /\ UNCHANGED <<tree, dirs, systemd, stray, history, faults>>

RestoreCurrent ==
  /\ Goes("tCurrent", "tReload")
  /\ current' = IF prev # None /\ releases[prev] # "absent" THEN prev ELSE None
  /\ UNCHANGED <<releases, menu, dirs, systemd, stray, history, faults>>

\* Mutant: the service is not restarted.
ReloadOnly ==
  /\ Goes("tReload", "tRm")
  /\ loaded' = unit
  /\ UNCHANGED <<tree, dirs, enabled, wanted, service, stray, history, faults>>

\* daemon-reload; the service is restarted only if it was active before, and only
\* with a unit.
RestoreService ==
  /\ Goes("tReload", "tRm")
  /\ loaded' = unit
  /\ IF wasActive /\ prev # None /\ unit # None
     THEN /\ wanted' = TRUE /\ stray' = FALSE
          /\ service' \in {None} \cup
               IF CanStart(unit) THEN {[version |-> current, dir |-> unit.dir]} ELSE {}
     ELSE /\ stray' = (service # None)
          /\ UNCHANGED <<wanted, service>>
  /\ UNCHANGED <<tree, dirs, enabled, history, faults>>

\* rm -rf of the release is not atomic.
Crumble == /\ Goes("tRm", "tRm2")
           /\ releases' = [releases EXCEPT ![target] = IF @ = "absent" THEN @ ELSE "partial"]
           /\ UNCHANGED <<current, menu, dirs, systemd, stray, history, faults>>

Loose == env' = None /\ (config' # None \/ unit' # None)
Rest  == op' = "none" /\ at' = "off" /\ NoLocals

GiveUp == /\ Installing /\ at = "tRm2"
          /\ releases' = [releases EXCEPT ![target] = "absent"]
          /\ UNCHANGED <<current, menu, dirs, systemd, stray, took, drift, faults>>
          /\ Rest /\ torn' = (torn \/ Loose)

-----------------------------------------------------------------------------
(* update.sh after its child.                                              *)

Recheck == /\ op = "update" /\ at = "recheck"
           /\ \/ service # None /\ Rest /\ drift' = FALSE
              \/ at' = "uCurrent" /\ UNCHANGED <<op, locals, drift>>
           /\ UNCHANGED <<tree, dirs, systemd, stray, took, torn, faults>>

UpdateRestores == /\ op = "update" /\ at = "uCurrent" /\ at' = "uRestart"
                  /\ current' = prev
                  /\ UNCHANGED <<releases, menu, dirs, systemd, stray, op, locals, history, faults>>

UpdateRestarts == /\ op = "update" /\ at = "uRestart"
                  /\ TryRestart
                  /\ Rest /\ drift' = TRUE
                  /\ UNCHANGED <<tree, dirs, enabled, took, torn, faults>>

\* update.sh is killed, install.sh goes on and keeps the lock through fd 9.
ParentKilled == /\ op = "update" /\ at \notin {"recheck", "uCurrent", "uRestart"}
                /\ op' = "install" /\ Fault
                /\ UNCHANGED <<tree, dirs, systemd, stray, at, locals, history>>

-----------------------------------------------------------------------------
(* rollback.sh.                                                            *)

RollbackTo(t) == /\ op = "none" /\ releases[t] # "absent" /\ current # None
                 /\ op' = "rollback" /\ at' = "switch" /\ target' = t /\ prev' = current
                 /\ UNCHANGED <<dir, oldUnit, oldMenu, wasActive>>
                 /\ UNCHANGED <<tree, dirs, systemd, stray, history, faults>>

RollbackSwitch == /\ op = "rollback" /\ at = "switch" /\ at' = "restart"
                  /\ current' = target
                  /\ took' = IF releases[target] = "complete" THEN took ELSE took \cup {target}
                  /\ UNCHANGED <<releases, menu, dirs, systemd, stray, op, locals, torn, drift, faults>>

RollbackRestart == /\ op = "rollback" /\ at = "restart" /\ at' = "check"
                   /\ Launch
                   /\ UNCHANGED <<tree, dirs, enabled, op, locals, history, faults>>

RollbackPasses == /\ op = "rollback" /\ at = "check" /\ service # None
                  /\ Rest /\ drift' = TRUE
                  /\ UNCHANGED <<tree, dirs, systemd, stray, took, torn, faults>>

\* The restart is refused, or the check fails.
RollbackFails == /\ op = "rollback" /\ at' = "back"
                 /\ at = "check" \/ (at = "restart" /\ Known = None)
                 /\ current' = prev
                 /\ UNCHANGED <<releases, menu, dirs, systemd, stray, op, locals, history, faults>>

RollbackRestored == /\ op = "rollback" /\ at = "back"
                    /\ TryRestart
                    /\ Rest
                    /\ UNCHANGED <<tree, dirs, enabled, history, faults>>

-----------------------------------------------------------------------------
(* uninstall.sh.                                                           *)

Leads(from, to) == Removing /\ at = from /\ at' = to /\ UNCHANGED <<op, locals>>

\* disable --now fails, and may stop nothing, if there is no unit file.
Uninstall(o) == /\ op = "none" /\ op' = o /\ at' = "unit"
                /\ enabled' \in (IF unit = None THEN {enabled, FALSE} ELSE {FALSE})
                /\ \/ service' = None /\ wanted' = FALSE /\ stray' = FALSE
                   \/ unit = None /\ stray' = (service # None) /\ UNCHANGED <<service, wanted>>
                /\ UNCHANGED <<tree, dirs, loaded, locals, history, faults>>

RemoveUnit == /\ Leads("unit", "reload")
              /\ unit' = None
              /\ UNCHANGED <<tree, config, env, systemd, stray, history, faults>>

RemoveReload == /\ Leads("reload", "menu")
                /\ loaded' = None
                /\ UNCHANGED <<tree, dirs, enabled, wanted, service, stray, history, faults>>

RemoveMenu == /\ Leads("menu", "link")
              /\ menu' = None
              /\ UNCHANGED <<releases, current, dirs, systemd, stray, history, faults>>

\* Without --purge that is all.
RemoveLink == /\ Removing /\ at = "link"
              /\ current' = None
              /\ IF op = "purge" THEN at' = "releases" /\ UNCHANGED <<op, locals, drift>>
                                 ELSE Rest /\ drift' = FALSE
              /\ UNCHANGED <<releases, menu, dirs, systemd, stray, took, torn, faults>>

\* rm -rf takes one release after the other, each in many steps.
PurgeRelease == /\ op = "purge" /\ at = "releases"
                /\ \E v \in Versions :
                     /\ releases[v] # "absent"
                     /\ releases' = [releases EXCEPT ![v] = IF @ = "partial" THEN "absent" ELSE "partial"]
                /\ UNCHANGED <<current, menu, dirs, systemd, stray, script, history, faults>>

PurgeConfig == /\ op = "purge" /\ at \in {"releases", "etc"} /\ at' = "etc"
               /\ \A v \in Versions : releases[v] = "absent"
               /\ \/ config # None /\ config' = None /\ UNCHANGED env
                  \/ env # None /\ env' = None /\ UNCHANGED config
               /\ UNCHANGED <<tree, unit, systemd, stray, op, locals, history, faults>>

Purged == /\ op = "purge" /\ at \in {"releases", "etc"}
          /\ \A v \in Versions : releases[v] = "absent"
          /\ config = None /\ env = None
          /\ Rest /\ took' = {} /\ torn' = FALSE /\ drift' = FALSE
          /\ UNCHANGED <<tree, dirs, systemd, stray, faults>>

-----------------------------------------------------------------------------
(* The script that holds the lock is killed, or the machine reboots.       *)

Cut == Rest /\ torn' = (torn \/ (Loose /\ op # "none")) /\ drift' = (drift \/ op # "none")

Killed == /\ op # "none" /\ Fault
          /\ UNCHANGED <<tree, dirs, systemd, stray, took>>
          /\ Cut

Reboot == /\ Fault
          /\ loaded' = unit /\ service' = None /\ stray' = FALSE
          /\ wanted' = (enabled /\ unit # None)
          /\ UNCHANGED <<tree, dirs, enabled, took>>
          /\ Cut

-----------------------------------------------------------------------------
Systemd == ServiceDies \/ ServiceRetried \/ Forgets
Operator == OperatorStarts \/ OperatorStops \/ Bind
Install == \/ \E o \in {"install", "update"}, v \in Versions, d \in Dirs : Begin(o, v, d)
           \/ MakeDir \/ Build \/ Validate \/ WriteUnit \/ FillUnit \/ WriteConfig \/ WriteEnv
           \/ Switch \/ WriteMenu \/ Reload \/ Restart \/ CheckPasses
Undo == \/ CheckFails \/ Fail \/ RestoreUnit \/ RestoreMenu \/ RestoreCurrent
        \/ RestoreService \/ Crumble \/ GiveUp
Update == Recheck \/ UpdateRestores \/ UpdateRestarts \/ ParentKilled
Rollback == \/ \E t \in Versions : RollbackTo(t)
            \/ RollbackSwitch \/ RollbackRestart \/ RollbackPasses
            \/ RollbackFails \/ RollbackRestored
Remove == \/ \E o \in {"uninstall", "purge"} : Uninstall(o)
          \/ RemoveUnit \/ RemoveReload \/ RemoveMenu \/ RemoveLink
          \/ PurgeRelease \/ PurgeConfig \/ Purged

Next == Systemd \/ Operator \/ Install \/ Undo \/ Update \/ Rollback \/ Remove
        \/ Killed \/ Reboot

Spec == Init /\ [][Next]_vars

-----------------------------------------------------------------------------
(* Properties.                                                             *)

Steps == {"off", "mkdir", "build", "deps", "unit", "sed", "config", "env", "switch", "menu",
          "reload", "restart", "check", "tUnit", "tMenu", "tCurrent", "tReload", "tRm", "tRm2",
          "recheck", "uCurrent", "uRestart", "back", "link", "releases", "etc"}

Flags == /\ enabled \in BOOLEAN /\ wanted \in BOOLEAN /\ wasActive \in BOOLEAN
         /\ torn \in BOOLEAN /\ drift \in BOOLEAN /\ stray \in BOOLEAN

TypeOK == /\ releases \in [Versions -> {"absent", "partial", "built", "complete"}]
          /\ {current, menu, target, prev, oldMenu} \subseteq Maybe(Versions)
          /\ {unit, loaded, oldUnit} \subseteq Maybe(Units)
          /\ {config, env, dir} \subseteq Maybe(Dirs)
          /\ service \in Maybe(Service)
          /\ Flags
          /\ op \in {"none", "install", "update", "rollback", "uninstall", "purge"}
          /\ at \in Steps
          /\ took \subseteq Versions
          /\ faults \in 0 .. MaxFaults

\* current names a release whose build was finished and validated, whatever
\* fails or is killed, unless rollback.sh, which only looks for the directory,
\* was told to take another (install.sh:103-180, rollback.sh:17-21).
CurrentComplete == current # None => releases[current] = "complete" \/ current \in took

\* The three records of the artifact directory agree, except after a script was
\* cut off before install.env was written (install.sh:56-62, 167-178).
Recorded == {config, env} \cup {u.dir : u \in {unit, oldUnit} \ {None}}
OneArtifactDir == ~torn => \A d, e \in Recorded \cap Dirs : d = e

\* A process that a script failed to end (stray) aside, the running process
\* may write to the directory that config.json names and to no other
\* (verify-runtime-config.py:25-30), whichever unit file a restore left behind.
RunsConfigured == service # None /\ ~stray => config # None /\ service.dir = config

\* No process runs from a release that has been removed, except one that a
\* failed install started where no service ran, or that an uninstallation met
\* without its unit file (install.sh:128-132, uninstall.sh:18, 31).
RunningIsInstalled ==
  service # None /\ ~stray => releases[service.version] \in {"built", "complete"}

\* At rest, unit file, wrappers and current are of one release.  Only rollback.sh,
\* the restore of update.sh and a cut leave a mixture, and the next install
\* that succeeds ends it (update.sh:85-88, rollback.sh:21-26).
InStep == op = "none" /\ ~drift =>
            /\ menu = current
            /\ IF current = None THEN unit = None
                                 ELSE unit # None /\ unit.version = current

\* An install that gives up leaves unit file, wrappers and current as it found
\* them and no trace of its release (install.sh:103-135).
FailedInstallUndone ==
  [][Installing /\ at = "tRm2" /\ releases' # releases =>
       /\ unit' = oldUnit /\ menu' = oldMenu /\ current' = prev
       /\ releases'[target] = "absent"]_vars

\* When the installer starts the service, all three records are there and name one
\* directory, so ExecStartPre lets it start, unless an earlier script was cut off
\* before install.env (install.sh:56-62, 167-178, verify-runtime-config.py:25-30).
InstallerAgrees ==
  Installing /\ at \in {"restart", "check"} /\ ~torn =>
    env # None /\ config = env /\ unit # None /\ unit.dir = env

\* docs/operations.md:50-52: the installer "will reject an accidental
\* --artifact-dir change rather than create a unit/config mismatch".
NoUnitConfigMismatch ==
  Installing /\ at = "restart" => unit.dir = config
=============================================================================
