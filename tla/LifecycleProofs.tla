--------------------------- MODULE LifecycleProofs ---------------------------
(***************************************************************************)
(* Theorems about the operator scripts for any number of releases,         *)
(* artifact directories and faults.                                        *)
(***************************************************************************)
EXTENDS Lifecycle, TLAPS

USE NoneAssumption, TemplateAssumption, BoundAssumption

-----------------------------------------------------------------------------
(* The inductive invariants.                                               *)

BeforeSwitch == {"mkdir", "build", "deps", "unit", "sed", "config", "env", "switch"}
AfterSwitch  == {"menu", "reload", "restart", "check"}
Restoring    == {"tUnit", "tMenu", "tCurrent", "tReload", "tRm", "tRm2"}
Rechecking   == {"recheck", "uCurrent", "uRestart"}

\* Which steps a script has, and which of its variables it has set.
Scripts ==
  /\ op = "none" => at = "off"
  /\ op = "install" => at \in BeforeSwitch \cup AfterSwitch \cup Restoring
  /\ op = "update" => at \in BeforeSwitch \cup AfterSwitch \cup Restoring \cup Rechecking
  /\ op = "rollback" => at \in {"switch", "restart", "check", "back"}
  /\ op = "uninstall" => at \in {"unit", "reload", "menu", "link"}
  /\ op = "purge" => at \in {"unit", "reload", "menu", "link", "releases", "etc"}
  /\ Installing => target \in Versions /\ dir \in Dirs
  /\ Installing /\ at = "sed" => unit \in Units
  /\ op = "update" => prev \in Versions
  /\ op = "rollback" => target \in Versions /\ prev \in Versions
  /\ ~Installing => oldUnit = None

TypeInv == TypeOK /\ Scripts

\* A release current may name.
Usable(r) == r # None => releases[r] # "absent" /\ (releases[r] = "complete" \/ r \in took)

\* What current and PREVIOUS_RELEASE name, and how far the new release is.
RelInv ==
  /\ Usable(current)
  /\ op \in {"install", "update", "rollback"} => Usable(prev)
  /\ op = "rollback" => releases[target] # "absent"
  /\ op = "rollback" /\ at = "back" => current = prev
  /\ Removing /\ at \in {"releases", "etc"} => current = None
  /\ Installing /\ at \notin Rechecking => prev # target
  /\ Installing =>
       /\ at \in BeforeSwitch => current = prev
       /\ at \in AfterSwitch \cup {"recheck"} => current = target
       /\ at \in {"tUnit", "tMenu", "tCurrent"} => current \in {prev, target}
       /\ at \in {"tReload", "tRm", "tRm2"} => current = prev
       /\ at = "mkdir" => releases[target] = "absent"
       /\ at = "build" => releases[target] = "partial"
       /\ at = "deps" => releases[target] = "built"
       /\ at \in {"unit", "sed", "config", "env", "switch"} \cup AfterSwitch =>
            releases[target] = "complete"

\* Every record that exists names d, or nothing yet.
Agree(d) == /\ config \in {None, d} /\ env \in {None, d}
            /\ unit # None => unit.dir \in {Template, d}
            /\ oldUnit # None => oldUnit.dir \in {Template, d}

\* Before install.env is there, nothing else names a directory, except while the
\* script that writes all three is at work.
DirInv ==
  /\ Installing => env \in {None, dir}
  /\ Installing /\ at \in {"switch", "recheck", "uCurrent", "uRestart"} \cup AfterSwitch => env = dir
  /\ Installing /\ at \in {"config", "env", "switch"} \cup AfterSwitch => unit # None /\ unit.dir = dir
  /\ Installing /\ at \in {"env", "switch"} \cup AfterSwitch => config # None
  /\ op = "purge" /\ at \in {"reload", "menu", "link", "releases", "etc"} => unit = None
  /\ ~torn => /\ env # None => Agree(env)
              /\ Installing => Agree(dir)
              /\ ~Installing /\ env = None => unit = None /\ (at = "etc" \/ config = None)

\* The process and what it was started with.
RunInv ==
  /\ RunsConfigured
  /\ RunningIsInstalled
  /\ Removing => service = None \/ stray
  /\ Installing /\ at \in {"tRm", "tRm2"} /\ service # None /\ ~stray => service.version # target

\* Unit file, wrappers and current are of one release.
Aligned(u, m, c) == m = c /\ IF c = None THEN u = None ELSE u # None /\ u.version = c

AlignInv ==
  /\ ~drift => /\ op = "none" => Aligned(unit, menu, current)
               /\ op = "rollback" => Aligned(unit, menu, prev)
               /\ Installing /\ at \notin Rechecking => Aligned(oldUnit, oldMenu, prev)
  /\ Installing =>
       /\ at \in {"sed", "config", "env", "switch", "recheck"} \cup AfterSwitch =>
            unit # None /\ unit.version = target
       /\ at \in {"reload", "restart", "check", "recheck"} => menu = target
       /\ at \in Restoring \ {"tUnit"} => unit = oldUnit
       /\ at \in Restoring \ {"tUnit", "tMenu"} => menu = oldMenu
  /\ Removing => /\ at # "unit" => unit = None
                 /\ at \in {"link", "releases", "etc"} => menu = None

IInv == TypeInv /\ RelInv /\ DirInv /\ RunInv /\ AlignInv

-----------------------------------------------------------------------------
(* Types.                                                                  *)

\* A process that systemd starts runs current, with the directory of config.json.
Fresh(s) == s # None => /\ current # None /\ releases[current] \in {"built", "complete"}
                        /\ config # None /\ s = [version |-> current, dir |-> config]

LEMMA LaunchStarts ==
  ASSUME TypeOK, Launch
  PROVE  loaded' \in Maybe(Units) /\ service' \in Maybe(Service) /\ Fresh(service')
  BY DEF TypeOK, Launch, CanStart, Known, Fresh, Maybe, Units, Service

LEMMA RestoreStarts ==
  ASSUME TypeOK, RestoreService
  PROVE  /\ service' \in Maybe(Service)
         /\ Fresh(service') \/ stray'
<1>1. CASE wasActive /\ prev # None /\ unit # None
  BY <1>1 DEF TypeOK, RestoreService, CanStart, Fresh, Maybe, Units, Service
<1>2. CASE ~(wasActive /\ prev # None /\ unit # None)
  <2>1. stray' = (service # None) /\ service' = service
    BY <1>2 DEF RestoreService
  <2>2. service' \in Maybe(Service)
    BY <2>1 DEF TypeOK
  <2>3. Fresh(service') \/ stray'
    BY <2>1, Zenon DEF Fresh
  <2> QED
    BY <2>2, <2>3
<1> QED
  BY <1>1, <1>2

LEMMA LaunchFlags == Launch => wanted' \in BOOLEAN /\ stray' \in BOOLEAN
  BY DEF Launch, Removing

\* A restart that may be refused.
LEMMA TryFlags ==
  ASSUME Flags, TryRestart
  PROVE  wanted' \in BOOLEAN /\ stray' \in BOOLEAN
<1>1. CASE Launch
  BY <1>1, LaunchFlags
<1>2. CASE UNCHANGED <<systemd, stray>>
  BY <1>2 DEF systemd, Flags
<1> QED
  BY <1>1, <1>2 DEF TryRestart

LEMMA TryStarts ==
  ASSUME TypeOK, TryRestart
  PROVE  loaded' \in Maybe(Units) /\ service' \in Maybe(Service)
<1>1. CASE Launch
  BY <1>1, LaunchStarts
<1>2. CASE UNCHANGED <<systemd, stray>>
  BY <1>2 DEF systemd, TypeOK, Maybe
<1> QED
  BY <1>1, <1>2 DEF TryRestart

LEMMA FaultTypes == faults \in 0 .. MaxFaults /\ Fault => faults' \in 0 .. MaxFaults
  BY DEF Fault

\* systemd and the operator leave files and script alone.
LEMMA ServiceOnly ==
  Systemd \/ Operator => UNCHANGED <<tree, dirs, script, history, faults>>
  BY DEF Systemd, ServiceDies, ServiceRetried, Forgets, Operator, OperatorStarts, OperatorStops, Bind

LEMMA ServiceTypes ==
  ASSUME TypeOK, Systemd \/ Operator
  PROVE  loaded' \in Maybe(Units) /\ service' \in Maybe(Service)
<1>1. CASE ServiceDies \/ Forgets \/ OperatorStops
  BY <1>1 DEF ServiceDies, Forgets, OperatorStops, TypeOK, Maybe
<1>2. CASE ServiceRetried \/ OperatorStarts \/ Bind
  BY <1>2, LaunchStarts DEF ServiceRetried, OperatorStarts, Bind
<1> QED
  BY <1>1, <1>2 DEF Systemd, Operator


\* The flags stay Boolean.
LEMMA FlagStep == Flags /\ [Next]_vars => Flags'
<1> SUFFICES ASSUME Flags, [Next]_vars PROVE Flags'
  OBVIOUS
<1> USE DEF Flags, Removing, vars, tree, dirs, systemd, locals, script, history
<1>1. CASE ServiceDies
  BY <1>1, LaunchFlags DEF ServiceDies
<1>2. CASE ServiceRetried
  BY <1>2, LaunchFlags DEF ServiceRetried
<1>3. CASE Forgets
  BY <1>3, LaunchFlags DEF Forgets
<1>4. CASE OperatorStarts
  BY <1>4, LaunchFlags DEF OperatorStarts
<1>5. CASE OperatorStops
  BY <1>5, LaunchFlags DEF OperatorStops
<1>6. CASE Bind
  BY <1>6, LaunchFlags DEF Bind
<1>7. CASE UNCHANGED vars
  BY <1>7
<1>8. ASSUME NEW o \in {"install", "update"}, NEW v \in Versions, NEW d \in Dirs, Begin(o, v, d) PROVE Flags'
  BY <1>8 DEF Begin
<1>9. CASE MakeDir
  BY <1>9 DEF MakeDir, Grow, Goes
<1>10. CASE Build
  BY <1>10 DEF Build, Grow, Goes
<1>11. CASE Validate
  BY <1>11 DEF Validate, Grow, Goes
<1>12. CASE WriteUnit
  BY <1>12 DEF WriteUnit, Goes
<1>13. CASE FillUnit
  BY <1>13 DEF FillUnit, Goes
<1>14. CASE WriteConfig
  BY <1>14 DEF WriteConfig, Goes
<1>15. CASE WriteEnv
  BY <1>15 DEF WriteEnv, Goes
<1>16. CASE Switch
  BY <1>16 DEF Switch, Goes
<1>17. CASE WriteMenu
  BY <1>17 DEF WriteMenu, Goes
<1>18. CASE Reload
  BY <1>18 DEF Reload, Installed, NoLocals
<1>19. CASE Restart
  BY <1>19, LaunchFlags DEF Restart, Goes
<1>20. CASE CheckPasses
  BY <1>20 DEF CheckPasses, Installed, NoLocals
<1>21. CASE CheckFails
  BY <1>21 DEF CheckFails, Goes
<1>22. CASE Fail
  BY <1>22 DEF Fail, Fault
<1>23. CASE RestoreUnit
  BY <1>23 DEF RestoreUnit, Goes
<1>24. CASE RestoreMenu
  BY <1>24 DEF RestoreMenu, Goes
<1>25. CASE RestoreCurrent
  BY <1>25 DEF RestoreCurrent, Goes
<1>26. CASE RestoreService
  BY <1>26 DEF RestoreService, Goes, CanStart
<1>27. CASE Crumble
  BY <1>27 DEF Crumble, Goes
<1>28. CASE GiveUp
  BY <1>28 DEF GiveUp, Rest, Loose, NoLocals
<1>29. CASE Recheck
  BY <1>29 DEF Recheck, Rest, NoLocals
<1>30. CASE UpdateRestores
  BY <1>30 DEF UpdateRestores
<1>31. CASE UpdateRestarts
  BY <1>31, TryFlags DEF UpdateRestarts, Rest, NoLocals
<1>32. CASE ParentKilled
  BY <1>32 DEF ParentKilled, Fault
<1>33. ASSUME NEW t \in Versions, RollbackTo(t) PROVE Flags'
  BY <1>33 DEF RollbackTo
<1>34. CASE RollbackSwitch
  BY <1>34 DEF RollbackSwitch
<1>35. CASE RollbackRestart
  BY <1>35, LaunchFlags DEF RollbackRestart
<1>36. CASE RollbackPasses
  BY <1>36 DEF RollbackPasses, Rest, NoLocals
<1>37. CASE RollbackFails
  BY <1>37 DEF RollbackFails
<1>38. CASE RollbackRestored
  BY <1>38, TryFlags DEF RollbackRestored, Rest, NoLocals
<1>39. ASSUME NEW o \in {"uninstall", "purge"}, Uninstall(o) PROVE Flags'
  BY <1>39 DEF Uninstall
<1>40. CASE RemoveUnit
  BY <1>40 DEF RemoveUnit, Leads
<1>41. CASE RemoveReload
  BY <1>41 DEF RemoveReload, Leads
<1>42. CASE RemoveMenu
  BY <1>42 DEF RemoveMenu, Leads
<1>43. CASE RemoveLink
  BY <1>43 DEF RemoveLink, Rest, NoLocals
<1>44. CASE PurgeRelease
  BY <1>44 DEF PurgeRelease
<1>45. CASE PurgeConfig
  BY <1>45 DEF PurgeConfig
<1>46. CASE Purged
  BY <1>46 DEF Purged, Rest, NoLocals
<1>47. CASE Killed
  BY <1>47 DEF Killed, Cut, Rest, Loose, NoLocals, Fault
<1>48. CASE Reboot
  BY <1>48 DEF Reboot, Cut, Rest, Loose, NoLocals, Fault
<1> QED
  BY <1>1, <1>2, <1>3, <1>4, <1>5, <1>6, <1>7, <1>8, <1>9, <1>10, <1>11, <1>12, <1>13,
     <1>14, <1>15, <1>16, <1>17, <1>18, <1>19, <1>20, <1>21, <1>22, <1>23, <1>24, <1>25,
     <1>26, <1>27, <1>28, <1>29, <1>30, <1>31, <1>32, <1>33, <1>34, <1>35, <1>36, <1>37,
     <1>38, <1>39, <1>40, <1>41, <1>42, <1>43, <1>44, <1>45, <1>46, <1>47, <1>48
  DEF Next, Systemd, Operator, Install, Undo, Update, Rollback, Remove

\* Types and the order of steps are kept.
LEMMA TypeStep == TypeInv /\ [Next]_vars => TypeInv'
<1> SUFFICES ASSUME TypeInv, [Next]_vars PROVE TypeInv'
  OBVIOUS
<1> USE DEF TypeInv, TypeOK, Scripts, Steps, Maybe, Units, Installing, Removing,
   BeforeSwitch, AfterSwitch, Restoring, Rechecking, vars, tree, dirs, systemd, locals,
   script, history
<1>1. Flags'
  BY FlagStep DEF TypeInv, TypeOK
<1> USE <1>1
<1>2. CASE Systemd \/ Operator
  BY <1>2, ServiceOnly, ServiceTypes, FlagStep
<1>3. CASE UNCHANGED vars
  BY <1>3
<1>4. ASSUME NEW o \in {"install", "update"}, NEW v \in Versions, NEW d \in Dirs, Begin(o, v, d) PROVE TypeInv'
  BY <1>4 DEF Begin
<1>5. CASE MakeDir
  BY <1>5 DEF MakeDir, Grow, Goes
<1>6. CASE Build
  BY <1>6 DEF Build, Grow, Goes
<1>7. CASE Validate
  BY <1>7 DEF Validate, Grow, Goes
<1>8. CASE WriteUnit
  BY <1>8 DEF WriteUnit, Goes
<1>9. CASE FillUnit
  BY <1>9 DEF FillUnit, Goes
<1>10. CASE WriteConfig
  BY <1>10 DEF WriteConfig, Goes
<1>11. CASE WriteEnv
  BY <1>11 DEF WriteEnv, Goes
<1>12. CASE Switch
  BY <1>12 DEF Switch, Goes
<1>13. CASE WriteMenu
  BY <1>13 DEF WriteMenu, Goes
<1>14. CASE Reload
  BY <1>14 DEF Reload, Installed, NoLocals
<1>15. CASE Restart
  BY <1>15, LaunchStarts DEF Restart, Goes
<1>16. CASE CheckPasses
  BY <1>16 DEF CheckPasses, Installed, NoLocals
<1>17. CASE CheckFails
  BY <1>17 DEF CheckFails, Goes
<1>18. CASE Fail
  BY <1>18, FaultTypes DEF Fail
<1>19. CASE RestoreUnit
  BY <1>19 DEF RestoreUnit, Goes
<1>20. CASE RestoreMenu
  BY <1>20 DEF RestoreMenu, Goes
<1>21. CASE RestoreCurrent
  BY <1>21 DEF RestoreCurrent, Goes
<1>22. CASE RestoreService
  <2>1. /\ loaded' = unit /\ Goes("tReload", "tRm")
       /\ UNCHANGED <<tree, dirs, enabled, history, faults>>
    BY <1>22 DEF RestoreService
  <2> QED
    BY <2>1, <1>22, RestoreStarts DEF Goes
<1>23. CASE Crumble
  BY <1>23 DEF Crumble, Goes
<1>24. CASE GiveUp
  BY <1>24 DEF GiveUp, Rest, Loose, NoLocals
<1>25. CASE Recheck
  BY <1>25 DEF Recheck, Rest, NoLocals
<1>26. CASE UpdateRestores
  BY <1>26 DEF UpdateRestores
<1>27. CASE UpdateRestarts
  BY <1>27, TryStarts DEF UpdateRestarts, Rest, NoLocals
<1>28. CASE ParentKilled
  BY <1>28, FaultTypes DEF ParentKilled
<1>29. ASSUME NEW t \in Versions, RollbackTo(t) PROVE TypeInv'
  BY <1>29 DEF RollbackTo
<1>30. CASE RollbackSwitch
  BY <1>30 DEF RollbackSwitch
<1>31. CASE RollbackRestart
  BY <1>31, LaunchStarts DEF RollbackRestart
<1>32. CASE RollbackPasses
  BY <1>32 DEF RollbackPasses, Rest, NoLocals
<1>33. CASE RollbackFails
  BY <1>33 DEF RollbackFails
<1>34. CASE RollbackRestored
  BY <1>34, TryStarts DEF RollbackRestored, Rest, NoLocals
<1>35. ASSUME NEW o \in {"uninstall", "purge"}, Uninstall(o) PROVE TypeInv'
  BY <1>35 DEF Uninstall
<1>36. CASE RemoveUnit
  BY <1>36 DEF RemoveUnit, Leads
<1>37. CASE RemoveReload
  BY <1>37 DEF RemoveReload, Leads
<1>38. CASE RemoveMenu
  BY <1>38 DEF RemoveMenu, Leads
<1>39. CASE RemoveLink
  BY <1>39 DEF RemoveLink, Rest, NoLocals
<1>40. CASE PurgeRelease
  BY <1>40 DEF PurgeRelease
<1>41. CASE PurgeConfig
  BY <1>41 DEF PurgeConfig
<1>42. CASE Purged
  BY <1>42 DEF Purged, Rest, NoLocals
<1>43. CASE Killed
  BY <1>43, FaultTypes DEF Killed, Cut, Rest, Loose, NoLocals
<1>44. CASE Reboot
  BY <1>44, FaultTypes DEF Reboot, Cut, Rest, Loose, NoLocals
<1> QED
  BY <1>1, <1>2, <1>3, <1>4, <1>5, <1>6, <1>7, <1>8, <1>9, <1>10, <1>11, <1>12, <1>13,
     <1>14, <1>15, <1>16, <1>17, <1>18, <1>19, <1>20, <1>21, <1>22, <1>23, <1>24, <1>25,
     <1>26, <1>27, <1>28, <1>29, <1>30, <1>31, <1>32, <1>33, <1>34, <1>35, <1>36, <1>37,
     <1>38, <1>39, <1>40, <1>41, <1>42, <1>43, <1>44
  DEF Next, Systemd, Operator, Install, Undo, Update, Rollback, Remove

-----------------------------------------------------------------------------
(* What current names.                                                     *)

\* Releases, current and PREVIOUS_RELEASE.
LEMMA RelStep == TypeInv /\ RelInv /\ [Next]_vars => RelInv'
<1> SUFFICES ASSUME TypeInv /\ RelInv, [Next]_vars PROVE RelInv'
  OBVIOUS
<1> USE DEF TypeInv, TypeOK, Scripts, RelInv, Usable, Maybe, Installing, Removing,
   BeforeSwitch, AfterSwitch, Restoring, Rechecking, vars, tree, dirs, systemd, locals,
   script, history
<1>1. CASE Systemd \/ Operator
  BY <1>1, ServiceOnly
<1>2. CASE UNCHANGED vars
  BY <1>2
<1>3. ASSUME NEW o \in {"install", "update"}, NEW v \in Versions, NEW d \in Dirs, Begin(o, v, d) PROVE RelInv'
  BY <1>3 DEF Begin
<1>4. CASE MakeDir
  BY <1>4 DEF MakeDir, Grow, Goes
<1>5. CASE Build
  BY <1>5 DEF Build, Grow, Goes
<1>6. CASE Validate
  BY <1>6 DEF Validate, Grow, Goes
<1>7. CASE WriteUnit
  BY <1>7 DEF WriteUnit, Goes
<1>8. CASE FillUnit
  BY <1>8 DEF FillUnit, Goes
<1>9. CASE WriteConfig
  BY <1>9 DEF WriteConfig, Goes
<1>10. CASE WriteEnv
  BY <1>10 DEF WriteEnv, Goes
<1>11. CASE Switch
  BY <1>11 DEF Switch, Goes
<1>12. CASE WriteMenu
  BY <1>12 DEF WriteMenu, Goes
<1>13. CASE Reload
  BY <1>13 DEF Reload, Installed, NoLocals
<1>14. CASE Restart
  BY <1>14 DEF Restart, Goes
<1>15. CASE CheckPasses
  BY <1>15 DEF CheckPasses, Installed, NoLocals
<1>16. CASE CheckFails
  BY <1>16 DEF CheckFails, Goes
<1>17. CASE Fail
  BY <1>17 DEF Fail, Fault
<1>18. CASE RestoreUnit
  BY <1>18 DEF RestoreUnit, Goes
<1>19. CASE RestoreMenu
  BY <1>19 DEF RestoreMenu, Goes
<1>20. CASE RestoreCurrent
  BY <1>20 DEF RestoreCurrent, Goes
<1>21. CASE RestoreService
  BY <1>21 DEF RestoreService, Goes, CanStart
<1>22. CASE Crumble
  BY <1>22 DEF Crumble, Goes
<1>23. CASE GiveUp
  BY <1>23 DEF GiveUp, Rest, Loose, NoLocals
<1>24. CASE Recheck
  BY <1>24 DEF Recheck, Rest, NoLocals
<1>25. CASE UpdateRestores
  BY <1>25 DEF UpdateRestores
<1>26. CASE UpdateRestarts
  BY <1>26 DEF UpdateRestarts, Rest, NoLocals
<1>27. CASE ParentKilled
  BY <1>27 DEF ParentKilled, Fault
<1>28. ASSUME NEW t \in Versions, RollbackTo(t) PROVE RelInv'
  BY <1>28 DEF RollbackTo
<1>29. CASE RollbackSwitch
  BY <1>29 DEF RollbackSwitch
<1>30. CASE RollbackRestart
  BY <1>30 DEF RollbackRestart
<1>31. CASE RollbackPasses
  BY <1>31 DEF RollbackPasses, Rest, NoLocals
<1>32. CASE RollbackFails
  BY <1>32 DEF RollbackFails
<1>33. CASE RollbackRestored
  BY <1>33 DEF RollbackRestored, Rest, NoLocals
<1>34. ASSUME NEW o \in {"uninstall", "purge"}, Uninstall(o) PROVE RelInv'
  BY <1>34 DEF Uninstall
<1>35. CASE RemoveUnit
  BY <1>35 DEF RemoveUnit, Leads
<1>36. CASE RemoveReload
  BY <1>36 DEF RemoveReload, Leads
<1>37. CASE RemoveMenu
  BY <1>37 DEF RemoveMenu, Leads
<1>38. CASE RemoveLink
  BY <1>38 DEF RemoveLink, Rest, NoLocals
<1>39. CASE PurgeRelease
  BY <1>39 DEF PurgeRelease
<1>40. CASE PurgeConfig
  BY <1>40 DEF PurgeConfig
<1>41. CASE Purged
  BY <1>41 DEF Purged, Rest, NoLocals
<1>42. CASE Killed
  BY <1>42 DEF Killed, Cut, Rest, Loose, NoLocals, Fault
<1>43. CASE Reboot
  BY <1>43 DEF Reboot, Cut, Rest, Loose, NoLocals, Fault
<1> QED
  BY <1>1, <1>2, <1>3, <1>4, <1>5, <1>6, <1>7, <1>8, <1>9, <1>10, <1>11, <1>12, <1>13,
     <1>14, <1>15, <1>16, <1>17, <1>18, <1>19, <1>20, <1>21, <1>22, <1>23, <1>24, <1>25,
     <1>26, <1>27, <1>28, <1>29, <1>30, <1>31, <1>32, <1>33, <1>34, <1>35, <1>36, <1>37,
     <1>38, <1>39, <1>40, <1>41, <1>42, <1>43
  DEF Next, Systemd, Operator, Install, Undo, Update, Rollback, Remove

-----------------------------------------------------------------------------
(* The artifact directory.                                                 *)

\* The records of the artifact directory.
LEMMA DirStep == TypeInv /\ DirInv /\ [Next]_vars => DirInv'
<1> SUFFICES ASSUME TypeInv /\ DirInv, [Next]_vars PROVE DirInv'
  OBVIOUS
<1> USE DEF TypeInv, TypeOK, Scripts, DirInv, Agree, Maybe, Units, Installing, Removing,
   BeforeSwitch, AfterSwitch, Restoring, Rechecking, vars, tree, dirs, systemd, locals,
   script, history
<1>1. CASE Systemd \/ Operator
  BY <1>1, ServiceOnly
<1>2. CASE UNCHANGED vars
  BY <1>2
<1>3. ASSUME NEW o \in {"install", "update"}, NEW v \in Versions, NEW d \in Dirs, Begin(o, v, d) PROVE DirInv'
  BY <1>3 DEF Begin
<1>4. CASE MakeDir
  BY <1>4 DEF MakeDir, Grow, Goes
<1>5. CASE Build
  BY <1>5 DEF Build, Grow, Goes
<1>6. CASE Validate
  BY <1>6 DEF Validate, Grow, Goes
<1>7. CASE WriteUnit
  BY <1>7 DEF WriteUnit, Goes
<1>8. CASE FillUnit
  BY <1>8 DEF FillUnit, Goes
<1>9. CASE WriteConfig
  BY <1>9 DEF WriteConfig, Goes
<1>10. CASE WriteEnv
  BY <1>10 DEF WriteEnv, Goes
<1>11. CASE Switch
  BY <1>11 DEF Switch, Goes
<1>12. CASE WriteMenu
  BY <1>12 DEF WriteMenu, Goes
<1>13. CASE Reload
  BY <1>13 DEF Reload, Installed, NoLocals
<1>14. CASE Restart
  BY <1>14 DEF Restart, Goes
<1>15. CASE CheckPasses
  BY <1>15 DEF CheckPasses, Installed, NoLocals
<1>16. CASE CheckFails
  BY <1>16 DEF CheckFails, Goes
<1>17. CASE Fail
  BY <1>17 DEF Fail, Fault
<1>18. CASE RestoreUnit
  BY <1>18 DEF RestoreUnit, Goes
<1>19. CASE RestoreMenu
  BY <1>19 DEF RestoreMenu, Goes
<1>20. CASE RestoreCurrent
  BY <1>20 DEF RestoreCurrent, Goes
<1>21. CASE RestoreService
  BY <1>21 DEF RestoreService, Goes, CanStart
<1>22. CASE Crumble
  BY <1>22 DEF Crumble, Goes
<1>23. CASE GiveUp
  BY <1>23 DEF GiveUp, Rest, Loose, NoLocals
<1>24. CASE Recheck
  BY <1>24 DEF Recheck, Rest, NoLocals
<1>25. CASE UpdateRestores
  BY <1>25 DEF UpdateRestores
<1>26. CASE UpdateRestarts
  BY <1>26 DEF UpdateRestarts, Rest, NoLocals
<1>27. CASE ParentKilled
  BY <1>27 DEF ParentKilled, Fault
<1>28. ASSUME NEW t \in Versions, RollbackTo(t) PROVE DirInv'
  BY <1>28 DEF RollbackTo
<1>29. CASE RollbackSwitch
  BY <1>29 DEF RollbackSwitch
<1>30. CASE RollbackRestart
  BY <1>30 DEF RollbackRestart
<1>31. CASE RollbackPasses
  BY <1>31 DEF RollbackPasses, Rest, NoLocals
<1>32. CASE RollbackFails
  BY <1>32 DEF RollbackFails
<1>33. CASE RollbackRestored
  BY <1>33 DEF RollbackRestored, Rest, NoLocals
<1>34. ASSUME NEW o \in {"uninstall", "purge"}, Uninstall(o) PROVE DirInv'
  BY <1>34 DEF Uninstall
<1>35. CASE RemoveUnit
  BY <1>35 DEF RemoveUnit, Leads
<1>36. CASE RemoveReload
  BY <1>36 DEF RemoveReload, Leads
<1>37. CASE RemoveMenu
  BY <1>37 DEF RemoveMenu, Leads
<1>38. CASE RemoveLink
  BY <1>38 DEF RemoveLink, Rest, NoLocals
<1>39. CASE PurgeRelease
  BY <1>39 DEF PurgeRelease
<1>40. CASE PurgeConfig
  BY <1>40 DEF PurgeConfig
<1>41. CASE Purged
  BY <1>41 DEF Purged, Rest, NoLocals
<1>42. CASE Killed
  BY <1>42 DEF Killed, Cut, Rest, Loose, NoLocals, Fault
<1>43. CASE Reboot
  BY <1>43 DEF Reboot, Cut, Rest, Loose, NoLocals, Fault
<1> QED
  BY <1>1, <1>2, <1>3, <1>4, <1>5, <1>6, <1>7, <1>8, <1>9, <1>10, <1>11, <1>12, <1>13,
     <1>14, <1>15, <1>16, <1>17, <1>18, <1>19, <1>20, <1>21, <1>22, <1>23, <1>24, <1>25,
     <1>26, <1>27, <1>28, <1>29, <1>30, <1>31, <1>32, <1>33, <1>34, <1>35, <1>36, <1>37,
     <1>38, <1>39, <1>40, <1>41, <1>42, <1>43
  DEF Next, Systemd, Operator, Install, Undo, Update, Rollback, Remove

-----------------------------------------------------------------------------
(* Unit file, wrappers and current.                                        *)

\* Unit file, wrappers and current stay of one release.
LEMMA AlignStep == TypeInv /\ RelInv /\ AlignInv /\ [Next]_vars => AlignInv'
<1> SUFFICES ASSUME TypeInv /\ RelInv /\ AlignInv, [Next]_vars PROVE AlignInv'
  OBVIOUS
<1> USE DEF TypeInv, TypeOK, Scripts, RelInv, AlignInv, Aligned, Maybe, Units, Installing,
   Removing, BeforeSwitch, AfterSwitch, Restoring, Rechecking, vars, tree, dirs, systemd,
   locals, script, history
<1>1. CASE Systemd \/ Operator
  BY <1>1, ServiceOnly
<1>2. CASE UNCHANGED vars
  BY <1>2
<1>3. ASSUME NEW o \in {"install", "update"}, NEW v \in Versions, NEW d \in Dirs, Begin(o, v, d) PROVE AlignInv'
  BY <1>3 DEF Begin
<1>4. CASE MakeDir
  BY <1>4 DEF MakeDir, Grow, Goes
<1>5. CASE Build
  BY <1>5 DEF Build, Grow, Goes
<1>6. CASE Validate
  BY <1>6 DEF Validate, Grow, Goes
<1>7. CASE WriteUnit
  BY <1>7 DEF WriteUnit, Goes
<1>8. CASE FillUnit
  BY <1>8 DEF FillUnit, Goes
<1>9. CASE WriteConfig
  BY <1>9 DEF WriteConfig, Goes
<1>10. CASE WriteEnv
  BY <1>10 DEF WriteEnv, Goes
<1>11. CASE Switch
  BY <1>11 DEF Switch, Goes
<1>12. CASE WriteMenu
  BY <1>12 DEF WriteMenu, Goes
<1>13. CASE Reload
  BY <1>13 DEF Reload, Installed, NoLocals
<1>14. CASE Restart
  BY <1>14 DEF Restart, Goes
<1>15. CASE CheckPasses
  BY <1>15 DEF CheckPasses, Installed, NoLocals
<1>16. CASE CheckFails
  BY <1>16 DEF CheckFails, Goes
<1>17. CASE Fail
  BY <1>17 DEF Fail, Fault
<1>18. CASE RestoreUnit
  BY <1>18 DEF RestoreUnit, Goes
<1>19. CASE RestoreMenu
  BY <1>19 DEF RestoreMenu, Goes
<1>20. CASE RestoreCurrent
  BY <1>20 DEF RestoreCurrent, Goes
<1>21. CASE RestoreService
  BY <1>21 DEF RestoreService, Goes, CanStart
<1>22. CASE Crumble
  BY <1>22 DEF Crumble, Goes
<1>23. CASE GiveUp
  BY <1>23 DEF GiveUp, Rest, Loose, NoLocals
<1>24. CASE Recheck
  BY <1>24 DEF Recheck, Rest, NoLocals
<1>25. CASE UpdateRestores
  BY <1>25 DEF UpdateRestores
<1>26. CASE UpdateRestarts
  BY <1>26 DEF UpdateRestarts, Rest, NoLocals
<1>27. CASE ParentKilled
  BY <1>27 DEF ParentKilled, Fault
<1>28. ASSUME NEW t \in Versions, RollbackTo(t) PROVE AlignInv'
  BY <1>28 DEF RollbackTo
<1>29. CASE RollbackSwitch
  BY <1>29 DEF RollbackSwitch
<1>30. CASE RollbackRestart
  BY <1>30 DEF RollbackRestart
<1>31. CASE RollbackPasses
  BY <1>31 DEF RollbackPasses, Rest, NoLocals
<1>32. CASE RollbackFails
  BY <1>32 DEF RollbackFails
<1>33. CASE RollbackRestored
  BY <1>33 DEF RollbackRestored, Rest, NoLocals
<1>34. ASSUME NEW o \in {"uninstall", "purge"}, Uninstall(o) PROVE AlignInv'
  BY <1>34 DEF Uninstall
<1>35. CASE RemoveUnit
  BY <1>35 DEF RemoveUnit, Leads
<1>36. CASE RemoveReload
  BY <1>36 DEF RemoveReload, Leads
<1>37. CASE RemoveMenu
  BY <1>37 DEF RemoveMenu, Leads
<1>38. CASE RemoveLink
  BY <1>38 DEF RemoveLink, Rest, NoLocals
<1>39. CASE PurgeRelease
  BY <1>39 DEF PurgeRelease
<1>40. CASE PurgeConfig
  BY <1>40 DEF PurgeConfig
<1>41. CASE Purged
  BY <1>41 DEF Purged, Rest, NoLocals
<1>42. CASE Killed
  BY <1>42 DEF Killed, Cut, Rest, Loose, NoLocals, Fault
<1>43. CASE Reboot
  BY <1>43 DEF Reboot, Cut, Rest, Loose, NoLocals, Fault
<1> QED
  BY <1>1, <1>2, <1>3, <1>4, <1>5, <1>6, <1>7, <1>8, <1>9, <1>10, <1>11, <1>12, <1>13,
     <1>14, <1>15, <1>16, <1>17, <1>18, <1>19, <1>20, <1>21, <1>22, <1>23, <1>24, <1>25,
     <1>26, <1>27, <1>28, <1>29, <1>30, <1>31, <1>32, <1>33, <1>34, <1>35, <1>36, <1>37,
     <1>38, <1>39, <1>40, <1>41, <1>42, <1>43
  DEF Next, Systemd, Operator, Install, Undo, Update, Rollback, Remove

-----------------------------------------------------------------------------
(* The process.                                                            *)

\* A process that was just started meets RunInv wherever that asks for it.
LEMMA FreshRuns ==
  ASSUME Fresh(service')
  PROVE  service' # None => /\ config # None /\ service'.dir = config
                            /\ releases[service'.version] \in {"built", "complete"}
                            /\ service'.version = current
  BY DEF Fresh

LEMMA LaunchRuns ==
  ASSUME TypeOK, Launch
  PROVE  /\ Removing => stray'
         /\ service' # None => /\ config # None /\ service'.dir = config
                               /\ releases[service'.version] \in {"built", "complete"}
                               /\ service'.version = current
<1>1. Removing => stray'
  BY DEF Launch
<1> QED
  BY <1>1, LaunchStarts, FreshRuns

\* A restart that is refused leaves what RunInv says of the process.
LEMMA TryRuns ==
  ASSUME TypeOK, TryRestart, RunsConfigured, RunningIsInstalled
  PROVE  service' # None /\ ~stray' => /\ config # None /\ service'.dir = config
                                       /\ releases[service'.version] \in {"built", "complete"}
<1>1. CASE Launch
  BY <1>1, LaunchRuns
<1>2. CASE UNCHANGED <<systemd, stray>>
  BY <1>2 DEF systemd, RunsConfigured, RunningIsInstalled
<1> QED
  BY <1>1, <1>2 DEF TryRestart

\* The running process.
LEMMA RunStep == TypeInv /\ RelInv /\ RunInv /\ [Next]_vars => RunInv'
<1> SUFFICES ASSUME TypeInv /\ RelInv /\ RunInv, [Next]_vars PROVE RunInv'
  OBVIOUS
<1> USE DEF TypeInv, TypeOK, Scripts, RelInv, RunInv, RunsConfigured, RunningIsInstalled,
   Maybe, Service, Installing, Removing, BeforeSwitch, AfterSwitch, Restoring, Rechecking,
   vars, tree, dirs, systemd, locals, script, history
<1>1. CASE ServiceDies
  BY <1>1, LaunchRuns DEF ServiceDies
<1>2. CASE ServiceRetried
  BY <1>2, LaunchRuns DEF ServiceRetried
<1>3. CASE Forgets
  BY <1>3, LaunchRuns DEF Forgets
<1>4. CASE OperatorStarts
  BY <1>4, LaunchRuns DEF OperatorStarts
<1>5. CASE OperatorStops
  BY <1>5, LaunchRuns DEF OperatorStops
<1>6. CASE Bind
  BY <1>6, LaunchRuns DEF Bind
<1>7. CASE UNCHANGED vars
  BY <1>7
<1>8. ASSUME NEW o \in {"install", "update"}, NEW v \in Versions, NEW d \in Dirs, Begin(o, v, d) PROVE RunInv'
  BY <1>8 DEF Begin
<1>9. CASE MakeDir
  BY <1>9 DEF MakeDir, Grow, Goes
<1>10. CASE Build
  BY <1>10 DEF Build, Grow, Goes
<1>11. CASE Validate
  BY <1>11 DEF Validate, Grow, Goes
<1>12. CASE WriteUnit
  BY <1>12 DEF WriteUnit, Goes
<1>13. CASE FillUnit
  BY <1>13 DEF FillUnit, Goes
<1>14. CASE WriteConfig
  BY <1>14 DEF WriteConfig, Goes
<1>15. CASE WriteEnv
  BY <1>15 DEF WriteEnv, Goes
<1>16. CASE Switch
  BY <1>16 DEF Switch, Goes
<1>17. CASE WriteMenu
  BY <1>17 DEF WriteMenu, Goes
<1>18. CASE Reload
  BY <1>18 DEF Reload, Installed, NoLocals
<1>19. CASE Restart
  BY <1>19, LaunchRuns DEF Restart, Goes
<1>20. CASE CheckPasses
  BY <1>20 DEF CheckPasses, Installed, NoLocals
<1>21. CASE CheckFails
  BY <1>21 DEF CheckFails, Goes
<1>22. CASE Fail
  BY <1>22 DEF Fail, Fault
<1>23. CASE RestoreUnit
  BY <1>23 DEF RestoreUnit, Goes
<1>24. CASE RestoreMenu
  BY <1>24 DEF RestoreMenu, Goes
<1>25. CASE RestoreCurrent
  BY <1>25 DEF RestoreCurrent, Goes
<1>26. CASE RestoreService
  BY <1>26, RestoreStarts, FreshRuns DEF RestoreService, Goes
<1>27. CASE Crumble
  BY <1>27 DEF Crumble, Goes
<1>28. CASE GiveUp
  BY <1>28 DEF GiveUp, Rest, Loose, NoLocals
<1>29. CASE Recheck
  BY <1>29 DEF Recheck, Rest, NoLocals
<1>30. CASE UpdateRestores
  BY <1>30 DEF UpdateRestores
<1>31. CASE UpdateRestarts
  BY <1>31, TryRuns DEF UpdateRestarts, Rest, NoLocals
<1>32. CASE ParentKilled
  BY <1>32 DEF ParentKilled, Fault
<1>33. ASSUME NEW t \in Versions, RollbackTo(t) PROVE RunInv'
  BY <1>33 DEF RollbackTo
<1>34. CASE RollbackSwitch
  BY <1>34 DEF RollbackSwitch
<1>35. CASE RollbackRestart
  BY <1>35, LaunchRuns DEF RollbackRestart
<1>36. CASE RollbackPasses
  BY <1>36 DEF RollbackPasses, Rest, NoLocals
<1>37. CASE RollbackFails
  BY <1>37 DEF RollbackFails
<1>38. CASE RollbackRestored
  BY <1>38, TryRuns DEF RollbackRestored, Rest, NoLocals
<1>39. ASSUME NEW o \in {"uninstall", "purge"}, Uninstall(o) PROVE RunInv'
  BY <1>39 DEF Uninstall
<1>40. CASE RemoveUnit
  BY <1>40 DEF RemoveUnit, Leads
<1>41. CASE RemoveReload
  BY <1>41 DEF RemoveReload, Leads
<1>42. CASE RemoveMenu
  BY <1>42 DEF RemoveMenu, Leads
<1>43. CASE RemoveLink
  BY <1>43 DEF RemoveLink, Rest, NoLocals
<1>44. CASE PurgeRelease
  BY <1>44 DEF PurgeRelease
<1>45. CASE PurgeConfig
  BY <1>45 DEF PurgeConfig
<1>46. CASE Purged
  BY <1>46 DEF Purged, Rest, NoLocals
<1>47. CASE Killed
  BY <1>47 DEF Killed, Cut, Rest, Loose, NoLocals, Fault
<1>48. CASE Reboot
  BY <1>48 DEF Reboot, Cut, Rest, Loose, NoLocals, Fault
<1> QED
  BY <1>1, <1>2, <1>3, <1>4, <1>5, <1>6, <1>7, <1>8, <1>9, <1>10, <1>11, <1>12, <1>13,
     <1>14, <1>15, <1>16, <1>17, <1>18, <1>19, <1>20, <1>21, <1>22, <1>23, <1>24, <1>25,
     <1>26, <1>27, <1>28, <1>29, <1>30, <1>31, <1>32, <1>33, <1>34, <1>35, <1>36, <1>37,
     <1>38, <1>39, <1>40, <1>41, <1>42, <1>43, <1>44, <1>45, <1>46, <1>47, <1>48
  DEF Next, Systemd, Operator, Install, Undo, Update, Rollback, Remove

-----------------------------------------------------------------------------
(* The theorems.                                                           *)

LEMMA InitInv == Init => IInv
<1> SUFFICES ASSUME Init PROVE IInv
  OBVIOUS
<1>1. faults \in 0 .. MaxFaults
  BY DEF Init
<1>2. Flags
  BY DEF Init, Flags
<1>3. TypeOK
  BY <1>1, <1>2 DEF Init, TypeOK, Steps, Maybe
<1>4. Scripts /\ RelInv
  BY DEF Init, Scripts, RelInv, Usable, Installing, Removing
<1>5. DirInv /\ AlignInv
  BY DEF Init, DirInv, AlignInv, Aligned, Installing, Removing
<1>6. RunInv
  BY DEF Init, RunInv, RunsConfigured, RunningIsInstalled, Removing, Installing
<1> QED
  BY <1>3, <1>4, <1>5, <1>6 DEF IInv, TypeInv

LEMMA IInvStep == IInv /\ [Next]_vars => IInv'
  BY TypeStep, RelStep, DirStep, AlignStep, RunStep DEF IInv

LEMMA IInvHolds == Spec => []IInv
  BY InitInv, IInvStep, PTL DEF Spec

\* Types: every variable always has a value its code can give it.
THEOREM LifecycleTypes == Spec => []TypeOK
<1>1. IInv => TypeOK
  BY DEF IInv, TypeInv
<1> QED
  BY <1>1, IInvHolds, PTL

\* Whatever fails or is killed, current names a complete release, or one that
\* rollback.sh was told to take.
THEOREM CurrentIsComplete == Spec => []CurrentComplete
<1>1. IInv => CurrentComplete
  BY DEF IInv, RelInv, Usable, CurrentComplete
<1> QED
  BY <1>1, IInvHolds, PTL

\* Unit, config.json and install.env name one directory unless a script was cut
\* off before it had written install.env.
THEOREM OneDirectory == Spec => []OneArtifactDir
<1>1. IInv => OneArtifactDir
  <2> SUFFICES ASSUME IInv, ~torn, NEW d \in Recorded \cap Dirs, NEW e \in Recorded \cap Dirs
               PROVE  d = e
    BY DEF OneArtifactDir
  <2> USE DEF IInv, DirInv, Agree, TypeInv, Scripts, Recorded
  <2>1. CASE env # None
    BY <2>1
  <2>2. CASE Installing
    BY <2>2
  <2>3. CASE ~Installing /\ env = None
    <3>1. unit = None /\ oldUnit = None
      BY <2>3
    <3>2. Recorded \cap Dirs \subseteq {config}
      BY <2>3, <3>1
    <3> QED
      BY <3>2
  <2> QED
    BY <2>1, <2>2, <2>3
<1> QED
  BY <1>1, IInvHolds, PTL

\* The installer starts the service with all three records in place and in
\* agreement: docs/operations.md:50-52 holds but for what a cut script left.
THEOREM InstallersAgree == Spec => []InstallerAgrees
<1>1. IInv => InstallerAgrees
  BY DEF IInv, TypeInv, Scripts, DirInv, Agree, AfterSwitch, InstallerAgrees
<1> QED
  BY <1>1, IInvHolds, PTL

\* The running process writes where config.json says, unless a script failed to
\* end it (verify-runtime-config.py:25-30).
THEOREM ProcessIsConfigured == Spec => []RunsConfigured
<1>1. IInv => RunsConfigured
  BY DEF IInv, RunInv
<1> QED
  BY <1>1, IInvHolds, PTL

\* The release a process runs from is not removed under it, unless a script failed
\* to end it (install.sh:128-132, uninstall.sh:18, 31).
THEOREM ProcessIsInstalled == Spec => []RunningIsInstalled
<1>1. IInv => RunningIsInstalled
  BY DEF IInv, RunInv
<1> QED
  BY <1>1, IInvHolds, PTL

\* Unit file, wrappers and current are of one release at rest, rollbacks,
\* restored updates and cut scripts aside.
THEOREM ReleasesInStep == Spec => []InStep
<1>1. IInv => InStep
  BY DEF IInv, AlignInv, Aligned, InStep
<1> QED
  BY <1>1, IInvHolds, PTL

\* The trap of install.sh undoes what the installer did.
THEOREM InstallUndone == Spec => FailedInstallUndone
<1>1. IInv /\ [Next]_vars =>
        [Installing /\ at = "tRm2" /\ releases' # releases =>
           /\ unit' = oldUnit /\ menu' = oldMenu /\ current' = prev
           /\ releases'[target] = "absent"]_vars
  <2> SUFFICES ASSUME IInv, Next, Installing, at = "tRm2", releases' # releases
               PROVE  /\ unit' = oldUnit /\ menu' = oldMenu /\ current' = prev
                      /\ releases'[target] = "absent"
    OBVIOUS
  <2>1. unit = oldUnit /\ menu = oldMenu /\ current = prev
    BY DEF IInv, AlignInv, RelInv, Restoring
  <2>2. GiveUp
    <3> USE DEF tree, script, Goes, Grow, Installing, Removing
    <3>1. ~(Systemd \/ Operator)
      BY ServiceOnly
    <3>2. ~Install
      BY DEF Install, Begin, MakeDir, Build, Validate, WriteUnit, FillUnit, WriteConfig, WriteEnv,
         Switch, WriteMenu, Reload, Restart, CheckPasses
    <3>3. Undo => GiveUp
      BY DEF Undo, CheckFails, Fail, RestoreUnit, RestoreMenu, RestoreCurrent, RestoreService, Crumble
    <3>4. ~Update /\ ~Rollback
      BY DEF Update, Recheck, UpdateRestores, UpdateRestarts, ParentKilled, Rollback, RollbackTo,
         RollbackSwitch, RollbackRestart, RollbackPasses, RollbackFails, RollbackRestored
    <3>5. ~Remove /\ ~Killed /\ ~Reboot
      BY DEF Remove, Uninstall, RemoveUnit, RemoveReload, RemoveMenu, RemoveLink, PurgeRelease,
         PurgeConfig, Purged, Leads, Killed, Reboot
    <3> QED
      BY <3>1, <3>2, <3>3, <3>4, <3>5 DEF Next
  <2>3. releases'[target] = "absent"
    BY <2>2 DEF GiveUp, IInv, TypeInv, TypeOK, Scripts
  <2> QED
    BY <2>1, <2>2, <2>3 DEF GiveUp, dirs
<1> QED
  BY <1>1, IInvHolds, PTL DEF FailedInstallUndone, Spec
=============================================================================
