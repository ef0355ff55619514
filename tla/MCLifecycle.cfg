CONSTANTS
  v1 = v1  v2 = v2  d1 = d1  d2 = d2
  Versions = {v1, v2}
  Dirs = {d1, d2}
  None = None
  MaxFaults = 3
SPECIFICATION Spec
INVARIANTS TypeOK CurrentComplete OneArtifactDir RunsConfigured RunningIsInstalled InstallerAgrees InStep
PROPERTIES FailedInstallUndone
