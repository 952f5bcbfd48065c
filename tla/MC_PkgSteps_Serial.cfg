SPECIFICATION Spec
CHECK_DEADLOCK FALSE
CONSTANTS
  Packages = {"lib", "app"}
  Override = {"lib"}
  Installs <- InstallsDef
  Deps <- DepsDef
  DownloadDeps <- DepsDef
  ExtractDeps <- NoDeps
  PatchDeps <- NoDeps
  Jobs = 1
  HasWait = FALSE
  GoalLists <- SerialGoals
  MaxVersion = 2
  MaxRuns = 3
INVARIANT StampsTellTheTruth
INVARIANT InstalledIsBuilt
INVARIANT SuccessTakesEffect
