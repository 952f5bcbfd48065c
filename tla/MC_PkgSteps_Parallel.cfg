SPECIFICATION Spec
CHECK_DEADLOCK FALSE
CONSTANTS
  Packages = {"lib", "app"}
  Override = {"lib"}
  Installs <- InstallsDef
  Deps <- DepsDef
  DownloadDeps <- NoDeps
  ExtractDeps <- NoDeps
  PatchDeps <- NoDeps
  Jobs = 2
  HasWait = TRUE
  GoalLists <- ParallelGoals
  MaxVersion = 2
  MaxRuns = 2
INVARIANT DependenciesComplete
INVARIANT SuccessTakesEffect
