CONSTANTS
  Words <- MCWords
  Opt <- MCOpt
  Path <- MCPath
  Unsafe <- MCUnsafe
  Plain = 3
  CommandLines <- MCCommandLines
  Builds <- MCBuilds
  MaxArguments = 3
  Paths <- MCPaths
  Parent <- MCParent
  Node <- MCNode
  Trees <- MCTrees
  Tables <- MCTables
  IdOf <- MCIdOf
  ExtendedAttributes = TRUE
  MaxEntries = 2
  Data = {d1, d2}
  MaxFiles = 2
  MaxLines = 2
  Users = {"u", "w"}
  Groups = {"g", "h"}
  Names = {"u", "w", "-"}
  Extras <- SomeExtras
  Home = "absolute"
  FIRST_SYSTEM = 1
  LAST_SYSTEM = 1
  FIRST_USER = 2
  LAST_USER = 3
  UsersTables <- TheTables
  Skeletons <- Skeleta
SPECIFICATION Spec
CHECK_DEADLOCK FALSE
INVARIANT ArgsFit
INVARIANT UnsafeNeverPassed
INVARIANT TableIsApplied
INVARIANT NothingElseChanged
INVARIANT ScanComputesVerdict
INVARIANT UidsUnique
INVARIANT TableIsHonoured
