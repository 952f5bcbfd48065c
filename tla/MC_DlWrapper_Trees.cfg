SPECIFICATION FairSpec
CHECK_DEADLOCK FALSE
CONSTANTS
  Procs = {p1, p2}
  good = good
  bad = bad
  NoFile = NoFile
  NoProc = NoProc
  NoHash = FALSE
  PostProcess = TRUE
  MaxRuns = 3
  Data <- MCData
  Served <- MCServed
  Processed <- MCProcessed
  HashChoices <- MCOtherHashes
  OldCopies <- MCCopies
PROPERTY GoodFileIsKept
PROPERTY EveryRunEnds
