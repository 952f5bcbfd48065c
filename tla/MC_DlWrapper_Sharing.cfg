SPECIFICATION Spec
CHECK_DEADLOCK FALSE
CONSTANTS
  Procs = {p1, p2}
  good = good
  bad = bad
  NoFile = NoFile
  NoProc = NoProc
  NoHash = FALSE
  PostProcess = FALSE
  MaxRuns = 3
  Data <- MCData
  Served <- MCServed
  Processed <- MCProcessed
  HashChoices <- MCHashes
  OldCopies <- MCNoCopy
INVARIANT SuccessIsVerified
PROPERTY ImplementsStore
