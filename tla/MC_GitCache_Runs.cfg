SPECIFICATION Spec
CHECK_DEADLOCK FALSE
CONSTANTS
  v1 = v1
  v2 = v2
  c1 = c1
  c2 = c2
  c3 = c3
  hint = hint
  large = large
  header = header
  junk = junk
  NoCommit = NoCommit
  Names = {v1, v2}
  Commits = {c1, c2, c3}
  Main <- MCMain
  Sub <- MCSub
  Published <- MCPublished
  Requests <- MCRequests
  Linked = {c1, c2}
  Descends <- MCDescends
  Large = {large}
  Subst = {hint, header}
  Junk = junk
  MaxAccidents = 1
  MaxRuns = 3
INVARIANT ArchiveIsTheCommit
INVARIANT SelfHealing
PROPERTY CacheKept
