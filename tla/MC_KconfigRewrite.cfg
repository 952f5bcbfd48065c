SPECIFICATION Spec
INVARIANT ValueKept
INVARIANT SubmenuReachable
CHECK_DEADLOCK FALSE
CONSTANTS
  Type <- MCType
  Literals <- MCLiterals
  Rank <- MCRank
  Numeral <- MCNumeral
  NaN = 1000
  WordSize = 256
  Exprs <- MCExprs
  Cases <- MCCases
  Modules = "n"
  Envs <- MCEnvs
