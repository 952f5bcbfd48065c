CONSTANTS
  Symbols <- MCSymbols
  NoSym = "none"
  Type <- MCType
  Literals <- MCLiterals
  Rank <- MCRank
  Numeral <- MCNumeral
  NaN = 1000
  WordSize = 256
  Exprs <- MCExprs
  Digits <- MCDigits
  Prefixed <- MCPrefixed
  Kconfigs <- MCKconfigs
  Order <- MCOrder
  Words <- MCWords
  MaxSettings = 3
SPECIFICATION Spec
INVARIANT CachedIsCurrent
INVARIANT ChoiceHasOne
INVARIANT RecursionFound
INVARIANT SetTakesEffect
CHECK_DEADLOCK FALSE
