CONSTANTS
  Symbols <- MCSymbols
  NoSym = "none"
  Type <- MCType
  Literals <- MCLiterals
  Rank <- MCRank
  Numeral <- MCNumeral
  NaN = 1000
  WordSize = 256
  Exprs <- MCExprs
  Digits <- MCDigits
  Prefixed <- MCPrefixed
  NoFile = NoFile
  NotSet = NotSet
  Kconfigs <- MCKconfigs
  Starts <- MCStarts
  Order <- MCOrder
  Words <- MCWords
  Commands <- MCCommands
  MaxCommands = 3
SPECIFICATION Spec
INVARIANT SavedIsFinal
INVARIANT DefconfigIsEnough
INVARIANT NothingNew
PROPERTY FilesFollowConfig
