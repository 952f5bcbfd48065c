CONSTANTS
  Symbols <- MCSymbols
  NoSym = "none"
  Type <- MCType
  Literals <- MCLiterals
  Rank <- MCRank
  Numeral <- MCNumeral
  NaN = 1000
  WordSize = 256
  Exprs <- MCExprs
  Digits <- MCDigits
  Prefixed <- MCPrefixed
  NoFile = NoFile
  NotSet = NotSet
  Kconfigs <- MCKconfigs
  Starts <- MCStarts
  Order <- MCOrder
  Alphabet <- MCAlphabet
  Words <- MCWords
  Names <- MCNames
  Patterns <- MCPatterns
  Interruptible <- MCInterruptible
  MaxKeys = 5
  MaxItems = 5
  MenuHeights = {0, 2, 3, 5}
  ListHeight = 3
  Letters <- MCLetters
  Chars = {"a", "b"}
  Nul = Nul
  Space = " "
  MaxLen = 5
  BoxWidth = 3
  Given <- MCGiven
  Newline = Newline
  TextsShown <- MCTexts
  Heights = {0, 1, 2, 3, 5}
  JumpKeys = 2
  MaxColumn = 1
  Menus <- MCMenus
  Glyphs = {"a", "b", "x"}
  MenuLines = {1, 2, 3}
  MaxPattern = 2
  Typed = {"a", "b"}
  EndOfLine = Newline
  Drafts <- MCGiven
  MaxDraft = 5
  Prompts <- MCPrompts
  Pages <- MCPages
  Displays <- MCDisplays
  MaxButtons = 2
SPECIFICATION Spec
CHECK_DEADLOCK FALSE
INVARIANT NothingLost
INVARIANT ShownIsCurrent
INVARIANT EverythingReachable
INVARIANT WindowIsRight
INVARIANT FieldIsRight
PROPERTY ImplementsEditor
PROPERTY ReadingIsRight
PROPERTY FoundIsNearest
PROPERTY EntryIsRight
PROPERTY NothingIsPassed
