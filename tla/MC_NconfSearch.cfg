SPECIFICATION NconfMenuSpec
CHECK_DEADLOCK FALSE
CONSTANTS
  Menus <- MCMenus
  Glyphs = {"a", "b", "x"}
  MenuLines = {1, 2, 3}
  MaxPattern = 2
PROPERTY SearchAnswers
