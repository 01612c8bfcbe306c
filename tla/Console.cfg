SPECIFICATION ConsoleSpec
CONSTANTS
  Rows = 3
  Columns = 3
  Chars = {"a", "kana"}
  Glyphs = {"a"}
PROPERTIES ImplementsTerminal
CHECK_DEADLOCK FALSE
