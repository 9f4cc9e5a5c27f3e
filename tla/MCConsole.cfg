CONSTANTS
  COLS = 3
  ROWS = 3
  TAB = 2
  Glyphs = {" ", "x"}

SPECIFICATION FairSpec

PROPERTIES
  FreshLine
  TextKept
  TabEnds
