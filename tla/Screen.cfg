SPECIFICATION Spec
CONSTANTS
  Cols = 3
  Rows = 2
  TabStop = 2
  Glyphs = {"a"}
  MaxRows = 2
INVARIANTS
  CursorOnScreen
PROPERTIES
  ScreenIsPaper
