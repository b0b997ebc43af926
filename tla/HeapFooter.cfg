SPECIFICATION Spec
CONSTANTS
  Rec = 2
  Page = 8
  InitialSize = 24
  MinSize = 16
  Sizes = {3, 9}
  Marks = 1
  MaxEnd = 48
  MaxCalls = 4
  MaxDepth = 2
INVARIANTS
  HoleFooterPointsBack
CHECK_DEADLOCK FALSE
