SPECIFICATION Spec
CONSTANTS
  Ids = {"4d4ff56"}
  Layouts <- StandardOnly
  Names = {"stock.fl", "out.fl"}
  Stock = "stock.fl"
  MaxBuilds = 1
  Selections <- EachFeature
  Trouble = {}
  None = None
  Torn = Torn
INVARIANT SkippedIsSkipped
CHECK_DEADLOCK FALSE
