SPECIFICATION Spec
CONSTANTS
  Ids = {"4d4ff56", "0badcab"}
  Layouts <- AnyLayout
  Names = {"stock.fl", "out.fl"}
  Stock = "stock.fl"
  MaxBuilds = 3
  Selections <- SomeFeatures
  Trouble = {"tool", "full", "interrupt"}
  None = None
  Torn = Torn
INVARIANTS TypeOK DoneDelivers NeverBuildsOnBroken
PROPERTIES SidecarProtects
CHECK_DEADLOCK FALSE
