SPECIFICATION Spec
CONSTANTS
  Rows = {r1, r2}
  Messages = {m1}
  MaxTabs = 2
  Acts = {"dismiss"}
  Faults = {}
PROPERTIES NothingIsLost
