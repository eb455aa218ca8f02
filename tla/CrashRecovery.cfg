SPECIFICATION Spec
CONSTANTS
  Rows = {r1, r2, r3}
  Messages = {m1, m2}
  MaxTabs = 2
  Acts = {}
  Faults = {"spawn"}
SYMMETRY Interchangeable
INVARIANTS TypeOK SavedIsFindable AllIsShown LiveIsFlagged
PROPERTIES NothingIsLost
