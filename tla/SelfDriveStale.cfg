SPECIFICATION Spec
CONSTANTS
  N = 2
  Checks = {c1}
  MaxFix = 1
  MaxRounds = 0
  MaxUnsure = 1
  Acts = {"pause", "overlap"}
  Decisions = {"advance", "fix"}
  Slots = {t1, t2}
  MaxQueue = 1
SYMMETRY Interchangeable

PROPERTIES VerdictsStayPut
CHECK_DEADLOCK FALSE
