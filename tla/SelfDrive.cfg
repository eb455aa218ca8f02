SPECIFICATION Spec
CONSTANTS
  N = 2
  Checks = {c1}
  MaxFix = 1
  MaxRounds = 0
  MaxUnsure = 1
  Acts = {"pause", "tick", "complete", "stop", "restart", "reset", "type", "exit", "unsynced"}
  Decisions = {"advance", "abort"}
  Slots = {t1, t2}
  MaxQueue = 1

SYMMETRY Interchangeable
INVARIANTS TypeOK RunningIsAlive
PROPERTIES DoneIsChecked Implements
CHECK_DEADLOCK FALSE
