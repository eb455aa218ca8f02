SPECIFICATION FairSpec
CONSTANTS
  N = 2
  Checks = {c1, c2}
  MaxFix = 2
  MaxRounds = 2
  MaxUnsure = 2
  Acts = {"pause", "stop", "exit"}
  Decisions = {"advance", "advance_recovery", "verify", "fix", "build_check", "test", "commit", "pause", "request_recheck"}
  Slots = {t1}
  MaxQueue = 1


PROPERTIES ModeRestored KeepsJudging
CHECK_DEADLOCK FALSE
