SPECIFICATION Spec
CONSTANTS
  MaxDialogueRounds = 1
  TieBreakPolicy = "pause"
  PlanGate = TRUE
  LiveReview = FALSE
  DriftNudge = FALSE
  OpThreshold = 2
  BudgetCap = 2
  Concerns = {c1}
  Unclear = unclear
  MaxEdits = 1
  MaxUserMessages = 1
  MaxPauses = 2
  MaxResumes = 2
  MaxRepeats = 1
  MaxFetches = 1
  MaxAttempts = 2
INVARIANTS BoundedRounds
PROPERTIES BlockedRunIsStill BudgetStopIsFinal
CHECK_DEADLOCK FALSE
