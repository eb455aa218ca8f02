SPECIFICATION FairSpec
CONSTANTS
  MaxDialogueRounds = 2
  TieBreakPolicy = "pause"
  PlanGate = TRUE
  LiveReview = FALSE
  DriftNudge = FALSE
  OpThreshold = 2
  BudgetCap = 4
  Concerns = {c1, c2}
  Unclear = unclear
  MaxEdits = 1
  MaxUserMessages = 0
  MaxPauses = 0
  MaxResumes = 0
  MaxRepeats = 0
  MaxFetches = 1
  MaxAttempts = 3
INVARIANTS TypeOK NeverIdle MentorTurnsRouted
PROPERTIES CompletedByFinalReview RunEnds
CHECK_DEADLOCK FALSE
