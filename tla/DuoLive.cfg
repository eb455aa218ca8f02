SPECIFICATION Spec
CONSTANTS
  MaxDialogueRounds = 1
  TieBreakPolicy = "mentorWins"
  PlanGate = FALSE
  LiveReview = TRUE
  DriftNudge = TRUE
  OpThreshold = 2
  BudgetCap = 1
  Concerns = {c1}
  Unclear = unclear
  MaxEdits = 2
  MaxUserMessages = 0
  MaxPauses = 0
  MaxResumes = 0
  MaxRepeats = 0
  MaxFetches = 1
  MaxAttempts = 2
INVARIANTS BoundedRounds EditsGetReviewed QueuedReviewIsTaken
PROPERTIES WindsDownOverBudget
CHECK_DEADLOCK FALSE
