SPECIFICATION Spec
CONSTANTS
  NoQuestion = NoQuestion
  Sessions = {s1, s2}
  SpecWriters = {}
  Tools = {"bash"}
  Serials = {n1, n2}
  Modes = {"normal"}
  Ending = {s1}
  Parts = 1
  MaxCalls = 2
SYMMETRY Interchangeable
INVARIANTS PromptReachable OnlyGrantedRun
CHECK_DEADLOCK FALSE
