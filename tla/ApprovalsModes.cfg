SPECIFICATION FairSpec
CONSTANTS
  NoQuestion = NoQuestion
  Sessions = {s1, w}
  SpecWriters = {w}
  Tools = {"read", "write", "bash", "question", "enter", "exit"}
  Serials = {n1}
  Modes = {"normal", "accept", "plan"}
  Ending = {}
  Parts = 2
  MaxCalls = 2
INVARIANTS TypeOK OnlyGrantedRun
PROPERTY EveryCallAnswered
CHECK_DEADLOCK FALSE
