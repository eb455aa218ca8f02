SPECIFICATION FairSpec
CONSTANTS
  Sessions = {s1}
  Acts = {"plan"}
  Faults = {"wedge", "exit", "spawn", "refuse", "error"}
  MaxSends = 2
  MaxClicks = 2
INVARIANTS TypeOK BusyTells InterruptsAreAimed KillsAreAimed PlanIsKept
PROPERTY StopUnsticks
CHECK_DEADLOCK FALSE
