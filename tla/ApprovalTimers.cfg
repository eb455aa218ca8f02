SPECIFICATION Spec
CONSTANTS
  DecisionTimeout = 8
  CurlMargin = 7
  CliMargin = 5
  Lag = 2
INVARIANTS NeverFailsOpen ReasonedDecision
