SPECIFICATION Spec
CONSTANTS
  FailureThreshold = 2
  RecoveryTime = 3
  Callers = {c1, c2, c3}
INVARIANTS
  SingleProbe
