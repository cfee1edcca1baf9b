SPECIFICATION HFairSpec
CONSTANTS
  FailureThreshold = 3
  RecoveryTime = 3
  Callers = {c1, c2, c3, c4}
INVARIANTS
  ProbeSlotHeld
  LateFailuresBounded
  CountsConsecutiveFailures
PROPERTIES
  OpensForCause
  EventuallyRecovers
