SPECIFICATION FairSpec
CONSTANTS
  FailureThreshold = 2
  RecoveryTime = 1
  p1 = p1
  p2 = p2
  Chain <- MCChain
  Deliveries = {d1, d2}
  MaxAttempts = 2
  Statuses = {0, 404, 429, 503}
INVARIANTS
  HealthyProvidersTried
  RetryDecisionRight
  BreakersStaySound
PROPERTIES
  UsesBreakersCorrectly
  DeliveryEnds
