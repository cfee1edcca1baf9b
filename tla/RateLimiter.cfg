SPECIFICATION FairSpec
CONSTANTS
  Deliveries = {c1, c2, c3}
  Rate = 2
  TokenUnits = 3
  Capacity = 7
  PollTime = 2
  Timeout = 5
  Modes = {"wait", "throw"}
  MaxAge = 4
INVARIANTS
  RateBounded
PROPERTIES
  ImplementsTokenBucket
  EveryWaiterEnds
