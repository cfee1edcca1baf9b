SPECIFICATION Spec
CONSTANTS
  NumJobs = 4
  UsedPriorities = {0, 1}
  MaxSize = 3
  MaxRetries = 1
  RetryDelays = {1, 2}
  MaxNow = 2
CHECK_DEADLOCK FALSE
INVARIANTS
  QueueHoldsTheWaiting
  ReadyNeverBlocked
  FirstAttemptsInOrder
