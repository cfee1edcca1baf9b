SPECIFICATION FairSpec
CONSTANTS
  N = 3
  BulkConcurrency = 2
  Others = {o1}
  Providers = {"p", "unknown"}
  Retention = 1
  MaxClock = 2
CHECK_DEADLOCK FALSE
INVARIANTS
  BulkResultsTrue
  StatsCountEvents
PROPERTIES
  BulkAnswers
  PayloadsTaken
