SPECIFICATION Spec
CONSTANTS
  Sections = {"retry", "queue"}
  ByReference = {"retry"}
  Fields = {"f", "g"}
  Values = {0, 1}
  Default = 0
  Settings = {"templateEngineType"}
  Offers <- MCOffers
  People = {a, b}
  MaxProviders = 2
  MaxCalls = 2
  MaxBuilds = 2
  MaxSends = 2
CHECK_DEADLOCK FALSE
INVARIANTS
  ConfiguredAsSaid
  GuardedByName
  SameEmailByAll
  MocksFailFirst
