SPECIFICATION Spec
CONSTANTS
  k1 = k1
  None = None
  NRequests = 3
  Keys = {k1}
  KeyOf <- MCKeyOf
  Lookups <- MCLookups
  Rank <- MCRank
  BelowFloor = {2}
  DisableFallback = FALSE
  Answers <- MCAnswers
  Concurrency = 1
  FieldBudget = TRUE
  ConnectionRetries = 1
  ValidationRetries = 0
  MaxRuns = 2
  MaxCrashes = 1
INVARIANT CachedPicksAreAnswers
CHECK_DEADLOCK FALSE
