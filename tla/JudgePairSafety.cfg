SPECIFICATION FairSpec
CONSTANTS
  M32B = M32B
  M72B = M72B
  Models = {M32B, M72B}
  ModelOf <- MCModelOf
  None = None
  MaxConnectionRetries = 3
  MaxValidationRetries = 2
  Backoff <- MCBackoff
  MaxBackoff = 120
  CallTimeout = 90
  PairTimeout = 300
  CallDurations = {1, 30, 90, 272}
  FullRationale = FALSE
INVARIANTS
  OverrunBounded
  SettledStays
PROPERTIES
  PromiseSpec
  PairLands
