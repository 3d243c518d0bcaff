SPECIFICATION FairSpec
CONSTANTS
  Jobs = {a, b, c}
  NumKeys = 2
  Permits = 2
  MaxCalls = 1
  QuotaDelays = {1, 3}
  TransientDelay = 1
  UnexpectedDelay = 2
  MaxReloads = 1
INVARIANTS
  TypeOK
  BreakerIsEarliestExpiry
  LockoutOnlyWithoutKeys
PROPERTIES
  FreshAttemptOnReadyKey
  CallEnds
