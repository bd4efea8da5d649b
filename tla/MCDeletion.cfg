SPECIFICATION FairSpec
CONSTANTS
  a1 = a1
  b1 = b1
  l1 = l1
  l2 = l2
  r1 = r1
  w1 = w1
  w2 = w2
  Identities = {a1, b1}
  Lookups = {l1, l2}
  Caller <- Callers
  PermitTime = 2
  Deadline = 1
  Linger = 1
  Uncertain = 2
  Window = 2
  MaxRecent = 1
  MaxLookups = 1
  Recoverers = {w1, w2}
  RetryTime = 1
  Requests = {r1}
  UserOf <- Senders
  Lease = 3
  Margin = 1
  Reserve = 0
  CallTimeout = 1
  Uncertainty = 1
  MaxAttempts = 1
  MaxActive = 1
  RateLimit = 1
  RateWindow = 0
  MaxConcurrency = 1
  MaxRounds = 1
CONSTRAINT Competing
INVARIANTS
  TypeOK
  DrainedBeforeErased
  NothingReturns
  LookupsWithinCapacity
PROPERTIES
  Completes
CHECK_DEADLOCK FALSE
