SPECIFICATION FairSpec
CONSTANTS
  u1 = u1
  u2 = u2
  r1 = r1
  r2 = r2
  r3 = r3
  Requests = {r1}
  UserOf <- Alone
  Lease = 3
  Margin = 1
  Reserve = 0
  CallTimeout = 2
  Uncertainty = 1
  MaxAttempts = 3
  MaxActive = 2
  RateLimit = 1
  RateWindow = 0
  MaxConcurrency = 2
  MaxRounds = 2
INVARIANTS
  TypeOK
  OneCallPerRequest
PROPERTIES
  ImplementsContract
  Settles
CHECK_DEADLOCK FALSE
