SPECIFICATION Spec
CONSTANTS
  u1 = u1
  u2 = u2
  r1 = r1
  r2 = r2
  r3 = r3
  Requests = {r1, r2, r3}
  UserOf <- SharedByTwo
  Lease = 3
  Margin = 1
  Reserve = 0
  CallTimeout = 1
  Uncertainty = 1
  MaxAttempts = 1
  MaxActive = 1
  RateLimit = 1
  RateWindow = 1
  MaxConcurrency = 1
  MaxRounds = 1
SYMMETRY Sharers
INVARIANTS
  ProviderWithinCapacity
  UserShare
CHECK_DEADLOCK FALSE
