\* Quotas over three keys of two sessions; nothing is finalized.
SPECIFICATION StoreSpec
CONSTANTS
  k1 = k1
  k2 = k2
  k3 = k3
  s1 = s1
  s2 = s2
  Keys <- MCKeys
  Sessions <- MCSessions
  SessionOf <- MCSessionOf
  Statuses = {}
  RatePolicies <- MCPolicies
  Window = 2
  BurstWindow = 1
  Retention = 2
  MaxRecords = 3
  MaxLogical = 3
  TicksPerSecond = 2
  MaxTicks = 6
  MaxBoots = 2
  MaxAttempts = 3
  MaxFinals = 0
  ClockFails = TRUE
  ClockRegresses = FALSE
  CollectCalled = FALSE
  NoRecord = NoRecord
  Free = Free
  Clients = {c1}
  Digests = {d1}
INVARIANTS
  Remembered
  QuotaHolds
  RateRefusalRebaselines
SYMMETRY KeySymmetry
CHECK_DEADLOCK FALSE
