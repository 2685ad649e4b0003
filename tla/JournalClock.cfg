\* The logical clock under reboots, missing and regressed samples, with collection.
SPECIFICATION StoreSpec
CONSTANTS
  k1 = k1
  k2 = k2
  k3 = k3
  s1 = s1
  s2 = s2
  Keys <- MCTwoKeys
  Sessions <- MCOneSession
  SessionOf <- MCOneSessionOf
  Statuses = {"submitted", "unknown"}
  RatePolicies <- MCLoosePolicy
  Window = 1
  BurstWindow = 1
  Retention = 1
  MaxRecords = 1
  MaxLogical = 3
  TicksPerSecond = 2
  MaxTicks = 5
  MaxBoots = 2
  MaxAttempts = 3
  MaxFinals = 2
  ClockFails = TRUE
  ClockRegresses = TRUE
  CollectCalled = TRUE
  NoRecord = NoRecord
  Free = Free
  Clients = {c1}
  Digests = {d1}
INVARIANTS
  TerminalIsOwn
  LogicalNeverAhead
  NoSelfRepair

SYMMETRY KeySymmetry
CHECK_DEADLOCK FALSE
