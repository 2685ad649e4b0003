\* Two processes, two keys; a power loss; records expire and keys are admitted again.
SPECIFICATION ServiceSpec
CONSTANTS
  k1 = k1
  k2 = k2
  s1 = s1
  d1 = d1
  d2 = d2
  c1 = c1
  c2 = c2
  c3 = c3
  p1 = p1
  p2 = p2
  submitted = submitted
  unknown = unknown
  Keys <- MCTwoKeys
  Sessions = {s1}
  SessionOf <- MCSessionOf
  Digests = {d1}
  Statuses <- MCStatuses
  NoRecord = NoRecord
  Window = 1
  BurstWindow = 1
  Retention = 1
  MaxRecords = 2
  MaxLogical = 3
  Clients <- MCTwoCalls
  Free = Free
  RatePolicies <- MCPolicy
  TicksPerSecond = 1
  MaxTicks = 2
  MaxBoots = 2
  MaxAttempts = 3
  MaxFinals = 2
  ClockFails = FALSE
  ClockRegresses = FALSE
  CollectCalled = FALSE
  Procs = {p1, p2}
  ProcOf <- MCProcOf
  MaxActive = 1
  CloseCalled = FALSE
  NoReceipt = NoReceipt
  NoCall = NoCall
INVARIANTS
  AtMostOnce
  ReceiptsTruthful
  RetrySafeIsSafe
  ToldIsStable
PROPERTIES
  KeepsPromise
SYMMETRY PairSymmetry
CHECK_DEADLOCK FALSE
