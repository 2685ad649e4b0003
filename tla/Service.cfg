\* Three calls of one process on one key, at its limit of two, against Close;
\* the process dies and is started again, no time passes.
SPECIFICATION FairServiceSpec
CONSTANTS
  k1 = k1
  k2 = k2
  s1 = s1
  d1 = d1
  d2 = d2
  c1 = c1
  c2 = c2
  c3 = c3
  p1 = p1
  p2 = p2
  submitted = submitted
  unknown = unknown
  Keys <- MCOneKey
  Sessions = {s1}
  SessionOf <- MCSessionOf
  Digests = {d1, d2}
  Statuses = {submitted}
  NoRecord = NoRecord
  Window = 1
  BurstWindow = 1
  Retention = 1
  MaxRecords = 2
  MaxLogical = 3
  Clients <- MCThreeCalls
  Free = Free
  RatePolicies <- MCPolicy
  TicksPerSecond = 1
  MaxTicks = 0
  MaxBoots = 1
  MaxAttempts = 1
  MaxFinals = 1
  ClockFails = FALSE
  ClockRegresses = FALSE
  CollectCalled = FALSE
  Procs = {p1}
  ProcOf <- MCSingle
  MaxActive = 2
  CloseCalled = TRUE
  NoReceipt = NoReceipt
  NoCall = NoCall
INVARIANTS
  DrainedMeansQuiet
PROPERTY CloseDrains
CHECK_DEADLOCK FALSE
