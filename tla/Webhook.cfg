\* Five sends, three at a time, with retries and a bucket of three, against Shutdown and cancellation.
SPECIFICATION SenderSpec
CONSTANTS
  r1 = r1
  r2 = r2
  r3 = r3
  Requests <- MCThree
  FailureThreshold = 2
  SuccessThreshold = 2
  Timeout = 1
  MaxAttempts = 2
  Capacity = 3
  Minute = 2
  MaxTime = 2
  MaxSends = 5
INVARIANTS
  DrainedMeansDone
  BucketBound
PROPERTIES
  OpensOnStreak
  ClosesOnProbes
SYMMETRY ThreeSymmetry
CHECK_DEADLOCK FALSE
