\* A delayed desktop Stop, its replays, past the life of an ordinary lock.
SPECIFICATION HookSpec
CONSTANTS
  h1 = h1
  h2 = h2
  h3 = h3
  Events <- MCStop
  Hooks <- MCThree
  NoTurn = "none"
  Delayed = TRUE
  EventTTL = 1
  ContentTTL = 2
  PendingTTL = 3
  CleanupAge = 3
  Window = 5
  CooldownAny = 1
  CooldownTask = 2
  MaxTime = 3
  MaxHooks = 4
INVARIANTS
  PendingReserves
  UndeliveredReleases
SYMMETRY ThreeSymmetry
CHECK_DEADLOCK FALSE
