\* Hooks that overlap, the end of the window and the cleanup of the state.
SPECIFICATION HookSpec
CONSTANTS
  h1 = h1
  h2 = h2
  h3 = h3
  Events <- MCTurns
  Hooks <- MCTwo
  NoTurn = "none"
  Delayed = FALSE
  EventTTL = 1
  ContentTTL = 1
  PendingTTL = 1
  CleanupAge = 1
  Window = 2
  CooldownAny = 1
  CooldownTask = 2
  MaxTime = 4
  MaxHooks = 3
PROPERTIES
  SilentOnlyAfterShown
SYMMETRY TwoSymmetry
CHECK_DEADLOCK FALSE
