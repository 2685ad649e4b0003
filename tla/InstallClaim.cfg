SPECIFICATION ClaimSpec
CONSTANTS
  h1 = h1
  h2 = h2
  h3 = h3
  i1 = i1
  i2 = i2
  i3 = i3
  i4 = i4
  Hooks <- MCThree
  Inodes <- MCInodes
  Rounds = 2
  HostLimit = TRUE
  None = None
INVARIANTS
  OneInstaller
  WitnessStands
  NeverStuck
PROPERTY BackoffKept
SYMMETRY Symmetry
CHECK_DEADLOCK FALSE
