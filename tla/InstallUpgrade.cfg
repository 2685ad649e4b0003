SPECIFICATION InstallSpec
CONSTANTS
  w1 = w1
  w2 = w2
  d1 = d1
  bin = bin
  hook = hook
  policy = policy
  v1 = v1
  v2 = v2
  e1 = e1
  c1 = c1
  c2 = c2
  n1 = n1
  n2 = n2
  r1 = r1
  Writers <- MCWriters
  Readers = {d1}
  Assets <- MCBoth
  Keepers = {bin}
  Policy = policy
  Versions = {v1, v2}
  Edits = {e1}
  Consumers = {c1, c2}
  Natives = {n1, n2}
  Menu <- MCUpgrade
  None = None
  Nobody = Nobody
  MaxGen = 3
  MaxEdits = 1
  MaxStops = 1
INVARIANTS
  EnabledIsWhole
  SettledIsWhole
  HandoffFenced
SYMMETRY WriterSymmetry
PROPERTIES
  EditsKept
  UndoneIsAsBefore
