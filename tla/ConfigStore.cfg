SPECIFICATION ConfigSpec
CONSTANTS
  w1 = w1
  w2 = w2
  h1 = h1
  legacy = legacy
  neutral = neutral
  seed = seed
  d1 = d1
  auto = auto
  Writers <- MCWriters
  Readers = {h1}
  Legacy = legacy
  Neutral = neutral
  Others = {}
  Docs = {seed, d1}
  Broken = {}
  Foreign = {seed}
  Seed = seed
  Results = {d1}
  Views = {auto}
  Automatic = auto
  Calls <- MCCalls
  None = None
  MaxCalls = 2
  MaxEdits = 1
  MaxStops = 1
INVARIANTS
  OldKept
  DoneStays
  NoFalseAlarm
SYMMETRY WriterSymmetry
PROPERTIES
  Swap
  CreatesFresh
  DefaultsMeanMissing
