\* Three hook processes, two members, four seconds.
SPECIFICATION TeamSpec
CONSTANTS
  lead = lead
  m1 = m1
  m2 = m2
  h1 = h1
  h2 = h2
  h3 = h3
  Lead = lead
  Members <- MCMembers
  Hooks <- MCHooks
  MaxTime = 4
INVARIANTS
  NoLostCompletion
PROPERTY ClaimCoversAll
SYMMETRY TeamSymmetry
CHECK_DEADLOCK FALSE
