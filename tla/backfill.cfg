SPECIFICATION Spec
CONSTANTS
  NumSources = 3
  Pages <- MCPages
  MaxPages = 2
  Lists <- MCLists
  Runs = {r1, r2, r3}
  Limits = {2}
  None = None
SYMMETRY RunSymmetry
CHECK_DEADLOCK FALSE
INVARIANTS
  NothingSkipped
  NothingPulledAgain
  DeathCostsOneSource
