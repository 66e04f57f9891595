SPECIFICATION BankSpec
CONSTANTS
  Opens = {o1, o2}
  RuleOuts = {r1}
  Resolves = {v1, v2}
  Abandons = {b1}
  Sweeps = {w1}
  Checkpoints = {k1}
  Absent = Absent
  Indexable = TRUE
  Forgets = TRUE
  MaxMisses = 1
CHECK_DEADLOCK FALSE
INVARIANTS
  OpenIsFindable
PROPERTIES
  AnsweredStaysAnswered
  OnlyStaleWritesLose
