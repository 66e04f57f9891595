SPECIFICATION Spec
CONSTANTS
  Dispatches = {d1, d2}
  Approvers = {a1, a2}
  Surveys = {s1}
  Companies = {e5, t3}
  None = None
  MaxCuts = 1
  MaxEvents = 1
  ClaimTTL = 1
SYMMETRY Alike
CHECK_DEADLOCK FALSE
INVARIANTS
  OneCompany
  FilingIsAccounted
  AnsweredIsDone
  StagedIsApprovable
