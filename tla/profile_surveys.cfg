SPECIFICATION Spec
CONSTANTS
  f1 = f1
  f2 = f2
  f3 = f3
  f4 = f4
  c1 = c1
  w1 = w1
  w2 = w2
  s1 = s1
  s2 = s2
  a1 = a1
  a2 = a2
  Owners = {a1, a2}
  Nobody = Nobody
  Lease = 1
  Facts = {f1, f2, f3, f4}
  Conflicts = {c1}
  Findings <- MCFindings
  Watchers = {w1}
  Rankers = {}
  Surveyors = {s1, s2}
  Reads <- MCSurveyReads
  Settles <- MCSettles
  OwnerOf <- MCOwnOwner
  Contention = TRUE
  MaxWaits = 1
  MaxSaves = 2
  MaxFailures = 1
  MaxVersion = 0
  MaxTime = 0
INVARIANTS
  Provenance
