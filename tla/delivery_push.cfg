SPECIFICATION LiveSpec
CONSTANTS
  e1 = e1
  e2 = e2
  t1 = t1
  t2 = t2
  p1 = p1
  Events = {e1, e2}
  Unsupported = {e2}
  Procs = {p1}
  Tasks = {t1, t2}
  ProcOf <- OneProcess
  NoEvent = NoEvent
  Durable = TRUE
  Transport = "push"
  FailureThreshold = 2
  Cooldown = 1
  ClaimTTL = 2
  MaxAttempts = 2
  MaxDeliveries = 3
  MaxCrashes = 1
  MaxStoreFailures = 1
  MaxTime = 3
CHECK_DEADLOCK FALSE
INVARIANTS
  ExclusiveUnlessExpired
  AckedIsAccounted
  CompletedHasEffect
  DuplicateNeedsExpiry
  BreakersConsistent
  NoDropWithoutFailure
PROPERTIES
  EverySettles
