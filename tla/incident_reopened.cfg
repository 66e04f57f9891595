SPECIFICATION Spec
CONSTANTS
  Opener = o1
  NoIncident = NoIncident
  Markers = {m1}
  Emitters = {}
  Closers = {c1}
  Flushers = {}
  Lines = {o1, m1, c1}
  Contention = FALSE
  MaxAttempts = 5
  MaxFailures = 0
  MaxOutages = 0
CHECK_DEADLOCK FALSE
INVARIANTS
  SealedMeansClosed
