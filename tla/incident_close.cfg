SPECIFICATION LiveSpec
CONSTANTS
  Opener = o1
  NoIncident = NoIncident
  Markers = {}
  Emitters = {e1}
  Closers = {c1}
  Flushers = {f1}
  Lines = {o1, e1, c1}
  Contention = TRUE
  MaxAttempts = 2
  MaxFailures = 1
  MaxOutages = 1
CHECK_DEADLOCK FALSE
INVARIANTS
  AcknowledgedIsRecorded
  RmsFaithful
  CloseIsAccounted
PROPERTIES
  KeepsContract
  CloseCompletes
