SPECIFICATION Spec
CONSTANTS
  Hooks = {}
  Sweeps = {}
  Timer = timer
  Requests = {r1}
  Taps = {t1, t2, t3}
  Sends = {s1, s2}
  None = None
  Verdicts = {ready, gaps}
  Ready = ready
  FirstVerdict = gaps
  MaxMoves = 0
  MaxFaults = 0
  MaxCrashes = 1
SYMMETRY Alike
CHECK_DEADLOCK FALSE
INVARIANTS
  SentNeedsBothSignatures
