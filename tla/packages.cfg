SPECIFICATION FairSpec
CONSTANTS
  Hooks = {h1}
  Sweeps = {h1}
  Timer = timer
  Requests = {r1}
  Taps = {}
  Sends = {}
  None = None
  Verdicts = {ready, gaps}
  Ready = ready
  FirstVerdict = gaps
  MaxMoves = 1
  MaxFaults = 1
  MaxCrashes = 1
CHECK_DEADLOCK FALSE
INVARIANTS
  ComposingIsHeld
  TwinNeedsMovedVerdict
  RunsAreClosed
PROPERTIES
  NoRunOnceForgotten
  PackageUnlessFailed
