SPECIFICATION Spec
CONSTANTS
  Places <- MCPlaces
  Id <- MCId
  Straight <- MCStraight
  None = None
  MaxExpansions = 20
  Walls <- MCWalls
  Structures <- MCStructures
  Buildings = {2}
  Targets = {0, 1, 2}
  Radius = 60
  MinStandoff = 60
  Length <- MCLength
CHECK_DEADLOCK FALSE
INVARIANTS
  PathIsCheapest
  SecondWayIsAnother
