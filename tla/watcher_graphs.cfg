SPECIFICATION Spec
CONSTANTS
  None = None
  r1 = r1  r2 = r2  r3 = r3  r4 = r4
  a1 = a1  a2 = a2  b1 = b1
  s1 = s1  s2 = s2  n1 = n1  n2 = n2  nn = nn
  f1 = f1  f2 = f2  f3 = f3
  p1 = p1  p2 = p2  p3 = p3  p4 = p4  p5 = p5
  Ceilings = {4, 12, 24}
  Registries = {r1, r2, r3, r4}
  Order <- MCOrder
  Addresses = {a1, a2}
  Elsewhere = {b1}
  NormalForm <- MCNormalForm
  Grounds = TRUE
  Districts <- MCDistricts
  MaxQuestions = 1
  Feeds = {f1, f2, f3}
  Filings = {p1, p2, p3, p4, p5}
  Number <- MCNumber
  Cites <- MCCites
  Tails <- MCTails
  Archives <- MCArchives
  MaxReferences = 2
  k1 = k1  k2 = k2  k3 = k3  k4 = k4
  x1 = x1  x2 = x2  x3 = x3  x4 = x4
  q1 = q1  q2 = q2  d1 = d1  d2 = d2  w1 = w1  bldg = bldg  i1 = i1
  notifier = notifier  recorder = recorder  liaison = liaison
  Keys = {k1, k2, k3, k4}
  HazardKeys = {k2, k3}
  GeometryKeys = {k1}
  Remembered = {q1, q2}
  Evidence <- MCEvidence
  BearsOn <- MCBearsOn
  Pictures <- MCPictures
  Building = bldg
  IdOrder <- MCIdOrder
  Catalog <- MCCatalog
  MaxCollisions = 3
  MaxPointers = 3
  MaxFacts = 2
  Names <- MCNames
  Observable = {x1, x2}
  Here = {q1, q2}
  Readable = {q1, q2}
INVARIANTS
  SilenceIsClosure
  UnresolvedTriedAll
  ClosedLeavesNothing
  OneBuildingPerStreet
  ConvergesInSteps
