SPECIFICATION FairSpec
CONSTANTS
  p = p
  q = q
  p1 = p1
  p2 = p2
  q1 = q1
  Keys = {p, q}
  Hooked = {}
  Builds = {p1, q1}
  Packages <- OneBuildEach
  Found <- FoundOneRunning
  Singletons = {p1}
  Gens = {g1, g2, g3}
  Callers = {c1}
  Admins = {a1}
  Sync = sync
  None = None
  MaxChanges = 1
  MaxFaults = 1
PROPERTIES
  CloseEnds
  CatchesUp
CHECK_DEADLOCK FALSE
