SPECIFICATION Spec
CONSTANTS
  p = p
  q = q
  p1 = p1
  p2 = p2
  q1 = q1
  Keys = {p, q}
  Hooked = {p, q}
  Builds = {p1, p2, q1}
  Packages <- TwoPlugins
  Found <- FoundTwo
  Singletons = {p1}
  Gens = {g1, g2, g3}
  Callers = {c1}
  Admins = {a1}
  Sync = sync
  None = None
  MaxChanges = 1
  MaxFaults = 1
INVARIANTS
  CallsRunOnLiveCode
  ReferencesBalance
  NoOrphanGeneration
CHECK_DEADLOCK FALSE
