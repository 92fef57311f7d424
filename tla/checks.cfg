\* One check and two manifests, every endpoint of the check.
SPECIFICATION Spec
CONSTANTS
  g1 = g1  p1 = p1  p2 = p2  m1 = m1  m2 = m2  k1 = k1  c1 = c1  c2 = c2
  None = None
  Generators = {g1}  Carriers = {p1}  Manifests = {m1, m2}  Checks = {k1}
  Clients = {c1, c2}
  RoleOf <- AdminAndReviewer
  InitialRows <- SeededManifests
  Routes <- CheckRoutes
  Ahead = 0
  MaxVersion = 3
  MaxTime = 0
INVARIANTS ReplacesWhatItRead AuditTrail BasisIsTheDeciders
PROPERTIES StatusFollowsGraph FrozenOnceDecided
