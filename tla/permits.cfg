\* A generator and a carrier, every endpoint of both, a clock.
SPECIFICATION Spec
CONSTANTS
  g1 = g1  p1 = p1  p2 = p2  m1 = m1  m2 = m2  k1 = k1  c1 = c1  c2 = c2
  None = None
  Generators = {g1}  Carriers = {p1}  Manifests = {}  Checks = {}
  Clients = {c1, c2}
  RoleOf <- AdminAndReviewer
  InitialRows <- EmptyTables
  Routes <- PermitRoutes
  Ahead = 0
  MaxVersion = 3
  MaxTime = 1
CONSTRAINT ThreeWrites
INVARIANTS TypeOK ReplacesWhatItRead AuditTrail
PROPERTIES StatusFollowsGraph DeletedIsFinal
