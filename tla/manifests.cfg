\* One manifest between a generator and two carriers, the second not yet created.
SPECIFICATION Spec
CONSTANTS
  g1 = g1  p1 = p1  p2 = p2  m1 = m1  m2 = m2  k1 = k1  c1 = c1  c2 = c2
  None = None
  Generators = {g1}  Carriers = {p1, p2}  Manifests = {m1}  Checks = {}
  Clients = {c1, c2}
  RoleOf <- AdminAndOperator
  InitialRows <- SeededParties
  Routes <- ManifestRoutes
  Ahead = 0
  MaxVersion = 3
  MaxTime = 0
CONSTRAINT FourWrites
INVARIANTS WritersHoldJudgedRows AuditTrail LinksResolve
PROPERTIES StatusFollowsGraph FrozenOnceDecided ImplementsRegistry
