\* One manifest, its submission against its delete: is only a draft deleted?
SPECIFICATION Spec
CONSTANTS
  g1 = g1  p1 = p1  p2 = p2  m1 = m1  m2 = m2  k1 = k1  c1 = c1  c2 = c2
  None = None
  Generators = {g1}  Carriers = {p1}  Manifests = {m1}  Checks = {}
  Clients = {c1, c2}
  RoleOf <- AdminAndReviewer
  InitialRows <- SeededDraft
  Routes <- SubmitDeleteRoutes
  Ahead = 0
  MaxVersion = 3
  MaxTime = 0
PROPERTIES OnlyUndecidedDeleted
