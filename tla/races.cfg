\* A manifest, its parties and its check, decided, withdrawn, edited and deleted at once.
SPECIFICATION HistorySpec
CONSTANTS
  g1 = g1  p1 = p1  p2 = p2  m1 = m1  m2 = m2  k1 = k1  c1 = c1  c2 = c2
  None = None
  Generators = {g1}  Carriers = {p1}  Manifests = {m1}  Checks = {k1}
  Clients = {c1, c2}
  RoleOf <- AdminAndReviewer
  InitialRows <- SeededDraft
  Routes <- RaceRoutes
  Ahead = 0
  MaxVersion = 3
  MaxTime = 1
CONSTRAINT ThreeWrites
VIEW WithoutAudits
PROPERTIES PartiesQualifiedDuringRequest PassableDuringRequest UndecidedDuringDelete HistoryInOrder
