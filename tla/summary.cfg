\* Entries come and age while the five queries run.
SPECIFICATION Spec
CONSTANTS
  Actors = {ann, bob}
  Kinds = {manifests, checks}
  DefaultHours = 1
  MaxHours = 2
  AskedHours = {0, 3}
  Lag = 1
  MaxTime = 2
  MaxEntries = 3
SYMMETRY Symmetry
INVARIANT SummaryAddsUp
