\* A generator, whose status may come back to what it was, and two calls in flight at once.
SPECIFICATION Spec
CONSTANTS
  None = None
  Gone = Gone
  Kind = "wasteGenerator"
  Ids = {r1}
  Found = {}
  Slots = {s1, s2}
  MaxVersion = 3
SYMMETRY Symmetry
PROPERTIES ConfirmsWhatItShows
