\* Five rows, pages of one and of two, five writes during or between walks.
SPECIFICATION Spec
CONSTANTS
  Rows = {r1, r2, r3, r4, r5}
  DefaultSize = 2
  MaxSize = 3
  PageSizes = {0, 1, 4}
  MaxWrites = 5
SYMMETRY Symmetry
INVARIANTS TypeOK WalkSeesAll
