SPECIFICATION Spec
CONSTANTS
  Procs = {p1, p2}
  Ids = {x1, x2}
  Names = {a}
  Sizes = {1}
  Quota = 2
  Chunks = 1
  MaxStops = 0
  Overlaps = {"names"}
  Nil = Nil
SYMMETRY Symmetry
INVARIANTS
  DiskAgrees
\* Ids are used up by what nothing collects.
CHECK_DEADLOCK FALSE
