SPECIFICATION Spec
CONSTANTS
  Procs = {p1}
  Ids = {f1, f2, f3}
  Paths = {n1, n2}
  Layered = {l1}
  Scans = {s1, s2}
  Blanks = {b1}
  BatchSize = 2
  MaxRestarts = 0
  Offered = {"save", "move", "trash", "purge"}
  Overlap = FALSE
  Nil = Nil
INVARIANTS
  IndexedFilesExist
PROPERTIES
  SearchCatchesUp
