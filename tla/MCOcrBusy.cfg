SPECIFICATION Spec
CONSTANTS
  Procs = {p1}
  Ids = {f1, f2}
  Paths = {n1, n2}
  Layered = {l1}
  Scans = {}
  Blanks = {b1}
  BatchSize = 1
  MaxRestarts = 1
  Offered = {"save", "trash", "purge", "reindex", "cancel"}
  Overlap = TRUE
  Nil = Nil
INVARIANTS
  TypeOK
  AttemptedIsDone
PROPERTIES
  NoneWaitsForever
