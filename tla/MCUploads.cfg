SPECIFICATION FairSpec
CONSTANTS
  Procs = {p1, p2}
  Ids = {x1, x2}
  Names = {a}
  Sizes = {1, 2}
  Quota = 2
  Chunks = 2
  MaxStops = 1
  Overlaps = {}
  Nil = Nil
INVARIANTS
  TypeOK
  OvershootIsBounded
  RowsHaveTheirBytes
  CounterIsNear
PROPERTIES
  EverythingStagedGoes
\* What a stop leaves in the staging directory stays, and uses up the ids.
CHECK_DEADLOCK FALSE
