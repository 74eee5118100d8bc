SPECIFICATION Spec
CONSTANTS
  Users = {u1}
  Ids = {i1, i2}
  Names = {a}
  Requests <- MCRequests
  Sizes = {1}
  Quota = 2
  AttemptLimit = 3
  Retention = 1
  MaxNow = 0
  Untidy = {"purge_referenced"}
  Nil = Nil
  Dir = Dir
  MaxPaths = 99
  MaxSuffixes = 9
  MaxLinks = 9
SYMMETRY Symmetry
PROPERTIES
  EraseIsWhole
\* Ids are finite and the clock is bounded: the system may run out of both.
CHECK_DEADLOCK FALSE
