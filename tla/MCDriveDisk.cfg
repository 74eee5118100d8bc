SPECIFICATION Spec
CONSTANTS
  Users = {u1}
  Ids = {i1, i2, i3}
  Names = {a}
  Requests <- MCRequests
  Sizes = {1}
  Quota = 2
  AttemptLimit = 3
  Retention = 1
  MaxNow = 2
  Untidy = {}
  Nil = Nil
  Dir = Dir
  MaxPaths = 99
  MaxSuffixes = 9
  MaxLinks = 9
SYMMETRY Symmetry
INVARIANTS
  DiskMatchesTree
PROPERTIES
  RestoreIsWhole
  PurgeRespectsRetention
\* Ids are finite and the clock is bounded: the system may run out of both.
CHECK_DEADLOCK FALSE
