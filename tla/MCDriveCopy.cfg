SPECIFICATION Spec
CONSTANTS
  Users = {u1}
  Ids = {i1, i2, i3, i4}
  Names = {a}
  Requests <- MCRequests
  Sizes = {1}
  Quota = 2
  AttemptLimit = 3
  Retention = 1
  MaxNow = 0
  Untidy = {}
  Nil = Nil
  Dir = Dir
  MaxPaths = 4
  MaxSuffixes = 1
  MaxLinks = 0
SYMMETRY Symmetry
CONSTRAINT Small
INVARIANTS
  TreeIsAcyclic
  DiskMatchesTree
\* Ids are finite and the clock is bounded: the system may run out of both.
CHECK_DEADLOCK FALSE
