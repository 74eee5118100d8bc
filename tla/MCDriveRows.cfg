SPECIFICATION Spec
CONSTANTS
  Users = {u1, u2}
  Ids = {i1, i2, i3}
  Names = {a}
  Requests <- MCRequests
  Sizes = {1, 2}
  Quota = 2
  AttemptLimit = 3
  Retention = 1
  MaxNow = 0
  Untidy = {"over_trash", "inside_trash", "purge_referenced", "restore_listed"}
  Nil = Nil
  Dir = Dir
  MaxPaths = 3
  MaxSuffixes = 1
  MaxLinks = 1
SYMMETRY Symmetry
CONSTRAINT Small
INVARIANTS
  TypeOK
  OneOwnerPerTree
  ShortcutsAreFlat
  NoActiveUnderTrash
  UniqueActiveNames
  QuotaIsSum
PROPERTIES
  RowsLeaveViaTrash
\* Ids are finite and the clock is bounded: the system may run out of both.
CHECK_DEADLOCK FALSE
