SPECIFICATION Spec
CONSTANTS
  Procs = {p1}
  Users = {u1, u2}
  Ids = {i1, i2}
  GrantIds = {g1, g2}
  LinkIds = {l1}
  Offered = {"get", "open", "save", "star", "create", "shortcut", "copy", "move", "trash", "share", "link", "visit"}
  MaxNow = 1
  StaleMoves = FALSE
  Nil = Nil
  MaxRows = 1
  MaxOvertaken = 1
SYMMETRY Symmetry
CONSTRAINT Small
INVARIANTS
  TypeOK
  OneOwnerPerTree
  SearchFindsTheReadable
PROPERTIES
  ContentNeedsAccess
  DecisionsAreJustified
\* Ids are finite and requests end: the system may run out of things to do.
CHECK_DEADLOCK FALSE
