SPECIFICATION Spec
CONSTANTS
  Procs = {p1, p2}
  Users = {u1, u2}
  Ids = {i1, i2}
  GrantIds = {g1, g2}
  LinkIds = {}
  Offered = {"open", "create", "move", "share", "trash"}
  MaxNow = 0
  StaleMoves = FALSE
  Nil = Nil
  MaxRows = 2
  MaxOvertaken = 1
SYMMETRY Symmetry
CONSTRAINT Small
INVARIANTS
  GrantsAreTheOwners
  TrashIsListed
  TreeIsAcyclic
PROPERTIES
  DecisionsAreJustified
\* Ids are finite and requests end: the system may run out of things to do.
CHECK_DEADLOCK FALSE
