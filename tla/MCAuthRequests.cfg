SPECIFICATION Spec
CONSTANTS
  Procs = {p1, p2}
  Accounts = {a1, a2}
  Names = {n1, n2}
  Codes = {c1, c2}
  Tokens = {t1, t2}
  Quotas = {1}
  DefaultQuota = 1
  InviteTTL = 0
  RefreshTTL = 0
  AccessTTL = 1
  MaxNow = 1
  Offered = {"register", "invite", "login", "refresh", "logout"}
  Faults = {"cancel", "stop"}
  Nil = Nil
SYMMETRY Symmetry
INVARIANTS
  LateRefreshFails
  NamesAreUnique
PROPERTIES
  SessionsStayOver
  InvitesAreOneShot
  FoundingEnds
\* Ids, codes, tokens and the clock are bounded: the system may run out of them.
CHECK_DEADLOCK FALSE
