SPECIFICATION Spec
CONSTANTS
  Procs = {p1}
  Accounts = {a1, a2}
  Names = {n1, n2}
  Codes = {c1, c2}
  Tokens = {t1, t2, t3}
  Quotas = {1, 2}
  DefaultQuota = 1
  InviteTTL = 1
  RefreshTTL = 0
  AccessTTL = 1
  MaxNow = 1
  Offered = {"register", "invite", "login", "refresh", "logout", "patch"}
  Faults = {}
  Nil = Nil
SYMMETRY Symmetry
INVARIANTS
  TypeOK
  
  OneTokenPerLogin
PROPERTIES
  OmittedFieldsAreKept
\* Ids, codes, tokens and the clock are bounded: the system may run out of them.
CHECK_DEADLOCK FALSE
