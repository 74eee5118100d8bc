----------------------------- MODULE AuthProofs -----------------------------
(***************************************************************************)
(* Theorems about Auth, from one inductive invariant: what a request has   *)
(* read stays good enough for the calls it still has to make.              *)
(***************************************************************************)
EXTENDS Auth, TLAPS

RequestOK(r) ==
  /\ r.at \in {"read_invite", "read_name", "create"} => r.code \in Codes /\ r.name \in Names
  /\ r.at \in {"read_name", "create", "mark_used"} => r.code \in DOMAIN invites
  /\ r.at \in {"mark_used", "rotate", "issue", "read_user", "write_user"} => r.user \in DOMAIN users
  /\ r.at \in {"read_token", "rotate", "read_logout", "revoke"} => r.token # Nil
  /\ r.token # Nil => r.token \in DOMAIN tokens /\ r.at # "login"
  /\ "quota" \in r.patch \/ r.at = "write_user" => r.quota \in Quotas
  /\ r.late => r.at = "read_token" /\ ~Usable(r.token)

RequestsOK == \A p \in Procs : RequestOK(req[p])

\* No account is credited with two invites, nor will it be: an account whose
\* registration is about to mark an invite holds none, and no other request has it.
Credits ==
  /\ \A c \in DOMAIN invites : invites[c].usedBy # Nil => invites[c].usedBy \in DOMAIN users
  /\ \A c, d \in DOMAIN invites :
       invites[c].usedBy # Nil /\ invites[c].usedBy = invites[d].usedBy => c = d
  /\ \A p \in Procs : req[p].at = "mark_used" =>
       /\ \A c \in DOMAIN invites : invites[c].usedBy # req[p].user
       /\ \A q \in Procs : req[q].at = "mark_used" /\ req[q].user = req[p].user => q = p

TokensOK == \A t \in DOMAIN tokens : tokens[t].user \in DOMAIN users /\ tokens[t].root \in DOMAIN tokens

Inv == TypeOK /\ RequestsOK /\ Credits /\ TokensOK /\ NamesAreUnique

-----------------------------------------------------------------------------
(* Tables grow, and a token that is no good stays so. *)

TablesGrow ==
  /\ DOMAIN users \subseteq DOMAIN users'
  /\ DOMAIN invites \subseteq DOMAIN invites'
  /\ DOMAIN tokens \subseteq DOMAIN tokens'
  /\ \A t \in DOMAIN tokens : ~Usable(t) => ~Usable(t)'

LEMMA RequestKept ==
  ASSUME NEW r, RequestOK(r), TablesGrow
  PROVE  RequestOK(r)'
BY DEF RequestOK, TablesGrow

LEMMA RequestsKept ==
  ASSUME RequestsOK, TablesGrow, NEW p \in Procs, req \in [Procs -> Request],
         NEW r, req' = [req EXCEPT ![p] = r], RequestOK(r)'
  PROVE  RequestsOK'
BY RequestKept DEF RequestsOK

LEMMA IdleOK == Idle \in Request /\ RequestOK(Idle) /\ RequestOK(Idle)' /\ Idle.at = "idle"
BY NilIsNoValue DEF Idle, Request, Places, RequestOK

LEMMA InitInv == Init => Inv
<1> SUFFICES ASSUME Init PROVE Inv
  OBVIOUS
<1>1. TypeOK
  BY IdleOK DEF Init, TypeOK, Table
<1>2. RequestsOK
  BY IdleOK DEF Init, RequestsOK
<1>3. Credits /\ TokensOK /\ NamesAreUnique
  BY IdleOK DEF Init, Credits, TokensOK, NamesAreUnique
<1> QED BY <1>1, <1>2, <1>3 DEF Inv

-----------------------------------------------------------------------------
(* A step that changes requests only. *)

LEMMA OnlyRequestsInv ==
  ASSUME Inv, OnlyRequests, NEW p \in Procs, NEW r \in Request, Goto(p, r),
         RequestOK(r), r.at # "mark_used"
  PROVE  Inv'
<1>1. TypeOK'
  BY DEF Inv, TypeOK, OnlyRequests, Goto
<1>2. TablesGrow /\ RequestOK(r)'
  BY DEF OnlyRequests, TablesGrow, RequestOK, Usable, Expired
<1>3. RequestsOK'
  BY <1>2, RequestsKept DEF Inv, TypeOK, Goto
<1>4. Credits'
  BY DEF Inv, TypeOK, Credits, OnlyRequests, Goto
<1>5. TokensOK' /\ NamesAreUnique'
  BY DEF Inv, TokensOK, NamesAreUnique, OnlyRequests
<1> QED BY <1>1, <1>3, <1>4, <1>5 DEF Inv

LEMMA ReadInv ==
  ASSUME Inv, NEW p \in Procs, NEW place, NEW ok \in BOOLEAN, NEW r, Read(p, place, ok, r),
         ok => r \in Request /\ RequestOK(r) /\ r.at # "mark_used"
  PROVE  Inv'
<1>1. CASE ok
  BY <1>1, OnlyRequestsInv DEF Read
<1>2. CASE ~ok
  BY <1>2, OnlyRequestsInv, IdleOK DEF Read, Answer
<1> QED BY <1>1, <1>2

LEMMA AnswerInv ==
  ASSUME Inv, NEW p \in Procs, Answer(p), OnlyRequests
  PROVE  Inv'
BY OnlyRequestsInv, IdleOK DEF Answer

LEMMA ArrivalsInv ==
  ASSUME Inv, NEW p \in Procs, Arrivals(p)
  PROVE  Inv'
<1>1. ASSUME NEW c \in Codes, NEW n \in Names, Register(p, c, n) PROVE Inv'
  <2> DEFINE r == [Idle EXCEPT !.at = "read_invite", !.code = c, !.name = n]
  <2>1. r \in Request /\ RequestOK(r) /\ r.at # "mark_used"
    BY NilIsNoValue DEF Idle, Request, Places, RequestOK
  <2> QED BY <1>1, <2>1, OnlyRequestsInv DEF Register, Arrive
<1>2. ASSUME NEW n \in Names, Login(p, n) PROVE Inv'
  <2> DEFINE r == [Idle EXCEPT !.at = "login", !.name = n]
  <2>1. r \in Request /\ RequestOK(r) /\ r.at # "mark_used"
    BY NilIsNoValue DEF Idle, Request, Places, RequestOK
  <2> QED BY <1>2, <2>1, OnlyRequestsInv DEF Login, Arrive
<1>3. ASSUME NEW t \in Tokens, Refresh(p, t) PROVE Inv'
  <2> DEFINE r == [Idle EXCEPT !.at = "read_token", !.token = t, !.late = ~Usable(t)]
  <2>1. r \in Request /\ RequestOK(r) /\ r.at # "mark_used"
    <3>1. t \in DOMAIN tokens /\ Usable(t) \in BOOLEAN
      BY <1>3 DEF Refresh, Usable, Inv, TypeOK, Table, Token
    <3> QED BY <3>1, NilIsNoValue DEF Idle, Request, Places, RequestOK
  <2> QED BY <1>3, <2>1, OnlyRequestsInv DEF Refresh, Arrive
<1>4. ASSUME NEW t \in Tokens, Logout(p, t) PROVE Inv'
  <2> DEFINE r == [Idle EXCEPT !.at = "read_logout", !.token = t]
  <2>1. r \in Request /\ RequestOK(r) /\ r.at # "mark_used"
    BY <1>4, NilIsNoValue DEF Logout, Idle, Request, Places, RequestOK
  <2> QED BY <1>4, <2>1, OnlyRequestsInv DEF Logout, Arrive
<1>5. ASSUME NEW by \in Accounts, NEW a \in DOMAIN users,
             NEW patch \in SUBSET {"quota", "disabled"}, NEW quota \in Quotas \cup {Nil},
             NEW disabled \in BOOLEAN, Patch(p, by, a, patch, quota, disabled)
      PROVE  Inv'
  <2> DEFINE r == [Idle EXCEPT !.at = "read_user", !.user = a, !.patch = patch,
                               !.quota = quota, !.disabled = disabled]
  <2>1. a \in Accounts
    BY DEF Inv, TypeOK, Table
  <2>2. r \in Request /\ RequestOK(r) /\ r.at # "mark_used"
    BY <1>5, <2>1, NilIsNoValue DEF Patch, Idle, Request, Places, RequestOK
  <2> QED BY <1>5, <2>2, OnlyRequestsInv DEF Patch, Arrive
<1> QED BY <1>1, <1>2, <1>3, <1>4, <1>5 DEF Arrivals
-----------------------------------------------------------------------------
(* The calls. *)

LEMMA ReadsInv ==
  ASSUME Inv, NEW p \in Procs,
         \/ ReadInvite(p) \/ ReadName(p) \/ NameTaken(p) \/ LoginRefused(p) \/ LoginRead(p)
         \/ ReadToken(p) \/ ReadLogout(p) \/ ReadUser(p)
  PROVE  Inv'
<1> DEFINE r == req[p]
<1>0. r \in Request /\ RequestOK(r)
  BY DEF Inv, TypeOK, RequestsOK
<1>1. CASE ReadInvite(p)
  <2>1. Redeemable(r.code) \in BOOLEAN
    BY DEF Redeemable
  <2>2. r.at = "read_invite" /\ Redeemable(r.code) =>
          /\ At(p, "read_name") \in Request /\ RequestOK(At(p, "read_name"))
          /\ At(p, "read_name").at # "mark_used"
    BY <1>0 DEF At, Request, Places, RequestOK, Redeemable
  <2> QED BY <1>1, <2>1, <2>2, ReadInv DEF ReadInvite, Read
<1>2. CASE ReadName(p)
  <2>1. r.at = "read_name" =>
          /\ At(p, "create") \in Request /\ RequestOK(At(p, "create"))
          /\ At(p, "create").at # "mark_used"
    BY <1>0 DEF At, Request, Places, RequestOK
  <2> QED BY <1>2, <2>1, ReadInv DEF ReadName, Read
<1>3. CASE NameTaken(p) \/ LoginRefused(p)
  BY <1>3, AnswerInv DEF NameTaken, LoginRefused
<1>4. CASE LoginRead(p)
  <2>1. PICK a \in GetByUsername(r.name) : Goto(p, [r EXCEPT !.at = "issue", !.user = a])
    BY <1>4 DEF LoginRead
  <2>2. a \in DOMAIN users /\ a \in Accounts /\ r.at = "login"
    BY <1>4 DEF GetByUsername, Inv, TypeOK, Table, LoginRead
  <2>3. [r EXCEPT !.at = "issue", !.user = a] \in Request
    BY <1>0, <2>2 DEF Request, Places
  <2>4. RequestOK([r EXCEPT !.at = "issue", !.user = a])
    BY <1>0, <2>2 DEF Request, RequestOK
  <2> QED BY <1>0, <1>4, <2>1, <2>3, <2>4, OnlyRequestsInv DEF LoginRead, Request
<1>5. CASE ReadToken(p)
  <2>1. Usable(r.token) \in BOOLEAN
    BY <1>0 DEF Usable
  <2>2. r.at = "read_token" /\ Usable(r.token) =>
          /\ Rotation(p) \in Request /\ RequestOK(Rotation(p)) /\ Rotation(p).at # "mark_used"
    <3> SUFFICES ASSUME r.at = "read_token", Usable(r.token)
                 PROVE  /\ Rotation(p) \in Request /\ RequestOK(Rotation(p))
                        /\ Rotation(p).at # "mark_used"
      OBVIOUS
    <3>1. r.token \in DOMAIN tokens /\ tokens[r.token].user \in Accounts
      BY DEF Usable, Inv, TypeOK, Table, Token
    <3>2. tokens[r.token].user \in DOMAIN users
      BY <3>1 DEF Inv, TokensOK
    <3> QED BY <1>0, <3>1, <3>2 DEF Rotation, Request, Places, RequestOK
  <2> QED BY <1>5, <2>1, <2>2, ReadInv DEF ReadToken, Read
<1>6. CASE ReadLogout(p)
  <2>1. r.at = "read_logout" =>
          /\ At(p, "revoke") \in Request /\ RequestOK(At(p, "revoke"))
          /\ At(p, "revoke").at # "mark_used"
    BY <1>0 DEF At, Request, Places, RequestOK
  <2>2. r.at = "read_logout" => tokens[r.token].revoked \in BOOLEAN
    BY <1>0 DEF RequestOK, Inv, TypeOK, Table, Token
  <2> QED BY <1>6, <2>1, <2>2, ReadInv DEF ReadLogout, Read
<1>7. CASE ReadUser(p)
  <2> DEFINE s == [r EXCEPT !.at = "write_user",
                     !.quota = IF "quota" \in r.patch THEN @ ELSE users[r.user].quota,
                     !.disabled = IF "disabled" \in r.patch THEN @ ELSE users[r.user].disabled]
  <2>1. r.at = "read_user"
    BY <1>7 DEF ReadUser, Read
  <2>2. r.user \in DOMAIN users /\ users[r.user] \in User
    BY <1>0, <2>1 DEF RequestOK, Inv, TypeOK, Table
  <2>3. s \in Request
    <3> DEFINE q == IF "quota" \in r.patch THEN r.quota ELSE users[r.user].quota
               d == IF "disabled" \in r.patch THEN r.disabled ELSE users[r.user].disabled
    <3>1. r \in Request
      BY <1>0
    <3>2. q \in Quotas \cup {Nil} /\ d \in BOOLEAN
      BY <3>1, <2>2 DEF Request, User
    <3>3. s = [r EXCEPT !.at = "write_user", !.quota = q, !.disabled = d]
      OBVIOUS
    <3> HIDE DEF q, d, s
    <3>4. "write_user" \in Places
      BY DEF Places
    <3> QED BY <3>1, <3>2, <3>3, <3>4 DEF Request
  <2>4. RequestOK(s)
    BY <1>0, <2>1, <2>2 DEF RequestOK, Request, User
  <2>5. s.at # "mark_used"
    BY <1>0 DEF Request
  <2>6. Read(p, "read_user", TRUE, s)
    BY <1>7 DEF ReadUser
  <2> HIDE DEF s
  <2> QED BY <2>3, <2>4, <2>5, <2>6, ReadInv
<1> QED BY <1>1, <1>2, <1>3, <1>4, <1>5, <1>6, <1>7

LEMMA CreateUserInv ==
  ASSUME Inv, NEW p \in Procs, CreateUser(p)
  PROVE  Inv'
<1> DEFINE r == req[p]  invite == invites[r.code]
<1>0. r \in Request /\ RequestOK(r) /\ r.at = "create" /\ GetByUsername(r.name) = {}
  BY DEF Inv, TypeOK, RequestsOK, CreateUser
<1>1. invite \in Invite /\ Granted(invite) \in Quotas
  BY <1>0, DefaultIsQuota DEF RequestOK, Inv, TypeOK, Table, Invite, Granted
<1>2. PICK a \in Accounts \ DOMAIN users :
        /\ users' = Insert(users, a, [name |-> r.name, quota |-> Granted(invite),
                                      disabled |-> FALSE, admin |-> invite.admin])
        /\ Goto(p, [r EXCEPT !.at = "mark_used", !.user = a])
        /\ UNCHANGED <<up, invites, tokens, access, now>>
  BY DEF CreateUser, NewUser
<1> DEFINE row == [name |-> r.name, quota |-> Granted(invite), disabled |-> FALSE,
                   admin |-> invite.admin]
<1>3. row \in User
  BY <1>0, <1>1 DEF User, Invite, RequestOK
<1>4. users' = Insert(users, a, row) /\ row.name = r.name /\ Table(users, Accounts, User)
  BY <1>2 DEF Inv, TypeOK
<1>5. PICK s \in Request :
        /\ s = [r EXCEPT !.at = "mark_used", !.user = a]
        /\ s.at = "mark_used" /\ s.user = a /\ s.code = r.code /\ s.late = r.late
        /\ s.token = r.token /\ s.patch = r.patch /\ s.quota = r.quota
  <2> DEFINE z == [r EXCEPT !.at = "mark_used", !.user = a]
  <2>1. /\ z \in Request /\ z.at = "mark_used" /\ z.user = a /\ z.code = r.code
        /\ z.late = r.late /\ z.token = r.token /\ z.patch = r.patch /\ z.quota = r.quota
    BY <1>0 DEF Request, Places
  <2> QED BY <2>1, Zenon
<1>6. \A q \in Procs : req'[q] = IF q = p THEN s ELSE req[q]
  BY <1>2, <1>5 DEF Goto, Inv, TypeOK
<1>7. req' = [req EXCEPT ![p] = s]
  BY <1>2, <1>5 DEF Goto
<1> HIDE DEF row
<1>8. /\ Table(users', Accounts, User) /\ DOMAIN users' = DOMAIN users \cup {a}
      /\ users'[a] = row /\ \A x \in DOMAIN users : users'[x] = users[x]
  BY <1>3, <1>4 DEF Table, Insert
<1>9. TypeOK'
  BY <1>2, <1>5, <1>7, <1>8 DEF Inv, TypeOK
<1>10. TablesGrow
  BY <1>2, <1>8 DEF TablesGrow, Usable, Expired
<1>11. RequestOK(s)'
  BY <1>0, <1>2, <1>5, <1>8 DEF RequestOK
<1>12. RequestsOK'
  BY <1>7, <1>10, <1>11, RequestsKept DEF Inv, TypeOK
<1>13. Credits'
  <2>1. \A c \in DOMAIN invites : invites[c].usedBy # a
    BY <1>2, NilIsNoValue DEF Inv, Credits
  <2>2. \A q \in Procs : req[q].at = "mark_used" => req[q].user # a
    BY <1>2 DEF Inv, RequestsOK, RequestOK
  <2>3. ASSUME NEW q \in Procs, req'[q].at = "mark_used"
        PROVE  /\ \A c \in DOMAIN invites : invites[c].usedBy # req'[q].user
               /\ \A o \in Procs : req'[o].at = "mark_used" /\ req'[o].user = req'[q].user => o = q
    <3>1. CASE q = p
      BY <1>5, <1>6, <2>1, <2>2, <3>1
    <3>2. CASE q # p
      <4>1. req'[q] = req[q] /\ req[q].at = "mark_used" /\ req[q].user # a
        BY <1>6, <2>2, <2>3, <3>2
      <4>2. /\ \A c \in DOMAIN invites : invites[c].usedBy # req[q].user
            /\ \A o \in Procs : req[o].at = "mark_used" /\ req[o].user = req[q].user => o = q
        BY <4>1 DEF Inv, Credits
      <4> QED BY <1>5, <1>6, <4>1, <4>2
    <3> QED BY <3>1, <3>2
  <2> QED BY <1>2, <1>8, <2>3 DEF Inv, Credits
<1>14. TokensOK'
  BY <1>2, <1>8 DEF Inv, TokensOK
<1>15. NamesAreUnique'
  <2>1. \A b \in DOMAIN users : users[b].name # r.name
    BY <1>0 DEF GetByUsername
  <2> QED BY <1>4, <1>8, <2>1 DEF Inv, NamesAreUnique
<1> QED BY <1>9, <1>12, <1>13, <1>14, <1>15 DEF Inv

LEMMA MarkUsedInv ==
  ASSUME Inv, NEW p \in Procs, MarkUsed(p)
  PROVE  Inv'
<1> DEFINE r == req[p]
<1>0. r \in Request /\ RequestOK(r) /\ r.at = "mark_used"
  BY DEF Inv, TypeOK, RequestsOK, MarkUsed
<1>1. r.code \in DOMAIN invites /\ r.user \in DOMAIN users /\ r.user \in Accounts
  BY <1>0 DEF RequestOK, Inv, TypeOK, Table
<1>2. CASE invites[r.code].usedBy # Nil
  <2>1. OnlyRequests
    BY <1>2 DEF MarkUsed, OnlyRequests
  <2> QED BY <2>1, AnswerInv DEF MarkUsed
<1>3. CASE invites[r.code].usedBy = Nil
  <2>1. /\ invites' = [invites EXCEPT ![r.code].usedBy = r.user]
        /\ req' = [req EXCEPT ![p] = Idle]
        /\ UNCHANGED <<up, users, tokens, access, now>>
    BY <1>3 DEF MarkUsed, Answer, Goto
  <2>2. /\ Table(invites', Codes, Invite) /\ DOMAIN invites' = DOMAIN invites
        /\ \A c \in DOMAIN invites :
             invites'[c].usedBy = IF c = r.code THEN r.user ELSE invites[c].usedBy
    BY <1>1, <2>1 DEF Inv, TypeOK, Table, Invite
  <2>3. TypeOK'
    BY <2>1, <2>2, IdleOK DEF Inv, TypeOK
  <2>4. TablesGrow
    BY <2>1, <2>2 DEF TablesGrow, Usable, Expired
  <2>5. RequestsOK'
    BY <2>1, <2>4, IdleOK, RequestsKept DEF Inv, TypeOK
  <2>6. Credits'
    <3>1. \A q \in Procs : req'[q] = IF q = p THEN Idle ELSE req[q]
      BY <2>1 DEF Inv, TypeOK
    <3>2. \A c \in DOMAIN invites : invites[c].usedBy # r.user
      BY <1>0 DEF Inv, Credits
    <3>3. \A q \in Procs : req'[q].at = "mark_used" =>
            q # p /\ req'[q] = req[q] /\ req[q].user # r.user
      BY <1>0, <3>1, IdleOK DEF Inv, Credits
    <3> QED BY <1>1, <2>1, <2>2, <3>2, <3>3 DEF Inv, Credits
  <2>7. TokensOK' /\ NamesAreUnique'
    BY <2>1 DEF Inv, TokensOK, NamesAreUnique
  <2> QED BY <2>3, <2>5, <2>6, <2>7 DEF Inv
<1> QED BY <1>2, <1>3

LEMMA RevokeInv ==
  ASSUME Inv, NEW p \in Procs, NEW r \in Request, Goto(p, r), RequestOK(r),
         r.at # "mark_used", req[p].token \in DOMAIN tokens, Revoke(req[p].token),
         UNCHANGED <<up, users, invites, access, now>>
  PROVE  Inv'
<1> DEFINE t == req[p].token
<1>1. /\ Table(tokens', Tokens, Token) /\ DOMAIN tokens' = DOMAIN tokens
      /\ \A u \in DOMAIN tokens :
           /\ tokens'[u].user = tokens[u].user /\ tokens'[u].root = tokens[u].root
           /\ tokens'[u].expires = tokens[u].expires
           /\ tokens'[u].revoked = IF u = t THEN TRUE ELSE tokens[u].revoked
  BY DEF Inv, TypeOK, Table, Token, Revoke
<1>2. TypeOK'
  BY <1>1 DEF Inv, TypeOK, Goto
<1>3. \A u : ~Usable(u) => ~Usable(u)'
  BY <1>1 DEF Usable, Expired
<1>4. TablesGrow /\ RequestOK(r)'
  BY <1>1, <1>3 DEF TablesGrow, RequestOK
<1>5. RequestsOK'
  BY <1>4, RequestsKept DEF Inv, TypeOK, Goto
<1>6. Credits'
  BY DEF Inv, TypeOK, Credits, Goto
<1>7. TokensOK' /\ NamesAreUnique'
  BY <1>1 DEF Inv, TokensOK, NamesAreUnique
<1> QED BY <1>2, <1>5, <1>6, <1>7 DEF Inv

LEMMA RotateInv ==
  ASSUME Inv, NEW p \in Procs, Rotate(p) \/ RevokeLogout(p)
  PROVE  Inv'
<1>0. /\ req[p] \in Request /\ RequestOK(req[p]) /\ req[p].at \in {"rotate", "revoke"}
  BY DEF Inv, TypeOK, RequestsOK, Rotate, RevokeLogout
<1>1. req[p].token \in DOMAIN tokens
  BY <1>0 DEF RequestOK
<1>2. CASE Rotate(p)
  <2>1. /\ At(p, "issue") \in Request /\ RequestOK(At(p, "issue"))
        /\ At(p, "issue").at # "mark_used"
    BY <1>0, <1>2 DEF At, Request, Places, RequestOK, Rotate
  <2> QED BY <1>1, <1>2, <2>1, RevokeInv DEF Rotate
<1>3. CASE RevokeLogout(p)
  BY <1>1, <1>3, RevokeInv, IdleOK DEF RevokeLogout, Answer
<1> QED BY <1>2, <1>3
LEMMA IssueInv ==
  ASSUME Inv, NEW p \in Procs, Issue(p)
  PROVE  Inv'
<1> DEFINE r == req[p]
<1>0. r \in Request /\ RequestOK(r) /\ r.at = "issue"
  BY DEF Inv, TypeOK, RequestsOK, Issue
<1>1. r.user \in DOMAIN users /\ r.user \in Accounts
  BY <1>0 DEF RequestOK, Inv, TypeOK, Table
<1>2. PICK t \in Tokens \ DOMAIN tokens :
        tokens' = Insert(tokens, t,
          [user |-> r.user, expires |-> now + RefreshTTL, revoked |-> FALSE,
           root |-> IF r.token = Nil THEN t ELSE tokens[r.token].root])
  BY DEF Issue
<1> DEFINE row == [user |-> r.user, expires |-> now + RefreshTTL, revoked |-> FALSE,
                   root |-> IF r.token = Nil THEN t ELSE tokens[r.token].root]
<1>3. row \in Token /\ row.user = r.user /\ row.root \in DOMAIN tokens \cup {t}
  <2>1. r.token # Nil => tokens[r.token].root \in DOMAIN tokens /\ r.token \in DOMAIN tokens
    BY <1>0 DEF RequestOK, Inv, TokensOK
  <2> QED BY <1>1, <2>1, TimesAreNat DEF Inv, TypeOK, Table, Token
<1>4. tokens' = Insert(tokens, t, row) /\ Table(tokens, Tokens, Token)
  BY <1>2 DEF Inv, TypeOK
<1> HIDE DEF row
<1>5. /\ Table(tokens', Tokens, Token) /\ DOMAIN tokens' = DOMAIN tokens \cup {t}
      /\ tokens'[t] = row /\ \A u \in DOMAIN tokens : tokens'[u] = tokens[u]
  BY <1>3, <1>4 DEF Table, Insert
<1>6. req' = [req EXCEPT ![p] = Idle] /\ UNCHANGED <<up, users, invites, now>>
  BY DEF Issue, Answer, Goto
<1>7. TypeOK'
  BY <1>1, <1>5, <1>6, IdleOK, TimesAreNat DEF Inv, TypeOK, Issue
<1>8. TablesGrow
  BY <1>5, <1>6 DEF TablesGrow, Usable, Expired
<1>9. RequestsOK'
  BY <1>6, <1>8, IdleOK, RequestsKept DEF Inv, TypeOK
<1>10. Credits'
  BY <1>6, IdleOK DEF Inv, TypeOK, Credits
<1>11. TokensOK'
  BY <1>1, <1>3, <1>5, <1>6 DEF Inv, TokensOK
<1>12. NamesAreUnique'
  BY <1>6 DEF Inv, NamesAreUnique
<1> QED BY <1>7, <1>9, <1>10, <1>11, <1>12 DEF Inv

LEMMA WriteUserInv ==
  ASSUME Inv, NEW p \in Procs, WriteUser(p)
  PROVE  Inv'
<1> DEFINE r == req[p]
<1>0. r \in Request /\ RequestOK(r) /\ r.at = "write_user"
  BY DEF Inv, TypeOK, RequestsOK, WriteUser
<1>1. r.user \in DOMAIN users /\ r.quota \in Quotas /\ r.disabled \in BOOLEAN
  BY <1>0 DEF RequestOK, Request
<1>2. /\ Table(users', Accounts, User) /\ DOMAIN users' = DOMAIN users
      /\ \A a \in DOMAIN users : users'[a].name = users[a].name
  BY <1>1 DEF Inv, TypeOK, Table, User, WriteUser
<1>3. req' = [req EXCEPT ![p] = Idle] /\ UNCHANGED <<up, invites, tokens, access, now>>
  BY DEF WriteUser, Answer, Goto
<1>4. TypeOK'
  BY <1>2, <1>3, IdleOK DEF Inv, TypeOK
<1>5. TablesGrow
  BY <1>2, <1>3 DEF TablesGrow, Usable, Expired
<1>6. RequestsOK'
  BY <1>3, <1>5, IdleOK, RequestsKept DEF Inv, TypeOK
<1>7. Credits'
  BY <1>2, <1>3, IdleOK DEF Inv, TypeOK, Credits
<1>8. TokensOK' /\ NamesAreUnique'
  BY <1>2, <1>3 DEF Inv, TokensOK, NamesAreUnique
<1> QED BY <1>4, <1>6, <1>7, <1>8 DEF Inv

LEMMA CallsInv ==
  ASSUME Inv, NEW p \in Procs, Calls(p)
  PROVE  Inv'
BY ReadsInv, CreateUserInv, MarkUsedInv, RotateInv, IssueInv, WriteUserInv DEF Calls

-----------------------------------------------------------------------------
(* The server and the clock. *)

LEMMA NewInviteInv ==
  ASSUME Inv, NEW c \in Codes, NEW by \in Accounts \cup {Nil}, NEW admin \in BOOLEAN,
         NEW quota \in Quotas \cup {Nil}, NewInvite(c, by, admin, quota), up' \in BOOLEAN,
         UNCHANGED <<users, tokens, access, req, now>>
  PROVE  Inv'
<1> DEFINE row == [by |-> by, admin |-> admin, quota |-> quota,
                   expires |-> now + InviteTTL, usedBy |-> Nil]
<1>1. row \in Invite /\ row.usedBy = Nil
  BY TimesAreNat DEF Invite, Inv, TypeOK
<1>2. invites' = Insert(invites, c, row) /\ Table(invites, Codes, Invite)
  BY DEF NewInvite, Inv, TypeOK
<1> HIDE DEF row
<1>3. /\ Table(invites', Codes, Invite) /\ DOMAIN invites' = DOMAIN invites \cup {c}
      /\ invites'[c] = row /\ \A d \in DOMAIN invites : d # c => invites'[d] = invites[d]
  BY <1>1, <1>2 DEF Table, Insert
<1>4. c \notin DOMAIN invites
  BY DEF NewInvite
<1>5. TypeOK'
  BY <1>3 DEF Inv, TypeOK
<1>6. TablesGrow
  BY <1>3 DEF TablesGrow, Usable, Expired
<1>7. RequestsOK'
  BY <1>6, RequestKept DEF Inv, RequestsOK
<1>8. Credits'
  <2>1. \A d \in DOMAIN invites' : invites'[d].usedBy # Nil =>
          d \in DOMAIN invites /\ invites'[d] = invites[d]
    BY <1>1, <1>3, <1>4
  <2>2. \A p \in Procs : req[p].at = "mark_used" => req[p].user # Nil
    BY NilIsNoValue DEF Inv, TypeOK, Table, RequestsOK, RequestOK
  <2> QED BY <1>1, <1>3, <1>4, <2>1, <2>2 DEF Inv, Credits
<1>9. TokensOK' /\ NamesAreUnique'
  BY DEF Inv, TokensOK, NamesAreUnique
<1> QED BY <1>5, <1>7, <1>8, <1>9 DEF Inv

LEMMA ServerInv ==
  ASSUME Inv, Boot \/ Stop \/ Tick \/ UNCHANGED vars
  PROVE  Inv'
<1>1. CASE Boot
  <2>1. CASE DOMAIN users = {}
    BY <1>1, <2>1, NewInviteInv DEF Boot
  <2>2. CASE DOMAIN users # {}
    <3>1. UNCHANGED <<users, invites, tokens, access, req, now>> /\ up' = TRUE
      BY <1>1, <2>2 DEF Boot
    <3>2. TablesGrow
      BY <3>1 DEF TablesGrow, Usable, Expired
    <3>3. RequestsOK'
      BY <3>1, <3>2, RequestKept DEF Inv, RequestsOK
    <3> QED BY <3>1, <3>3 DEF Inv, TypeOK, Credits, TokensOK, NamesAreUnique
  <2> QED BY <2>1, <2>2
<1>2. CASE Stop
  <2>1. /\ UNCHANGED <<users, invites, tokens, access, now>> /\ up' = FALSE
        /\ req' = [p \in Procs |-> Idle]
    BY <1>2 DEF Stop
  <2>2. RequestsOK'
    BY <2>1, IdleOK DEF RequestsOK
  <2> QED BY <2>1, <2>2, IdleOK DEF Inv, TypeOK, Credits, TokensOK, NamesAreUnique
<1>3. CASE Tick
  <2>1. UNCHANGED <<up, users, invites, tokens, access, req>> /\ now' = now + 1
    BY <1>3 DEF Tick
  <2>2. TablesGrow
    BY <2>1 DEF TablesGrow, Usable, Expired, Inv, TypeOK, Table, Token
  <2>3. RequestsOK'
    BY <2>1, <2>2, RequestKept DEF Inv, RequestsOK
  <2> QED BY <2>1, <2>3 DEF Inv, TypeOK, Credits, TokensOK, NamesAreUnique
<1>4. CASE UNCHANGED vars
  <2>1. TablesGrow
    BY <1>4 DEF vars, TablesGrow, Usable, Expired
  <2>2. RequestsOK'
    BY <1>4, <2>1, RequestKept DEF vars, Inv, RequestsOK
  <2> QED BY <1>4, <2>2 DEF vars, Inv, TypeOK, Credits, TokensOK, NamesAreUnique
<1> QED BY <1>1, <1>2, <1>3, <1>4

LEMMA NextInv ==
  ASSUME Inv, [Next]_vars
  PROVE  Inv'
<1>1. ASSUME NEW by \in Accounts, NEW c \in Codes, NEW quota \in Quotas \cup {Nil},
             CreateInvite(by, c, quota)
      PROVE  Inv'
  BY <1>1, NewInviteInv DEF CreateInvite, Inv, TypeOK
<1>2. ASSUME NEW p \in Procs, Cancel(p) PROVE Inv'
  BY <1>2, AnswerInv DEF Cancel
<1> QED BY <1>1, <1>2, ArrivalsInv, CallsInv, ServerInv DEF Next

LEMMA Invariance == Spec => []Inv
<1>1. Init => Inv
  BY InitInv
<1>2. Inv /\ [Next]_vars => Inv'
  BY NextInv
<1> QED BY <1>1, <1>2, PTL DEF Spec
-----------------------------------------------------------------------------
(* Each variable keeps its type, whatever is offered and whatever fails. *)
THEOREM AuthTypeCorrect == Spec => []TypeOK
<1>1. Inv => TypeOK
  BY DEF Inv
<1> QED BY <1>1, Invariance, PTL

(* Two accounts never have one name (Register's look-up and insert are apart). *)
THEOREM UniqueNames == Spec => []NamesAreUnique
<1>1. Inv => NamesAreUnique
  BY DEF Inv
<1> QED BY <1>1, Invariance, PTL

(* A refresh that came in with a dead token rotates nothing and issues nothing. *)
THEOREM LateRefreshesFail == Spec => []LateRefreshFails
<1>1. Inv => LateRefreshFails
  BY DEF Inv, RequestsOK, RequestOK, LateRefreshFails
<1> QED BY <1>1, Invariance, PTL

-----------------------------------------------------------------------------
(* The end of the founding: what steps do to the admins among the accounts,   *)
(* to the invites, and to the requests that are past the check of an invite.   *)

AdminsStay == DOMAIN users \subseteq DOMAIN users' /\ Admins' = Admins

InvitesFade ==
  /\ DOMAIN invites \subseteq DOMAIN invites'
  /\ \A c \in DOMAIN invites : invites'[c].admin = invites[c].admin
  /\ \A c \in Codes : Redeemable(c)' => Redeemable(c) \/ ~invites'[c].admin

PastCheck(r) == r.at \in {"read_name", "create"}

ChecksHold ==
  \A p \in Procs : PastCheck(req'[p]) =>
    \/ PastCheck(req[p]) /\ req'[p].code = req[p].code
    \/ Redeemable(req'[p].code) /\ req'[p].code \in Codes

LEMMA FoundingFrame ==
  ASSUME Inv, ~Founding, AdminsStay, InvitesFade, ChecksHold
  PROVE  ~Founding' /\ Admins' = Admins
<1>1. /\ DOMAIN users # {} /\ \A c \in Codes : Redeemable(c) => ~invites[c].admin
      /\ \A p \in Procs : PastCheck(req[p]) => ~invites[req[p].code].admin
  BY DEF Founding, PastCheck
<1>2. \A p \in Procs : PastCheck(req[p]) => req[p].code \in DOMAIN invites
  BY DEF Inv, RequestsOK, RequestOK, PastCheck
<1>3. \A c \in Codes : Redeemable(c) => c \in DOMAIN invites
  BY DEF Redeemable
<1>4. \A p \in Procs : PastCheck(req'[p]) => ~invites'[req'[p].code].admin
  BY <1>1, <1>2, <1>3 DEF InvitesFade, ChecksHold
<1>5. \A c \in Codes : Redeemable(c)' => ~invites'[c].admin
  BY <1>1, <1>3 DEF InvitesFade
<1> QED BY <1>1, <1>4, <1>5 DEF AdminsStay, Founding, PastCheck

LEMMA GotoChecks ==
  ASSUME Inv, NEW p \in Procs, NEW r, Goto(p, r),
         PastCheck(r) =>
           \/ PastCheck(req[p]) /\ r.code = req[p].code
           \/ Redeemable(r.code) /\ r.code \in Codes
  PROVE  ChecksHold
BY DEF ChecksHold, Goto, Inv, TypeOK

LEMMA IdleChecks == ~PastCheck(Idle)
BY DEF PastCheck, Idle

LEMMA OnlyRequestsFade ==
  ASSUME Inv, UNCHANGED <<users, invites, now>>
  PROVE  AdminsStay /\ InvitesFade
BY DEF AdminsStay, Admins, InvitesFade, Redeemable, Expired

LEMMA ArrivalsCheck ==
  ASSUME Inv, NEW p \in Procs, Arrivals(p)
  PROVE  ChecksHold /\ OnlyRequests
<1>1. PICK r : Goto(p, r) /\ ~PastCheck(r) /\ OnlyRequests
  BY DEF Arrivals, Register, Login, Refresh, Logout, Patch, Arrive, PastCheck, Idle
<1> QED BY <1>1, GotoChecks

LEMMA ReadsCheck ==
  ASSUME Inv, NEW p \in Procs,
         \/ ReadInvite(p) \/ ReadName(p) \/ NameTaken(p) \/ LoginRefused(p) \/ LoginRead(p)
         \/ ReadToken(p) \/ ReadLogout(p) \/ ReadUser(p) \/ Cancel(p)
  PROVE  ChecksHold /\ OnlyRequests
<1> DEFINE r == req[p]
<1>0. r \in Request /\ RequestOK(r)
  BY DEF Inv, TypeOK, RequestsOK
<1>1. CASE Answer(p) /\ OnlyRequests
  BY <1>1, GotoChecks, IdleChecks DEF Answer
<1>2. CASE ReadInvite(p)
  <2>1. CASE Redeemable(r.code)
    <3>1. /\ Goto(p, At(p, "read_name")) /\ At(p, "read_name").code = r.code
          /\ r.code \in Codes /\ OnlyRequests
      BY <1>0, <1>2, <2>1 DEF ReadInvite, Read, At, Request, RequestOK
    <3> QED BY <2>1, <3>1, GotoChecks
  <2>2. CASE ~Redeemable(r.code)
    BY <1>1, <1>2, <2>2 DEF ReadInvite, Read
  <2> QED BY <2>1, <2>2
<1>3. CASE ReadName(p)
  <2>1. CASE GetByUsername(r.name) = {}
    <3>1. /\ Goto(p, At(p, "create")) /\ At(p, "create").code = r.code /\ OnlyRequests
          /\ r.at = "read_name"
      BY <1>0, <1>3, <2>1 DEF ReadName, Read, At, Request
    <3> QED BY <3>1, GotoChecks DEF PastCheck
  <2>2. CASE GetByUsername(r.name) # {}
    BY <1>1, <1>3, <2>2 DEF ReadName, Read
  <2> QED BY <2>1, <2>2
<1>4. CASE NameTaken(p) \/ LoginRefused(p) \/ Cancel(p)
  BY <1>1, <1>4 DEF NameTaken, LoginRefused, Cancel
<1>5. CASE LoginRead(p)
  <2>1. PICK s : Goto(p, s) /\ s.at = "issue" /\ OnlyRequests
    BY <1>0, <1>5 DEF LoginRead, Request
  <2> QED BY <2>1, GotoChecks DEF PastCheck
<1>6. CASE ReadToken(p) \/ ReadLogout(p) \/ ReadUser(p)
  <2>1. PICK s : Goto(p, s) /\ s.at \in {"idle", "rotate", "revoke", "write_user"} /\ OnlyRequests
    <3>1. CASE ReadToken(p)
      BY <1>0, <3>1 DEF ReadToken, Read, Answer, Idle, Rotation, Request
    <3>2. CASE ReadLogout(p)
      BY <1>0, <3>2 DEF ReadLogout, Read, Answer, Idle, At, Request
    <3>3. CASE ReadUser(p)
      BY <1>0, <3>3 DEF ReadUser, Read, Request
    <3> QED BY <1>6, <3>1, <3>2, <3>3
  <2> QED BY <2>1, GotoChecks DEF PastCheck
<1> QED BY <1>2, <1>3, <1>4, <1>5, <1>6
LEMMA NewInviteFades ==
  ASSUME Inv, NEW c \in Codes, NEW by, NEW quota, NewInvite(c, by, FALSE, quota), UNCHANGED now
  PROVE  InvitesFade
<1>1. /\ DOMAIN invites' = DOMAIN invites \cup {c} /\ c \notin DOMAIN invites
      /\ ~invites'[c].admin /\ \A d \in DOMAIN invites : invites'[d] = invites[d]
  BY DEF NewInvite, Insert
<1> QED BY <1>1 DEF InvitesFade, Redeemable, Expired

LEMMA FoundingStep ==
  ASSUME Inv, [Next]_vars, ~Founding
  PROVE  ~Founding' /\ Admins' = Admins
<1> SUFFICES AdminsStay /\ InvitesFade /\ ChecksHold
  BY FoundingFrame
<1>1. ASSUME NEW p \in Procs, Arrivals(p) PROVE AdminsStay /\ InvitesFade /\ ChecksHold
  BY <1>1, ArrivalsCheck, OnlyRequestsFade DEF OnlyRequests
<1>2. ASSUME NEW p \in Procs,
             \/ ReadInvite(p) \/ ReadName(p) \/ NameTaken(p) \/ LoginRefused(p) \/ LoginRead(p)
             \/ ReadToken(p) \/ ReadLogout(p) \/ ReadUser(p) \/ Cancel(p)
      PROVE  AdminsStay /\ InvitesFade /\ ChecksHold
  BY <1>2, ReadsCheck, OnlyRequestsFade DEF OnlyRequests
<1>3. ASSUME NEW p \in Procs, CreateUser(p) PROVE AdminsStay /\ InvitesFade /\ ChecksHold
  <2> DEFINE r == req[p]
  <2>1. PICK a \in Accounts \ DOMAIN users :
          /\ users' = Insert(users, a, [name |-> r.name, quota |-> Granted(invites[r.code]),
                                        disabled |-> FALSE, admin |-> invites[r.code].admin])
          /\ Goto(p, [r EXCEPT !.at = "mark_used", !.user = a])
          /\ UNCHANGED <<invites, now>>
    BY <1>3 DEF CreateUser, NewUser
  <2>2. r \in Request /\ r.at = "create"
    BY <1>3 DEF CreateUser, Inv, TypeOK
  <2>3. ~invites[r.code].admin
    BY <2>2 DEF Founding
  <2>4. /\ DOMAIN users' = DOMAIN users \cup {a} /\ users'[a].admin = invites[r.code].admin
        /\ \A b \in DOMAIN users : users'[b] = users[b]
    BY <2>1 DEF Insert
  <2>5. AdminsStay
    BY <2>3, <2>4 DEF AdminsStay, Admins
  <2>6. InvitesFade
    BY <2>1 DEF InvitesFade, Redeemable, Expired
  <2>7. ~PastCheck([r EXCEPT !.at = "mark_used", !.user = a])
    BY <2>2 DEF PastCheck, Request
  <2>8. ChecksHold
    BY <2>1, <2>7, GotoChecks
  <2> QED BY <2>5, <2>6, <2>8
<1>4. ASSUME NEW p \in Procs, MarkUsed(p) PROVE AdminsStay /\ InvitesFade /\ ChecksHold
  <2>1. req[p].code \in DOMAIN invites /\ req[p].user \in DOMAIN users
    BY <1>4 DEF MarkUsed, Inv, RequestsOK, RequestOK
  <2>2. req[p].user # Nil
    BY <2>1, NilIsNoValue DEF Inv, TypeOK, Table
  <2>3. InvitesFade
    BY <1>4, <2>1, <2>2 DEF MarkUsed, InvitesFade, Redeemable, Expired, Inv, TypeOK, Table, Invite
  <2>4. AdminsStay
    BY <1>4 DEF MarkUsed, AdminsStay, Admins
  <2>5. ChecksHold
    BY <1>4, GotoChecks, IdleChecks DEF MarkUsed, Answer
  <2> QED BY <2>3, <2>4, <2>5
<1>5. ASSUME NEW p \in Procs, Rotate(p) \/ RevokeLogout(p) \/ Issue(p)
      PROVE  AdminsStay /\ InvitesFade /\ ChecksHold
  <2>1. UNCHANGED <<users, invites, now>>
    BY <1>5 DEF Rotate, RevokeLogout, Issue
  <2>2. PICK s : Goto(p, s) /\ s.at \in {"idle", "issue"}
    BY <1>5 DEF Rotate, RevokeLogout, Issue, Answer, Idle, At, Inv, TypeOK, Request
  <2>3. ChecksHold
    BY <2>2, GotoChecks DEF PastCheck
  <2> QED BY <2>1, <2>3, OnlyRequestsFade
<1>6. ASSUME NEW p \in Procs, WriteUser(p) PROVE AdminsStay /\ InvitesFade /\ ChecksHold
  <2>1. req[p].user \in DOMAIN users
    BY <1>6 DEF WriteUser, Inv, RequestsOK, RequestOK
  <2>2. DOMAIN users' = DOMAIN users /\ \A a \in DOMAIN users : users'[a].admin = users[a].admin
    BY <1>6, <2>1 DEF WriteUser, Inv, TypeOK, Table, User
  <2>3. AdminsStay
    BY <2>2 DEF AdminsStay, Admins
  <2>4. InvitesFade
    BY <1>6 DEF WriteUser, InvitesFade, Redeemable, Expired
  <2>5. ChecksHold
    BY <1>6, GotoChecks, IdleChecks DEF WriteUser, Answer
  <2> QED BY <2>3, <2>4, <2>5
<1>7. CASE Boot \/ UNCHANGED vars
  <2>1. DOMAIN users # {}
    BY DEF Founding
  <2>2. UNCHANGED <<users, invites, now, req>>
    BY <1>7, <2>1 DEF Boot, vars
  <2> QED BY <2>2, OnlyRequestsFade DEF ChecksHold
<1>8. CASE Stop
  <2>1. UNCHANGED <<users, invites, now>> /\ req' = [p \in Procs |-> Idle]
    BY <1>8 DEF Stop
  <2> QED BY <2>1, OnlyRequestsFade, IdleChecks DEF ChecksHold
<1>9. CASE Tick
  <2>1. UNCHANGED <<users, invites, req>> /\ now' = now + 1
    BY <1>9 DEF Tick
  <2>2. InvitesFade
    BY <2>1 DEF InvitesFade, Redeemable, Expired, Inv, TypeOK, Table, Invite
  <2> QED BY <2>1, <2>2 DEF AdminsStay, Admins, ChecksHold
<1>10. ASSUME NEW by \in Accounts, NEW c \in Codes, NEW quota \in Quotas \cup {Nil},
              CreateInvite(by, c, quota)
       PROVE  AdminsStay /\ InvitesFade /\ ChecksHold
  BY <1>10, NewInviteFades DEF CreateInvite, AdminsStay, Admins, ChecksHold
<1> QED BY <1>1, <1>2, <1>3, <1>4, <1>5, <1>6, <1>7, <1>8, <1>9, <1>10 DEF Next, Calls

(* Once the founding is over, restarts, registrations and invites make no     *)
(* other admin, and no way to one.                                             *)
THEOREM AdminsAreFounders == Spec => FoundingEnds
<1>1. Inv /\ [Next]_vars => [~Founding => ~Founding' /\ Admins' = Admins]_vars
  BY FoundingStep
<1> QED BY <1>1, Invariance, PTL DEF Spec, FoundingEnds

-----------------------------------------------------------------------------
(* Auth implements Invitation. *)

LEMMA PromiseInit == Init => Promise!Init
BY DEF Init, Promise!Init, RedeemedBy

LEMMA NewInvitePromise ==
  ASSUME Inv, NEW c \in Codes, NEW by, NEW admin, NEW quota, NewInvite(c, by, admin, quota)
  PROVE  Promise!Next
<1>1. /\ DOMAIN invites' = DOMAIN invites \cup {c} /\ c \notin DOMAIN invites
      /\ invites'[c].usedBy = Nil /\ \A d \in DOMAIN invites : invites'[d] = invites[d]
  BY DEF NewInvite, Insert
<1>2. UNCHANGED RedeemedBy
  BY <1>1 DEF RedeemedBy
<1>3. Promise!Issue(c)
  BY <1>1, <1>2 DEF Promise!Issue
<1> QED BY <1>3 DEF Promise!Next

LEMMA MarkUsedPromise ==
  ASSUME Inv, NEW p \in Procs, MarkUsed(p)
  PROVE  Promise!Next \/ UNCHANGED <<DOMAIN invites, RedeemedBy>>
<1> DEFINE c == req[p].code  a == req[p].user
<1>1. c \in DOMAIN invites /\ c \in Codes /\ a \in DOMAIN users /\ a \in Accounts /\ a # Nil
  BY NilIsNoValue DEF MarkUsed, Inv, RequestsOK, RequestOK, TypeOK, Table
<1>2. CASE invites[c].usedBy # Nil
  BY <1>2 DEF MarkUsed, RedeemedBy
<1>3. CASE invites[c].usedBy = Nil
  <2>1. /\ DOMAIN invites' = DOMAIN invites
        /\ \A d \in DOMAIN invites :
             invites'[d].usedBy = IF d = c THEN a ELSE invites[d].usedBy
    BY <1>1, <1>3 DEF MarkUsed, Inv, TypeOK, Table, Invite
  <2>2. \A d \in DOMAIN invites : invites[d].usedBy # a
    BY DEF MarkUsed, Inv, Credits
  <2>3. c \notin DOMAIN RedeemedBy /\ \A d \in DOMAIN RedeemedBy : RedeemedBy[d] # a
    BY <1>3, <2>2 DEF RedeemedBy
  <2>4. RedeemedBy' = [d \in DOMAIN RedeemedBy \cup {c} |-> IF d = c THEN a ELSE RedeemedBy[d]]
    BY <1>1, <1>3, <2>1 DEF RedeemedBy
  <2>5. Promise!Redeem(c, a)
    BY <1>1, <2>1, <2>3, <2>4 DEF Promise!Redeem
  <2> QED BY <1>1, <2>5 DEF Promise!Next
<1> QED BY <1>2, <1>3

LEMMA PromiseStep ==
  ASSUME Inv, [Next]_vars
  PROVE  Promise!Next \/ UNCHANGED <<DOMAIN invites, RedeemedBy>>
<1>1. UNCHANGED invites => UNCHANGED <<DOMAIN invites, RedeemedBy>>
  BY DEF RedeemedBy
<1>2. ASSUME NEW p \in Procs, Arrivals(p) \/ Cancel(p) PROVE UNCHANGED invites
  BY <1>2, ArrivalsCheck DEF Cancel, OnlyRequests
<1>3. ASSUME NEW p \in Procs, Calls(p), ~MarkUsed(p) PROVE UNCHANGED invites
  BY <1>3, ReadsCheck DEF Calls, OnlyRequests, CreateUser, NewUser, Rotate, RevokeLogout, Issue, WriteUser
<1>4. CASE Boot \/ Stop \/ Tick \/ UNCHANGED vars
  BY <1>1, <1>4, NewInvitePromise DEF Boot, Stop, Tick, vars
<1>5. ASSUME NEW by \in Accounts, NEW c \in Codes, NEW quota \in Quotas \cup {Nil},
             CreateInvite(by, c, quota)
      PROVE  Promise!Next
  BY <1>5, NewInvitePromise DEF CreateInvite
<1> QED BY <1>1, <1>2, <1>3, <1>4, <1>5, MarkUsedPromise DEF Next

(* However registrations interleave and wherever they are cut short, invites  *)
(* behave as the one-shot codes of Invitation.                                 *)
THEOREM OneShotInvites == Spec => InvitesAreOneShot
<1>1. Init => Promise!Init
  BY PromiseInit
<1>2. Inv /\ [Next]_vars => [Promise!Next]_<<DOMAIN invites, RedeemedBy>>
  BY PromiseStep
<1> QED BY <1>1, <1>2, Invariance, PTL DEF Spec, InvitesAreOneShot, Promise!Spec
-----------------------------------------------------------------------------
(* The end of a session: what steps do to the tokens of one login, and to the *)
(* refreshes that are past the check of one.                                   *)

FamilyFades(r) ==
  \A t \in DOMAIN tokens' : tokens'[t].root = r =>
    t \in DOMAIN tokens /\ tokens[t].root = r /\ (Usable(t)' => Usable(t))

Turns(q) == q.at \in {"rotate", "issue"} /\ q.token # Nil

TurnsChecked ==
  \A p \in Procs : Turns(req'[p]) =>
    \/ Turns(req[p]) /\ req'[p].token = req[p].token
    \/ Usable(req'[p].token)

LEMMA OverFrame ==
  ASSUME Inv, NEW r \in DOMAIN tokens, Over(r), FamilyFades(r), TurnsChecked
  PROVE  Over(r)'
<1>1. \A t \in DOMAIN tokens : tokens[t].root = r => ~Usable(t)
  BY DEF Over, Family
<1>2. \A p \in Procs : Turns(req[p]) =>
        req[p].token \in DOMAIN tokens /\ tokens[req[p].token].root # r
  BY DEF Over, Rotating, Family, Inv, RequestsOK, RequestOK, Turns
<1>3. \A t \in DOMAIN tokens' : tokens'[t].root = r => ~Usable(t)'
  BY <1>1 DEF FamilyFades
<1>4. ASSUME NEW p \in Procs, Rotating(p, r)' PROVE FALSE
  <2>1. /\ req'[p].at \in {"rotate", "issue"} /\ req'[p].token \in DOMAIN tokens'
        /\ tokens'[req'[p].token].root = r
    BY <1>4 DEF Rotating, Family
  <2>2. req'[p].token \in DOMAIN tokens /\ tokens[req'[p].token].root = r
    BY <2>1 DEF FamilyFades
  <2>3. Turns(req'[p])
    BY <2>1, <2>2, NilIsNoValue DEF Turns, Inv, TypeOK, Table
  <2> QED BY <1>1, <1>2, <2>2, <2>3 DEF TurnsChecked
<1> QED BY <1>3, <1>4 DEF Over, Family

LEMMA GotoTurns ==
  ASSUME Inv, NEW p \in Procs, NEW r, Goto(p, r),
         Turns(r) => \/ Turns(req[p]) /\ r.token = req[p].token
                     \/ Usable(r.token)
  PROVE  TurnsChecked
BY DEF TurnsChecked, Goto, Inv, TypeOK

LEMMA IdleTurns == ~Turns(Idle)
BY DEF Turns, Idle

LEMMA SameTokens ==
  ASSUME NEW r, UNCHANGED <<tokens, now>>
  PROVE  FamilyFades(r)
BY DEF FamilyFades, Usable, Expired

LEMMA RevokedFades ==
  ASSUME Inv, NEW r, NEW t \in DOMAIN tokens, Revoke(t), UNCHANGED now
  PROVE  FamilyFades(r)
BY DEF FamilyFades, Usable, Expired, Revoke, Inv, TypeOK, Table, Token

LEMMA OverStep ==
  ASSUME Inv, [Next]_vars, NEW r \in DOMAIN tokens, Over(r)
  PROVE  Over(r)'
<1> SUFFICES FamilyFades(r) /\ TurnsChecked
  BY OverFrame
<1>1. ASSUME NEW p \in Procs, Arrivals(p) PROVE FamilyFades(r) /\ TurnsChecked
  <2>1. PICK q : Goto(p, q) /\ ~Turns(q) /\ UNCHANGED <<tokens, now>>
    BY <1>1 DEF Arrivals, Register, Login, Refresh, Logout, Patch, Arrive, OnlyRequests, Turns, Idle
  <2> QED BY <2>1, GotoTurns, SameTokens
<1>2. ASSUME NEW p \in Procs, Answer(p), UNCHANGED <<tokens, now>>
      PROVE  FamilyFades(r) /\ TurnsChecked
  BY <1>2, GotoTurns, IdleTurns, SameTokens DEF Answer
<1>3. ASSUME NEW p \in Procs,
             \/ ReadInvite(p) \/ ReadName(p) \/ CreateUser(p) \/ LoginRead(p)
             \/ ReadLogout(p) \/ ReadUser(p)
      PROVE  FamilyFades(r) /\ TurnsChecked
  <2>1. UNCHANGED <<tokens, now>> /\ req[p] \in Request /\ RequestOK(req[p])
    BY <1>3 DEF ReadInvite, ReadName, CreateUser, NewUser, LoginRead, ReadLogout, ReadUser, Read,
                OnlyRequests, Inv, TypeOK, RequestsOK
  <2>2. CASE Answer(p)
    BY <1>2, <2>1, <2>2
  <2>3. CASE ~Answer(p)
    <3>1. CASE ReadInvite(p) \/ ReadName(p) \/ ReadLogout(p)
      <4>1. PICK place \in {"read_name", "create", "revoke"} : Goto(p, At(p, place))
        BY <2>3, <3>1 DEF ReadInvite, ReadName, ReadLogout, Read
      <4>2. ~Turns(At(p, place))
        BY <2>1 DEF Turns, At, Request
      <4> QED BY <2>1, <4>1, <4>2, GotoTurns, SameTokens
    <3>2. CASE CreateUser(p)
      <4>1. PICK a : Goto(p, [req[p] EXCEPT !.at = "mark_used", !.user = a])
        BY <3>2 DEF CreateUser, NewUser
      <4>2. ~Turns([req[p] EXCEPT !.at = "mark_used", !.user = a])
        BY <2>1 DEF Turns, Request
      <4> QED BY <2>1, <4>1, <4>2, GotoTurns, SameTokens
    <3>3. CASE LoginRead(p)
      <4>1. PICK a : Goto(p, [req[p] EXCEPT !.at = "issue", !.user = a])
        BY <3>3 DEF LoginRead
      <4>2. req[p].token = Nil
        BY <2>1, <3>3 DEF LoginRead, RequestOK
      <4>3. ~Turns([req[p] EXCEPT !.at = "issue", !.user = a])
        BY <2>1, <4>2 DEF Turns, Request
      <4> QED BY <2>1, <4>1, <4>3, GotoTurns, SameTokens
    <3>4. CASE ReadUser(p)
      <4>1. PICK quota, disabled :
              Goto(p, [req[p] EXCEPT !.at = "write_user", !.quota = quota, !.disabled = disabled])
        BY <2>3, <3>4 DEF ReadUser, Read
      <4>2. ~Turns([req[p] EXCEPT !.at = "write_user", !.quota = quota, !.disabled = disabled])
        BY <2>1 DEF Turns, Request
      <4> QED BY <2>1, <4>1, <4>2, GotoTurns, SameTokens
    <3> QED BY <1>3, <3>1, <3>2, <3>3, <3>4
  <2> QED BY <2>2, <2>3
<1>4. ASSUME NEW p \in Procs,
             NameTaken(p) \/ LoginRefused(p) \/ MarkUsed(p) \/ WriteUser(p) \/ Cancel(p)
      PROVE  FamilyFades(r) /\ TurnsChecked
  BY <1>2, <1>4 DEF NameTaken, LoginRefused, MarkUsed, WriteUser, Cancel, OnlyRequests
<1>5. ASSUME NEW p \in Procs, ReadToken(p) PROVE FamilyFades(r) /\ TurnsChecked
  <2>1. UNCHANGED <<tokens, now>> /\ req[p] \in Request
    BY <1>5 DEF ReadToken, Read, OnlyRequests, Inv, TypeOK
  <2>2. CASE Usable(req[p].token)
    <3>1. Goto(p, Rotation(p)) /\ Rotation(p).token = req[p].token
      BY <1>5, <2>1, <2>2 DEF ReadToken, Read, Rotation, Request
    <3> QED BY <2>1, <2>2, <3>1, GotoTurns, SameTokens
  <2>3. CASE ~Usable(req[p].token)
    BY <1>2, <1>5, <2>1, <2>3 DEF ReadToken, Read
  <2> QED BY <2>2, <2>3
<1>6. ASSUME NEW p \in Procs, Rotate(p) PROVE FamilyFades(r) /\ TurnsChecked
  <2>1. /\ req[p] \in Request /\ req[p].at = "rotate" /\ req[p].token \in DOMAIN tokens
        /\ req[p].token # Nil
    BY <1>6 DEF Rotate, Inv, TypeOK, RequestsOK, RequestOK
  <2>2. Turns(req[p]) /\ At(p, "issue").token = req[p].token
    BY <2>1 DEF Turns, At, Request
  <2> QED BY <1>6, <2>1, <2>2, GotoTurns, RevokedFades DEF Rotate
<1>7. ASSUME NEW p \in Procs, RevokeLogout(p) PROVE FamilyFades(r) /\ TurnsChecked
  <2>1. req[p].token \in DOMAIN tokens
    BY <1>7 DEF RevokeLogout, Inv, RequestsOK, RequestOK
  <2> QED BY <1>7, <2>1, GotoTurns, IdleTurns, RevokedFades DEF RevokeLogout, Answer
<1>8. ASSUME NEW p \in Procs, Issue(p) PROVE FamilyFades(r) /\ TurnsChecked
  <2>1. PICK t \in Tokens \ DOMAIN tokens :
          tokens' = Insert(tokens, t,
            [user |-> req[p].user, expires |-> now + RefreshTTL, revoked |-> FALSE,
             root |-> IF req[p].token = Nil THEN t ELSE tokens[req[p].token].root])
    BY <1>8 DEF Issue
  <2>2. req[p].token # Nil => tokens[req[p].token].root # r
    BY <1>8 DEF Issue, Over, Rotating, Family, Inv, RequestsOK, RequestOK
  <2>3. /\ DOMAIN tokens' = DOMAIN tokens \cup {t} /\ tokens'[t].root # r
        /\ \A u \in DOMAIN tokens : tokens'[u] = tokens[u]
    BY <2>1, <2>2 DEF Insert
  <2>4. FamilyFades(r)
    BY <1>8, <2>3 DEF Issue, FamilyFades, Usable, Expired
  <2> QED BY <1>8, <2>4, GotoTurns, IdleTurns DEF Issue, Answer
<1>9. CASE Stop
  <2>1. UNCHANGED <<tokens, now>> /\ req' = [p \in Procs |-> Idle]
    BY <1>9 DEF Stop
  <2> QED BY <2>1, SameTokens, IdleTurns DEF TurnsChecked
<1>10. CASE Tick
  <2>1. UNCHANGED <<tokens, req>> /\ now' = now + 1
    BY <1>10 DEF Tick
  <2>2. FamilyFades(r)
    BY <2>1 DEF FamilyFades, Usable, Expired, Inv, TypeOK, Table, Token
  <2> QED BY <2>1, <2>2 DEF TurnsChecked
<1>11. CASE Boot \/ UNCHANGED vars
  BY <1>11, SameTokens DEF Boot, vars, TurnsChecked
<1>12. ASSUME NEW by \in Accounts, NEW c \in Codes, NEW quota \in Quotas \cup {Nil},
              CreateInvite(by, c, quota)
       PROVE  FamilyFades(r) /\ TurnsChecked
  BY <1>12, SameTokens DEF CreateInvite, TurnsChecked
<1> QED BY <1>1, <1>3, <1>4, <1>5, <1>6, <1>7, <1>8, <1>9, <1>10, <1>11, <1>12 DEF Next, Calls

(* A login whose tokens are all revoked or expired, with no refresh past its  *)
(* check of one, never has a good token again.                                 *)
THEOREM DeadSessionsStayDead == Spec => SessionsStayOver
<1>1. Inv /\ [Next]_vars => [\A r \in DOMAIN tokens : Over(r) => Over(r)']_vars
  BY OverStep
<1> QED BY <1>1, Invariance, PTL DEF Spec, SessionsStayOver

-----------------------------------------------------------------------------
(* One request at a time: what it has read is still so at its next call.       *)

Alone == \A p, q \in Procs : p = q

\* A registration past its check of an invite finds it unused, and an account
\* whose invite is still to be marked has its request.
Unspent ==
  \A p \in Procs : req[p].at \in {"read_name", "create", "mark_used"} =>
    invites[req[p].code].usedBy = Nil

\* A request that goes on is the only one.
LEMMA AloneGoes ==
  ASSUME Alone, Inv, NEW p \in Procs, NEW r, Goto(p, r)
  PROVE  \A q \in Procs : q = p /\ req'[q] = r
BY DEF Alone, Inv, TypeOK, Goto

\* A request that neither comes to "mark_used" nor leaves it, while the accounts
\* and the invites there are stay as they are.
LEMMA UnspentFrame ==
  ASSUME Alone, Inv, Unspent, NoDanglingAccount, NEW p \in Procs, NEW r, Goto(p, r),
         UNCHANGED users, DOMAIN invites \subseteq DOMAIN invites',
         \A c \in DOMAIN invites : invites'[c] = invites[c],
         req[p].at # "mark_used", r.at # "mark_used",
         r.at \in {"read_name", "create"} =>
           r.code \in DOMAIN invites /\ invites[r.code].usedBy = Nil
  PROVE  Unspent' /\ NoDanglingAccount'
<1>1. \A q \in Procs : q = p /\ req'[q] = r
  BY AloneGoes
<1>2. Unspent'
  BY <1>1 DEF Unspent
<1>3. \A a \in DOMAIN users : \E c \in DOMAIN invites : invites[c].usedBy = a
  BY <1>1 DEF NoDanglingAccount, Redeems
<1> QED BY <1>2, <1>3 DEF NoDanglingAccount, Redeems

LEMMA ReadsUnspent ==
  ASSUME Alone, Inv, Unspent, NoDanglingAccount, NEW p \in Procs,
         \/ ReadInvite(p) \/ ReadName(p) \/ NameTaken(p) \/ LoginRefused(p) \/ LoginRead(p)
         \/ ReadToken(p) \/ ReadLogout(p) \/ ReadUser(p)
  PROVE  Unspent' /\ NoDanglingAccount'
<1> DEFINE r == req[p]
<1>0. r \in Request /\ RequestOK(r)
  BY DEF Inv, TypeOK, RequestsOK
<1>a. Idle.at = "idle"
  BY DEF Idle
<1>1. ASSUME NEW s, Goto(p, s), OnlyRequests, r.at # "mark_used", s.at # "mark_used",
             s.at \in {"read_name", "create"} =>
               s.code \in DOMAIN invites /\ invites[s.code].usedBy = Nil
      PROVE  Unspent' /\ NoDanglingAccount'
  BY <1>1, UnspentFrame DEF OnlyRequests
<1>2. ASSUME Answer(p), OnlyRequests, r.at # "mark_used"
      PROVE  Unspent' /\ NoDanglingAccount'
  BY <1>1, <1>2, <1>a DEF Answer
<1>3. CASE ReadInvite(p)
  <2>1. CASE Redeemable(r.code)
    <3>1. /\ Goto(p, At(p, "read_name")) /\ At(p, "read_name").code = r.code
          /\ At(p, "read_name").at = "read_name" /\ OnlyRequests /\ r.at = "read_invite"
      BY <1>0, <1>3, <2>1 DEF ReadInvite, Read, At, Request
    <3> QED BY <1>1, <2>1, <3>1 DEF Redeemable
  <2>2. CASE ~Redeemable(r.code)
    BY <1>2, <1>3, <2>2 DEF ReadInvite, Read
  <2> QED BY <2>1, <2>2
<1>4. CASE ReadName(p)
  <2>1. CASE GetByUsername(r.name) = {}
    <3>1. /\ Goto(p, At(p, "create")) /\ At(p, "create").code = r.code /\ OnlyRequests
          /\ At(p, "create").at = "create" /\ r.at = "read_name"
      BY <1>0, <1>4, <2>1 DEF ReadName, Read, At, Request
    <3>2. r.code \in DOMAIN invites /\ invites[r.code].usedBy = Nil
      BY <1>0, <3>1 DEF RequestOK, Unspent
    <3> QED BY <1>1, <3>1, <3>2
  <2>2. CASE GetByUsername(r.name) # {}
    BY <1>2, <1>4, <2>2 DEF ReadName, Read
  <2> QED BY <2>1, <2>2
<1>5. CASE NameTaken(p) \/ LoginRefused(p)
  BY <1>2, <1>5 DEF NameTaken, LoginRefused
<1>6. CASE LoginRead(p)
  <2>1. PICK s : Goto(p, s) /\ s.at = "issue" /\ OnlyRequests /\ r.at = "login"
    BY <1>0, <1>6 DEF LoginRead, Request
  <2> QED BY <1>1, <2>1
<1>7. CASE ReadToken(p) \/ ReadLogout(p) \/ ReadUser(p)
  <2>1. PICK s : Goto(p, s) /\ s.at \in {"idle", "rotate", "revoke", "write_user"} /\ OnlyRequests
    <3>1. CASE ReadToken(p)
      BY <1>0, <3>1 DEF ReadToken, Read, Answer, Idle, Rotation, Request
    <3>2. CASE ReadLogout(p)
      BY <1>0, <3>2 DEF ReadLogout, Read, Answer, Idle, At, Request
    <3>3. CASE ReadUser(p)
      BY <1>0, <3>3 DEF ReadUser, Read, Request
    <3> QED BY <1>7, <3>1, <3>2, <3>3
  <2>2. r.at # "mark_used"
    BY <1>7 DEF ReadToken, ReadLogout, ReadUser, Read
  <2> QED BY <1>1, <2>1, <2>2
<1> QED BY <1>3, <1>4, <1>5, <1>6, <1>7

LEMMA CreateUserUnspent ==
  ASSUME Alone, Inv, Unspent, NoDanglingAccount, NEW p \in Procs, CreateUser(p)
  PROVE  Unspent' /\ NoDanglingAccount'
<1> DEFINE r == req[p]
<1>0. r \in Request /\ RequestOK(r) /\ r.at = "create"
  BY DEF Inv, TypeOK, RequestsOK, CreateUser
<1>1. PICK a \in Accounts \ DOMAIN users :
        /\ users' = Insert(users, a, [name |-> r.name, quota |-> Granted(invites[r.code]),
                                      disabled |-> FALSE, admin |-> invites[r.code].admin])
        /\ Goto(p, [r EXCEPT !.at = "mark_used", !.user = a])
        /\ UNCHANGED invites
  BY DEF CreateUser, NewUser
<1> DEFINE s == [r EXCEPT !.at = "mark_used", !.user = a]
<1>2. s.at = "mark_used" /\ s.user = a /\ s.code = r.code
  BY <1>0 DEF Request
<1>3. DOMAIN users' = DOMAIN users \cup {a}
  BY <1>1 DEF Insert
<1>4. \A q \in Procs : q = p /\ req'[q] = s
  BY <1>1, AloneGoes
<1> HIDE DEF s
<1>5. Unspent'
  BY <1>0, <1>1, <1>2, <1>4 DEF Unspent
<1>6. \A b \in DOMAIN users : \E c \in DOMAIN invites : invites[c].usedBy = b
  BY <1>0, <1>4 DEF NoDanglingAccount, Redeems
<1> QED BY <1>1, <1>2, <1>3, <1>4, <1>5, <1>6 DEF NoDanglingAccount, Redeems

LEMMA MarkUsedUnspent ==
  ASSUME Alone, Inv, Unspent, NoDanglingAccount, NEW p \in Procs, MarkUsed(p)
  PROVE  Unspent' /\ NoDanglingAccount'
<1> DEFINE r == req[p]
<1>1. /\ r.at = "mark_used" /\ r.code \in DOMAIN invites /\ invites[r.code].usedBy = Nil
      /\ UNCHANGED users
  BY DEF MarkUsed, Unspent, Inv, RequestsOK, RequestOK
<1>2. invites[r.code] \in Invite
  BY <1>1 DEF Inv, TypeOK, Table
<1>3. /\ DOMAIN invites' = DOMAIN invites /\ invites'[r.code].usedBy = r.user
      /\ \A c \in DOMAIN invites : c # r.code => invites'[c] = invites[c]
  BY <1>1, <1>2 DEF MarkUsed, Invite
<1>4. \A q \in Procs : q = p /\ req'[q] = Idle
  BY AloneGoes DEF MarkUsed, Answer
<1>5. Unspent'
  BY <1>4 DEF Unspent, Idle
<1>6. ASSUME NEW a \in DOMAIN users PROVE \E c \in DOMAIN invites : invites'[c].usedBy = a
  <2>1. CASE a = r.user
    BY <1>1, <1>3, <2>1
  <2>2. CASE a # r.user
    <3>1. PICK c \in DOMAIN invites : invites[c].usedBy = a
      BY <1>4, <2>2 DEF NoDanglingAccount, Redeems
    <3>2. c # r.code
      BY <1>1, <3>1, NilIsNoValue DEF Inv, TypeOK, Table
    <3> QED BY <1>3, <3>1, <3>2
  <2> QED BY <2>1, <2>2
<1> QED BY <1>1, <1>3, <1>5, <1>6 DEF NoDanglingAccount, Redeems

\* A request that arrives has yet to make its first call.
Fresh(r) == r.at \in {"read_invite", "login", "read_token", "read_logout", "read_user"}

LEMMA ArrivalIsNew ==
  ASSUME NEW p \in Procs, Arrivals(p)
  PROVE  \E r : Goto(p, r) /\ OnlyRequests /\ req[p].at = "idle" /\ Fresh(r)
<1>1. ASSUME NEW kind, NEW r, Arrive(p, kind, r), Fresh(r)
      PROVE  \E s : Goto(p, s) /\ OnlyRequests /\ req[p].at = "idle" /\ Fresh(s)
  BY <1>1 DEF Arrive, Idle
<1>2. ASSUME NEW c \in Codes, NEW n \in Names, Register(p, c, n)
      PROVE  \E s : Goto(p, s) /\ OnlyRequests /\ req[p].at = "idle" /\ Fresh(s)
  BY <1>1, <1>2 DEF Register, Idle, Fresh
<1>3. ASSUME NEW n \in Names, Login(p, n)
      PROVE  \E s : Goto(p, s) /\ OnlyRequests /\ req[p].at = "idle" /\ Fresh(s)
  BY <1>1, <1>3 DEF Login, Idle, Fresh
<1>4. ASSUME NEW t \in Tokens, Refresh(p, t)
      PROVE  \E s : Goto(p, s) /\ OnlyRequests /\ req[p].at = "idle" /\ Fresh(s)
  BY <1>1, <1>4 DEF Refresh, Idle, Fresh
<1>5. ASSUME NEW t \in Tokens, Logout(p, t)
      PROVE  \E s : Goto(p, s) /\ OnlyRequests /\ req[p].at = "idle" /\ Fresh(s)
  BY <1>1, <1>5 DEF Logout, Idle, Fresh
<1>6. ASSUME NEW by \in Accounts, NEW a \in DOMAIN users,
             NEW patch \in SUBSET {"quota", "disabled"}, NEW quota \in Quotas \cup {Nil},
             NEW disabled \in BOOLEAN, Patch(p, by, a, patch, quota, disabled)
      PROVE  \E s : Goto(p, s) /\ OnlyRequests /\ req[p].at = "idle" /\ Fresh(s)
  BY <1>1, <1>6 DEF Patch, Idle, Fresh
<1> QED BY <1>2, <1>3, <1>4, <1>5, <1>6 DEF Arrivals

LEMMA NextUnspent ==
  ASSUME Alone, Faults = {}, Inv, Unspent, NoDanglingAccount, [Next]_vars
  PROVE  Unspent' /\ NoDanglingAccount'
<1>1. ASSUME NEW p \in Procs, Arrivals(p) PROVE Unspent' /\ NoDanglingAccount'
  <2>1. PICK r : Goto(p, r) /\ OnlyRequests /\ req[p].at = "idle" /\ Fresh(r)
    BY <1>1, ArrivalIsNew
  <2> QED BY <2>1, UnspentFrame DEF OnlyRequests, Fresh
<1>2. ASSUME NEW p \in Procs, Rotate(p) \/ Issue(p) \/ RevokeLogout(p)
      PROVE  Unspent' /\ NoDanglingAccount'
  <2>1. UNCHANGED <<users, invites>> /\ req[p].at \in {"rotate", "issue", "revoke"}
    BY <1>2 DEF Rotate, RevokeLogout, Issue
  <2>2. PICK s : Goto(p, s) /\ s.at \in {"idle", "issue"}
    BY <1>2 DEF Rotate, RevokeLogout, Issue, Answer, Idle, At, Inv, TypeOK, Request
  <2> QED BY <2>1, <2>2, UnspentFrame
<1>3. ASSUME NEW p \in Procs, WriteUser(p) PROVE Unspent' /\ NoDanglingAccount'
  <2>1. /\ UNCHANGED invites /\ req[p].at = "write_user" /\ DOMAIN users' = DOMAIN users
    BY <1>3 DEF WriteUser
  <2>2. \A q \in Procs : q = p /\ req'[q] = Idle
    BY <1>3, AloneGoes DEF WriteUser, Answer
  <2>3. \A a \in DOMAIN users : \E c \in DOMAIN invites : invites[c].usedBy = a
    BY <2>1, <2>2 DEF NoDanglingAccount, Redeems
  <2>4. Unspent'
    BY <2>2 DEF Unspent, Idle
  <2> QED BY <2>1, <2>3, <2>4 DEF NoDanglingAccount, Redeems
<1>4. ASSUME UNCHANGED <<users, req>>, DOMAIN invites \subseteq DOMAIN invites',
             \A c \in DOMAIN invites : invites'[c] = invites[c]
      PROVE  Unspent' /\ NoDanglingAccount'
  <2>1. Unspent'
    BY <1>4 DEF Unspent, Inv, RequestsOK, RequestOK
  <2>2. NoDanglingAccount'
    BY <1>4 DEF NoDanglingAccount, Redeems
  <2> QED BY <2>1, <2>2
<1>5. ASSUME NEW c, NEW by, NEW admin, NEW quota, NewInvite(c, by, admin, quota),
             UNCHANGED <<users, req>>
      PROVE  Unspent' /\ NoDanglingAccount'
  <2>1. /\ DOMAIN invites' = DOMAIN invites \cup {c} /\ c \notin DOMAIN invites
        /\ \A d \in DOMAIN invites : invites'[d] = invites[d]
    BY <1>5 DEF NewInvite, Insert
  <2> QED BY <1>4, <1>5, <2>1
<1>6. CASE Boot \/ Tick \/ UNCHANGED vars
  <2>1. UNCHANGED <<users, req>>
    BY <1>6 DEF Boot, Tick, vars
  <2>2. UNCHANGED invites \/ \E c \in Codes : NewInvite(c, Nil, TRUE, Nil)
    BY <1>6 DEF Boot, Tick, vars
  <2> QED BY <1>4, <1>5, <2>1, <2>2
<1>7. ASSUME NEW by \in Accounts, NEW c \in Codes, NEW quota \in Quotas \cup {Nil},
             CreateInvite(by, c, quota)
      PROVE  Unspent' /\ NoDanglingAccount'
  BY <1>5, <1>7 DEF CreateInvite
<1>8. ~Stop /\ \A p \in Procs : ~Cancel(p)
  BY DEF Stop, Cancel
<1> QED BY <1>1, <1>2, <1>3, <1>6, <1>7, <1>8, ReadsUnspent, CreateUserUnspent, MarkUsedUnspent
      DEF Next, Calls

(* With one request at a time, none of them cut short, every account stands    *)
(* for the invite it redeemed or is about to (Register: "we don't leave a      *)
(* dangling account behind").                                                  *)
THEOREM AccountsHaveInvites ==
  ASSUME Alone, Faults = {}
  PROVE  Spec => []NoDanglingAccount
<1>1. Init => Unspent /\ NoDanglingAccount
  BY DEF Init, Unspent, NoDanglingAccount, Idle
<1>2. Inv /\ Unspent /\ NoDanglingAccount /\ [Next]_vars => Unspent' /\ NoDanglingAccount'
  BY NextUnspent
<1> QED BY <1>1, <1>2, Invariance, PTL DEF Spec

-----------------------------------------------------------------------------
(* One good token per login.  Between the check of a token and the issue of    *)
(* the next, no token of the login is good but the one checked, and after the  *)
(* rotation none is.                                                           *)

GoodIn(r) == {t \in Family(r) : Usable(t)}

OneGood ==
  \A p \in Procs, r \in Tokens : req[p].token # Nil /\ tokens[req[p].token].root = r =>
    /\ req[p].at = "rotate" => GoodIn(r) \subseteq {req[p].token}
    /\ req[p].at = "issue" => GoodIn(r) = {}

Rotated == OneTokenPerLogin /\ OneGood

\* A step that makes no token good again, and takes no request past its check.
LEMMA RotatedFrame ==
  ASSUME Alone, Inv, Rotated, DOMAIN tokens' = DOMAIN tokens,
         \A t \in DOMAIN tokens : tokens'[t].root = tokens[t].root /\ (Usable(t)' => Usable(t)),
         \A p \in Procs :
           /\ req'[p].at = "rotate" =>
                \/ req[p].at = "rotate" /\ req'[p].token = req[p].token
                \/ Usable(req'[p].token)
           /\ req'[p].at = "issue" /\ req'[p].token # Nil =>
                \/ req[p].at = "issue" /\ req'[p].token = req[p].token
                \/ /\ req[p].at = "rotate" /\ req'[p].token = req[p].token
                   /\ ~Usable(req[p].token)'
  PROVE  Rotated'
<1>1. OneTokenPerLogin'
  BY DEF Rotated, OneTokenPerLogin
<1>2. \A r : GoodIn(r)' \subseteq GoodIn(r)
  BY DEF GoodIn, Family
<1> SUFFICES ASSUME NEW p \in Procs, NEW r \in Tokens, req'[p].token # Nil,
                    tokens'[req'[p].token].root = r
             PROVE  /\ req'[p].at = "rotate" => GoodIn(r)' \subseteq {req'[p].token}
                    /\ req'[p].at = "issue" => GoodIn(r)' = {}
  BY <1>1 DEF Rotated, OneGood
<1> DEFINE t == req'[p].token
<1>3. ASSUME req'[p].at = "rotate" PROVE GoodIn(r)' \subseteq {t}
  <2>1. CASE req[p].at = "rotate" /\ t = req[p].token
    <3>1. t \in DOMAIN tokens
      BY <2>1 DEF Inv, RequestsOK, RequestOK
    <3>2. tokens[t].root = r
      BY <3>1
    <3>3. GoodIn(r) \subseteq {t}
      BY <2>1, <3>2 DEF Rotated, OneGood
    <3> QED BY <1>2, <3>3
  <2>2. CASE Usable(t)
    <3>1. t \in DOMAIN tokens
      BY <2>2 DEF Usable
    <3>2. tokens[t].root = r
      BY <3>1
    <3>3. GoodIn(r) \subseteq {t}
      BY <2>2, <3>1, <3>2 DEF Rotated, OneTokenPerLogin, GoodIn, Family
    <3> QED BY <1>2, <3>3
  <2> QED BY <1>3, <2>1, <2>2
<1>4. ASSUME req'[p].at = "issue" PROVE GoodIn(r)' = {}
  <2>1. t = req[p].token /\ t \in DOMAIN tokens
    BY <1>4 DEF Inv, RequestsOK, RequestOK
  <2>2. tokens[t].root = r
    BY <2>1
  <2>3. CASE req[p].at = "issue"
    <3>1. GoodIn(r) = {}
      BY <2>1, <2>2, <2>3 DEF Rotated, OneGood
    <3> QED BY <1>2, <3>1
  <2>4. CASE req[p].at = "rotate" /\ ~Usable(req[p].token)'
    <3>1. GoodIn(r) \subseteq {t}
      BY <2>1, <2>2, <2>4 DEF Rotated, OneGood
    <3>2. t \notin GoodIn(r)'
      BY <2>1, <2>4 DEF GoodIn
    <3> QED BY <1>2, <3>1, <3>2
  <2> QED BY <1>4, <2>3, <2>4
<1> QED BY <1>3, <1>4

LEMMA SameRotated ==
  ASSUME Alone, Inv, Rotated, UNCHANGED <<tokens, now>>,
         \A p \in Procs :
           \/ req'[p] = req[p]
           \/ /\ req'[p].at = "rotate" => Usable(req'[p].token)
              /\ req'[p].at = "issue" => req'[p].token = Nil
  PROVE  Rotated'
<1>1. /\ DOMAIN tokens' = DOMAIN tokens
      /\ \A t \in DOMAIN tokens : tokens'[t].root = tokens[t].root /\ (Usable(t)' => Usable(t))
  BY DEF Usable, Expired
<1> QED BY <1>1, RotatedFrame

\* A request that goes on, while the tokens stay as they are.
LEMMA GoesRotated ==
  ASSUME Alone, Inv, Rotated, UNCHANGED <<tokens, now>>, NEW p \in Procs, NEW r, Goto(p, r),
         r.at = "rotate" => Usable(r.token),
         r.at = "issue" => r.token = Nil
  PROVE  Rotated'
<1>1. \A q \in Procs : req'[q] = r
  BY AloneGoes
<1> QED BY <1>1, SameRotated

LEMMA RevokeFades ==
  ASSUME Inv, NEW t \in DOMAIN tokens, Revoke(t), UNCHANGED now
  PROVE  /\ DOMAIN tokens' = DOMAIN tokens
         /\ \A u \in DOMAIN tokens : tokens'[u].root = tokens[u].root /\ (Usable(u)' => Usable(u))
         /\ ~Usable(t)'
<1>1. tokens[t] \in Token
  BY DEF Inv, TypeOK, Table
<1>2. /\ DOMAIN tokens' = DOMAIN tokens /\ tokens'[t].revoked /\ tokens'[t].root = tokens[t].root
      /\ tokens'[t].expires = tokens[t].expires
      /\ \A u \in DOMAIN tokens : u # t => tokens'[u] = tokens[u]
  BY <1>1 DEF Revoke, Token
<1> QED BY <1>2 DEF Usable, Expired

LEMMA IssueRotated ==
  ASSUME Alone, Inv, Rotated, NEW p \in Procs, Issue(p)
  PROVE  Rotated'
<1> DEFINE k == req[p].token
<1>1. PICK t \in Tokens \ DOMAIN tokens :
        tokens' = Insert(tokens, t,
          [user |-> req[p].user, expires |-> now + RefreshTTL, revoked |-> FALSE,
           root |-> IF k = Nil THEN t ELSE tokens[k].root])
  BY DEF Issue
<1>2. /\ req[p].at = "issue" /\ UNCHANGED now /\ DOMAIN tokens' = DOMAIN tokens \cup {t}
      /\ tokens'[t].root = (IF k = Nil THEN t ELSE tokens[k].root)
      /\ \A u \in DOMAIN tokens : tokens'[u] = tokens[u]
  BY <1>1 DEF Issue, Insert
<1>3. \A u \in DOMAIN tokens : Usable(u)' <=> Usable(u)
  BY <1>2 DEF Usable, Expired
<1>4. \A u \in DOMAIN tokens : tokens'[u].root = tokens'[t].root => ~Usable(u)
  <2>1. CASE k = Nil
    BY <1>1, <1>2, <2>1 DEF Inv, TokensOK
  <2>2. CASE k # Nil
    <3> DEFINE r == tokens[k].root
    <3>1. k \in DOMAIN tokens /\ r \in Tokens
      BY <2>2 DEF Inv, TypeOK, Table, Token, RequestsOK, RequestOK
    <3>2. GoodIn(r) = {}
      BY <1>2, <2>2, <3>1 DEF Rotated, OneGood
    <3>3. \A u \in DOMAIN tokens : tokens[u].root = r => ~Usable(u)
      BY <3>2 DEF GoodIn, Family
    <3> QED BY <1>2, <2>2, <3>3
  <2> QED BY <2>1, <2>2
<1>5. OneTokenPerLogin'
  <2> SUFFICES ASSUME NEW u \in DOMAIN tokens', NEW v \in DOMAIN tokens',
                      tokens'[u].root = tokens'[v].root, Usable(u)', Usable(v)'
               PROVE  u = v
    BY DEF OneTokenPerLogin
  <2>1. CASE u \in DOMAIN tokens /\ v \in DOMAIN tokens
    BY <1>2, <1>3, <2>1 DEF Rotated, OneTokenPerLogin
  <2>2. CASE u = t \/ v = t
    BY <1>2, <1>3, <1>4, <2>2
  <2> QED BY <1>2, <2>1, <2>2
<1>6. \A q \in Procs : req'[q] = Idle
  BY AloneGoes DEF Issue, Answer
<1>7. OneGood'
  BY <1>6 DEF OneGood, Idle
<1> QED BY <1>5, <1>7 DEF Rotated

\* Where a call leads, and with which token.
Onward(p, s) ==
  LET r == req[p] IN
  \/ s.at \in {"idle", "read_name", "create", "mark_used", "revoke"}
  \/ s.at = "issue" /\ r.at \in {"login", "rotate"} /\ s.token = r.token
  \/ s.at = "rotate" /\ s.token = r.token /\ Usable(r.token)
  \/ s.at = "write_user" /\ r.at = "read_user"

LEMMA CallGoes ==
  ASSUME Inv, NEW p \in Procs, Calls(p)
  PROVE  \E s : Goto(p, s) /\ Onward(p, s)
<1> DEFINE r == req[p]
           Goal == \E s : Goto(p, s) /\ Onward(p, s)
<1>0. r \in Request
  BY DEF Inv, TypeOK
<1> SUFFICES Goal
  OBVIOUS
<1>a. ASSUME Answer(p) PROVE Goal
  BY <1>a DEF Answer, Idle, Onward
<1>b. ASSUME NEW place, Goto(p, At(p, place)),
             \/ place \in {"read_name", "create", "revoke"}
             \/ place = "issue" /\ r.at = "rotate"
      PROVE  Goal
  <2>1. At(p, place).at = place /\ At(p, place).token = r.token
    BY <1>0 DEF At, Request
  <2> QED BY <1>b, <2>1 DEF Onward
<1>1. CASE ReadInvite(p) \/ ReadName(p) \/ ReadLogout(p) \/ Rotate(p)
  BY <1>a, <1>b, <1>1 DEF ReadInvite, ReadName, ReadLogout, Read, Rotate
<1>2. CASE \/ NameTaken(p) \/ LoginRefused(p) \/ MarkUsed(p) \/ WriteUser(p) \/ Issue(p)
           \/ RevokeLogout(p)
  BY <1>a, <1>2 DEF NameTaken, LoginRefused, MarkUsed, WriteUser, Issue, RevokeLogout
<1>3. CASE CreateUser(p)
  <2>1. PICK a \in Accounts : Goto(p, [r EXCEPT !.at = "mark_used", !.user = a])
    BY <1>3 DEF CreateUser, NewUser
  <2>2. [r EXCEPT !.at = "mark_used", !.user = a].at = "mark_used"
    BY <1>0 DEF Request
  <2> QED BY <2>1, <2>2 DEF Onward
<1>4. CASE LoginRead(p)
  <2>1. r.at = "login"
    BY <1>4 DEF LoginRead
  <2>2. PICK a : Goto(p, [r EXCEPT !.at = "issue", !.user = a])
    BY <1>4 DEF LoginRead
  <2> DEFINE s == [r EXCEPT !.at = "issue", !.user = a]
  <2>3. s.at = "issue" /\ s.token = r.token
    BY <1>0 DEF Request
  <2> QED BY <2>1, <2>2, <2>3 DEF Onward
<1>5. CASE ReadToken(p)
  <2>1. CASE Usable(r.token)
    <3>1. Goto(p, Rotation(p))
      BY <1>5, <2>1 DEF ReadToken, Read
    <3>2. Rotation(p).at = "rotate" /\ Rotation(p).token = r.token
      BY <1>0 DEF Rotation, Request
    <3> QED BY <2>1, <3>1, <3>2 DEF Onward
  <2>2. CASE ~Usable(r.token)
    BY <1>a, <1>5, <2>2 DEF ReadToken, Read
  <2> QED BY <2>1, <2>2
<1>6. CASE ReadUser(p)
  <2> DEFINE s == [r EXCEPT !.at = "write_user",
                     !.quota = IF "quota" \in r.patch THEN @ ELSE users[r.user].quota,
                     !.disabled = IF "disabled" \in r.patch THEN @ ELSE users[r.user].disabled]
  <2>1. Goto(p, s) /\ r.at = "read_user"
    BY <1>6 DEF ReadUser, Read
  <2>2. s.at = "write_user"
    BY <1>0 DEF Request
  <2> HIDE DEF s
  <2> QED BY <2>1, <2>2 DEF Onward
<1> QED BY <1>1, <1>2, <1>3, <1>4, <1>5, <1>6 DEF Calls

LEMMA NextRotated ==
  ASSUME Alone, Inv, Rotated, [Next]_vars
  PROVE  Rotated'
<1>0. Idle.at = "idle"
  BY DEF Idle
<1>a. ASSUME NEW p \in Procs, Answer(p), UNCHANGED <<tokens, now>> PROVE Rotated'
  BY <1>0, <1>a, GoesRotated DEF Answer
<1>b. ASSUME UNCHANGED <<tokens, now, req>> PROVE Rotated'
  BY <1>b, SameRotated
<1>1. ASSUME NEW p \in Procs, Arrivals(p) PROVE Rotated'
  <2>1. PICK r : Goto(p, r) /\ OnlyRequests /\ req[p].at = "idle" /\ Fresh(r)
    BY <1>1, ArrivalIsNew
  <2> QED BY <2>1, GoesRotated DEF OnlyRequests, Fresh
<1>2. ASSUME NEW p \in Procs, Calls(p) PROVE Rotated'
  <2> DEFINE r == req[p]
  <2>0. r \in Request /\ RequestOK(r)
    BY DEF Inv, TypeOK, RequestsOK
  <2>1. CASE ~Rotate(p) /\ ~RevokeLogout(p) /\ ~Issue(p)
    <3>1. UNCHANGED <<tokens, now>> /\ r.at # "rotate"
      BY <1>2, <2>1 DEF Calls, ReadInvite, ReadName, CreateUser, NewUser, NameTaken, MarkUsed,
           LoginRead, LoginRefused, ReadToken, ReadLogout, ReadUser, WriteUser, Read, OnlyRequests
    <3>2. PICK s : Goto(p, s) /\ Onward(p, s)
      BY <1>2, CallGoes
    <3>3. r.at = "login" => r.token = Nil
      BY <2>0 DEF RequestOK
    <3> QED BY <3>1, <3>2, <3>3, GoesRotated DEF Onward
  <2>6. CASE Rotate(p)
    <3>1. r.at = "rotate" /\ r.token \in DOMAIN tokens /\ Revoke(r.token) /\ UNCHANGED now
      BY <2>0, <2>6 DEF Rotate, RequestOK
    <3>2. PICK s : Goto(p, s) /\ s.at = "issue" /\ s.token = r.token
      <4> DEFINE s == At(p, "issue")
      <4>1. Goto(p, s) /\ s.at = "issue" /\ s.token = r.token
        BY <2>0, <2>6 DEF Rotate, At, Request
      <4> HIDE DEF s
      <4> QED BY <4>1
    <3>3. \A q \in Procs : q = p /\ req'[q] = s
      BY <3>2, AloneGoes
    <3>4. /\ DOMAIN tokens' = DOMAIN tokens
          /\ \A u \in DOMAIN tokens :
               tokens'[u].root = tokens[u].root /\ (Usable(u)' => Usable(u))
      BY <3>1, RevokeFades
    <3>5. ~Usable(r.token)'
      <4>1. PICK t \in DOMAIN tokens : t = r.token
        BY <3>1
      <4>2. ~Usable(t)'
        BY <3>1, <4>1, RevokeFades
      <4>3. req'[p].token = t
        BY <3>2, <3>3, <4>1
      <4> QED BY <4>2, <4>3
    <3> QED BY <3>1, <3>2, <3>3, <3>4, <3>5, RotatedFrame
  <2>7. CASE RevokeLogout(p)
    <3>1. r.token \in DOMAIN tokens /\ Revoke(r.token) /\ UNCHANGED now
      BY <2>0, <2>7 DEF RevokeLogout, RequestOK
    <3>2. /\ DOMAIN tokens' = DOMAIN tokens
          /\ \A u \in DOMAIN tokens :
               tokens'[u].root = tokens[u].root /\ (Usable(u)' => Usable(u))
      BY <3>1, RevokeFades
    <3>3. \A q \in Procs : req'[q].at = "idle"
      BY <1>0, <2>7, AloneGoes DEF RevokeLogout, Answer
    <3> QED BY <3>2, <3>3, RotatedFrame
  <2>8. CASE Issue(p)
    BY <2>8, IssueRotated
  <2> QED BY <2>1, <2>6, <2>7, <2>8
<1>3. CASE Boot \/ UNCHANGED vars
  BY <1>3, <1>b DEF Boot, vars
<1>4. ASSUME NEW by \in Accounts, NEW c \in Codes, NEW quota \in Quotas \cup {Nil},
             CreateInvite(by, c, quota)
      PROVE  Rotated'
  BY <1>4, <1>b DEF CreateInvite
<1>5. ASSUME NEW p \in Procs, Cancel(p) PROVE Rotated'
  BY <1>5, <1>a DEF Cancel, OnlyRequests
<1>6. CASE Stop
  BY <1>0, <1>6, SameRotated DEF Stop
<1>7. CASE Tick
  <2>1. UNCHANGED <<tokens, req>> /\ now' = now + 1
    BY <1>7 DEF Tick
  <2>2. \A t \in DOMAIN tokens : Usable(t)' => Usable(t)
    BY <2>1 DEF Usable, Expired, Inv, TypeOK, Table, Token
  <2> QED BY <2>1, <2>2, RotatedFrame
<1> QED BY <1>1, <1>2, <1>3, <1>4, <1>5, <1>6, <1>7 DEF Next

(* With one request at a time, cut short anywhere, each login has at most one  *)
(* good refresh token: rotation revokes the one presented before the next is   *)
(* issued, and one that was revoked or has expired yields nothing (Refresh).   *)
THEOREM OneGoodToken ==
  ASSUME Alone
  PROVE  Spec => []OneTokenPerLogin
<1>1. Init => Rotated
  BY DEF Init, Rotated, OneTokenPerLogin, OneGood, Idle
<1>2. Inv /\ Rotated /\ [Next]_vars => Rotated'
  BY NextRotated
<1>3. Rotated => OneTokenPerLogin
  BY DEF Rotated
<1> QED BY <1>1, <1>2, <1>3, Invariance, PTL DEF Spec

-----------------------------------------------------------------------------
(* What a PATCH filled in from the row is still there when it writes.          *)

AsRead ==
  \A p \in Procs : req[p].at = "write_user" =>
    LET a == req[p].user IN
    /\ "quota" \in req[p].patch \/ req[p].quota = users[a].quota
    /\ "disabled" \in req[p].patch \/ req[p].disabled = users[a].disabled

LEMMA GoesAsRead ==
  ASSUME Alone, Inv, NEW p \in Procs, NEW r, Goto(p, r), r.at # "write_user"
  PROVE  AsRead'
<1>1. \A q \in Procs : req'[q] = r
  BY AloneGoes
<1> QED BY <1>1 DEF AsRead

LEMMA NextAsRead ==
  ASSUME Alone, Inv, AsRead, [Next]_vars
  PROVE  AsRead'
<1>0. Idle.at = "idle"
  BY DEF Idle
<1>1. ASSUME NEW p \in Procs, Arrivals(p) PROVE AsRead'
  <2>1. PICK r : Goto(p, r) /\ Fresh(r)
    BY <1>1, ArrivalIsNew
  <2> QED BY <2>1, GoesAsRead DEF Fresh
<1>2. ASSUME NEW p \in Procs, ReadUser(p) PROVE AsRead'
  <2> DEFINE r == req[p]
             user == users[r.user]
             s == [r EXCEPT !.at = "write_user",
                     !.quota = IF "quota" \in r.patch THEN @ ELSE user.quota,
                     !.disabled = IF "disabled" \in r.patch THEN @ ELSE user.disabled]
  <2>1. Goto(p, s) /\ UNCHANGED users /\ r \in Request
    BY <1>2 DEF ReadUser, Read, OnlyRequests, Inv, TypeOK
  <2>2. /\ s.user = r.user /\ s.patch = r.patch
        /\ "quota" \in s.patch \/ s.quota = user.quota
        /\ "disabled" \in s.patch \/ s.disabled = user.disabled
    BY <2>1 DEF Request
  <2>3. \A q \in Procs : req'[q] = s
    BY <2>1, AloneGoes
  <2> HIDE DEF s
  <2> QED BY <2>1, <2>2, <2>3 DEF AsRead
<1>3. ASSUME NEW p \in Procs, Calls(p), ~ReadUser(p) PROVE AsRead'
  <2>1. CASE req[p].at = "read_user"
    BY <1>3, <2>1 DEF Calls, ReadInvite, ReadName, CreateUser, NameTaken, MarkUsed, LoginRead,
         LoginRefused, ReadToken, Rotate, Issue, ReadLogout, RevokeLogout, WriteUser, Read
  <2>2. CASE req[p].at # "read_user"
    <3>1. PICK s : Goto(p, s) /\ Onward(p, s)
      BY <1>3, CallGoes
    <3> QED BY <2>2, <3>1, GoesAsRead DEF Onward
  <2> QED BY <2>1, <2>2
<1>4. ASSUME NEW p \in Procs, Cancel(p) PROVE AsRead'
  BY <1>0, <1>4, GoesAsRead DEF Cancel, Answer
<1>5. CASE Stop
  BY <1>0, <1>5 DEF Stop, AsRead
<1>6. CASE Boot \/ Tick \/ UNCHANGED vars
  BY <1>6 DEF Boot, Tick, vars, AsRead
<1>7. ASSUME NEW by \in Accounts, NEW c \in Codes, NEW quota \in Quotas \cup {Nil},
             CreateInvite(by, c, quota)
      PROVE  AsRead'
  BY <1>7 DEF CreateInvite, AsRead
<1> QED BY <1>1, <1>2, <1>3, <1>4, <1>5, <1>6, <1>7 DEF Next

LEMMA OmittedStay ==
  ASSUME Alone, Inv, AsRead, [Next]_vars, NEW p \in Procs, req[p].at = "write_user"
  PROVE  LET a == req[p].user IN
         /\ "quota" \in req[p].patch \/ users'[a].quota = users[a].quota
         /\ "disabled" \in req[p].patch \/ users'[a].disabled = users[a].disabled
<1>1. CASE UNCHANGED users
  BY <1>1
<1>2. CASE WriteUser(p)
  <2> DEFINE a == req[p].user
  <2>1. a \in DOMAIN users /\ users[a] \in User
    BY DEF Inv, RequestsOK, RequestOK, TypeOK, Table
  <2>2. users'[a].quota = req[p].quota /\ users'[a].disabled = req[p].disabled
    BY <1>2, <2>1 DEF WriteUser, User
  <2> QED BY <2>2 DEF AsRead
<1>3. UNCHANGED users \/ WriteUser(p)
  <2>1. ASSUME NEW q \in Procs, Calls(q) PROVE UNCHANGED users \/ WriteUser(p)
    <3>1. q = p
      BY DEF Alone
    <3>2. CASE CreateUser(q) \/ WriteUser(q)
      BY <3>1, <3>2 DEF CreateUser
    <3>3. CASE ~(CreateUser(q) \/ WriteUser(q))
      BY <2>1, <3>3 DEF Calls, ReadInvite, ReadName, NameTaken, MarkUsed, LoginRead, LoginRefused,
           ReadToken, Rotate, Issue, ReadLogout, RevokeLogout, ReadUser, Read, OnlyRequests
    <3> QED BY <3>2, <3>3
  <2>2. ASSUME NEW q \in Procs, Arrivals(q) PROVE UNCHANGED users
    BY <2>2, ArrivalIsNew DEF OnlyRequests
  <2>3. ASSUME NEW q \in Procs, Cancel(q) PROVE UNCHANGED users
    BY <2>3 DEF Cancel, OnlyRequests
  <2>4. ASSUME NEW by \in Accounts, NEW c \in Codes, NEW quota \in Quotas \cup {Nil},
               CreateInvite(by, c, quota)
        PROVE  UNCHANGED users
    BY <2>4 DEF CreateInvite
  <2>5. Boot \/ Stop \/ Tick \/ UNCHANGED vars => UNCHANGED users
    BY DEF Boot, Stop, Tick, vars
  <2> QED BY <2>1, <2>2, <2>3, <2>4, <2>5 DEF Next
<1> QED BY <1>1, <1>2, <1>3

(* With one request at a time, a PATCH leaves a field that it does not name as *)
(* it is in the row when it writes, although it writes all of them.            *)
THEOREM OmittedFieldsStay ==
  ASSUME Alone
  PROVE  Spec => OmittedFieldsAreKept
<1>1. Init => AsRead
  BY DEF Init, AsRead, Idle
<1>2. Inv /\ AsRead /\ [Next]_vars => AsRead'
  BY NextAsRead
<1>3. Inv /\ AsRead /\ [Next]_vars =>
        [\A p \in Procs : req[p].at = "write_user" =>
           LET a == req[p].user IN
           /\ "quota" \in req[p].patch \/ users'[a].quota = users[a].quota
           /\ "disabled" \in req[p].patch \/ users'[a].disabled = users[a].disabled]_vars
  BY OmittedStay
<1> QED BY <1>1, <1>2, <1>3, Invariance, PTL DEF Spec, OmittedFieldsAreKept
=============================================================================
