-------------------------------- MODULE Auth --------------------------------
(***************************************************************************)
(* Accounts, invites and sessions of one Denizen server: AuthService and   *)
(* UserService over the tables users, invites and refresh_tokens.  Each    *)
(* repository call is one SQL statement, atomic on the single connection;  *)
(* a request is the sequence of its calls, requests interleave between     *)
(* them, and a request may end between any two of them (its client went    *)
(* away and its context is cancelled, or the server stops).                *)
(***************************************************************************)
EXTENDS Integers, FiniteSets

CONSTANTS
  Procs,         \* requests that may be under way at a time
  Accounts,      \* user ids, Codes: invite codes, Tokens: refresh tokens;
  Codes,         \* each is handed out at most once (idgen, token.NewOpaque)
  Tokens,
  Names,         \* user names
  Quotas,        \* values of quota_bytes
  DefaultQuota,  \* the server's default quota
  InviteTTL, RefreshTTL, AccessTTL,
  MaxNow,        \* bound of the clock
  Offered,       \* the kinds of request that clients send
  Faults,        \* what may cut requests short: "cancel", "stop"
  Nil            \* NULL

Kinds == {"register", "invite", "login", "refresh", "logout", "patch"}

ASSUME NilIsNoValue == Nil \notin Accounts \cup Codes \cup Tokens \cup Names \cup Quotas
ASSUME DefaultIsQuota == DefaultQuota \in Quotas
ASSUME OfferedAreKinds == Offered \subseteq Kinds
ASSUME TimesAreNat == {InviteTTL, RefreshTTL, AccessTTL, MaxNow} \subseteq Nat

VARIABLES
  up,       \* the server is running
  users,    \* the users table: id -> row
  invites,  \* the invites table: code -> row
  tokens,   \* the refresh_tokens table: token -> row
  access,   \* id -> when the last access token issued to it expires
  req,      \* what each request has read, and the call it makes next
  now       \* the clock

vars == <<up, users, invites, tokens, access, req, now>>

User == [name: Names, admin: BOOLEAN, quota: Quotas, disabled: BOOLEAN]

Invite == [by: Accounts \cup {Nil}, admin: BOOLEAN, quota: Quotas \cup {Nil},
           expires: Nat, usedBy: Accounts \cup {Nil}]

\* root is no column: the token issued at the login that this one descends from.
Token == [user: Accounts, expires: Nat, revoked: BOOLEAN, root: Tokens]

Places == {"idle", "read_invite", "read_name", "create", "mark_used", "login",
           "read_token", "rotate", "issue", "read_logout", "revoke",
           "read_user", "write_user"}

\* late is no variable of the code: the refresh token presented was already
\* revoked or expired when the request came in.
Request == [at: Places, code: Codes \cup {Nil}, name: Names \cup {Nil},
            user: Accounts \cup {Nil}, token: Tokens \cup {Nil},
            patch: SUBSET {"quota", "disabled"}, quota: Quotas \cup {Nil},
            disabled: BOOLEAN, late: BOOLEAN]

Idle == [at |-> "idle", code |-> Nil, name |-> Nil, user |-> Nil, token |-> Nil,
         patch |-> {}, quota |-> Nil, disabled |-> FALSE, late |-> FALSE]

Table(f, K, R) == DOMAIN f \subseteq K /\ f \in [DOMAIN f -> R]

TypeOK ==
  /\ up \in BOOLEAN
  /\ Table(users, Accounts, User)
  /\ Table(invites, Codes, Invite)
  /\ Table(tokens, Tokens, Token)
  /\ access \in [Accounts -> Nat]
  /\ req \in [Procs -> Request]
  /\ now \in Nat

Init ==
  /\ up = FALSE
  /\ users = [a \in {} |-> Nil] /\ invites = [c \in {} |-> Nil] /\ tokens = [t \in {} |-> Nil]
  /\ access = [a \in Accounts |-> 0]
  /\ req = [p \in Procs |-> Idle]
  /\ now = 0

-----------------------------------------------------------------------------
Insert(f, k, row) == [x \in DOMAIN f \cup {k} |-> IF x = k THEN row ELSE f[x]]

GetByUsername(n) == {a \in DOMAIN users : users[a].name = n}

\* ExpiresAt < now is how the code says expired, for invites and tokens alike.
Expired(row) == row.expires < now

Redeemable(c) ==
  c \in DOMAIN invites /\ invites[c].usedBy = Nil /\ ~Expired(invites[c])

Usable(t) == t \in DOMAIN tokens /\ ~tokens[t].revoked /\ ~Expired(tokens[t])

\* RequireAuth and RequireAdmin: an access token that has not expired, with the
\* is_admin claim.  They do not look at the users table; is_admin never changes.
ActsAsAdmin(a) == a \in DOMAIN users /\ users[a].admin /\ now < access[a]

\* A request arrives, goes on to its next call with what it has read, or is
\* answered.  Most calls only read: then the tables stay as they are.
OnlyRequests == UNCHANGED <<up, users, invites, tokens, access, now>>

Goto(p, r) == req' = [req EXCEPT ![p] = r]
Answer(p) == Goto(p, Idle)
At(p, place) == [req[p] EXCEPT !.at = place]

Arrive(p, kind, r) == up /\ kind \in Offered /\ req[p] = Idle /\ Goto(p, r) /\ OnlyRequests

Read(p, place, ok, r) ==
  /\ req[p].at = place
  /\ IF ok THEN Goto(p, r) ELSE Answer(p)
  /\ OnlyRequests

-----------------------------------------------------------------------------
(* The server. *)

NewInvite(c, by, admin, quota) ==
  /\ c \notin DOMAIN invites
  /\ invites' = Insert(invites, c, [by |-> by, admin |-> admin, quota |-> quota,
                                    expires |-> now + InviteTTL, usedBy |-> Nil])

\* Mutant: every start makes a bootstrap invite.
BootAlways ==
  /\ ~up
  /\ up' = TRUE
  /\ \E c \in Codes : NewInvite(c, Nil, TRUE, Nil)
  /\ UNCHANGED <<users, tokens, access, req, now>>

\* EnsureBootstrapInvite, before the server listens.
Boot ==
  /\ ~up
  /\ up' = TRUE
  /\ IF DOMAIN users = {}
       THEN \E c \in Codes : NewInvite(c, Nil, TRUE, Nil)
       ELSE UNCHANGED invites
  /\ UNCHANGED <<users, tokens, access, req, now>>

\* A crash, or a shutdown: requests under way end where they are.
Stop ==
  /\ up /\ "stop" \in Faults
  /\ up' = FALSE
  /\ req' = [p \in Procs |-> Idle]
  /\ UNCHANGED <<users, invites, tokens, access, now>>

\* The client is gone, and with it the context of the calls still to be made.
Cancel(p) == "cancel" \in Faults /\ req[p] # Idle /\ Answer(p) /\ OnlyRequests

Tick == now < MaxNow /\ now' = now + 1 /\ UNCHANGED <<up, users, invites, tokens, access, req>>

-----------------------------------------------------------------------------
(* Register *)

Register(p, c, n) ==
  Arrive(p, "register", [Idle EXCEPT !.at = "read_invite", !.code = c, !.name = n])

\* Mutant: only the expiry is checked.
ReadInviteUsed(p) ==
  Read(p, "read_invite", req[p].code \in DOMAIN invites /\ ~Expired(invites[req[p].code]),
       At(p, "read_name"))

ReadInvite(p) == Read(p, "read_invite", Redeemable(req[p].code), At(p, "read_name"))

ReadName(p) == Read(p, "read_name", GetByUsername(req[p].name) = {}, At(p, "create"))

\* Mutant: the invite's quota is copied as it is, NULL included.
GrantedAsIs(invite) == invite.quota

Granted(invite) == IF invite.quota = Nil THEN DefaultQuota ELSE invite.quota

NewUser(p, quota) ==
  \E a \in Accounts \ DOMAIN users :
    /\ users' = Insert(users, a, [name |-> req[p].name, quota |-> quota, disabled |-> FALSE,
                                  admin |-> invites[req[p].code].admin])
    /\ Goto(p, [req[p] EXCEPT !.at = "mark_used", !.user = a])
    /\ UNCHANGED <<up, invites, tokens, access, now>>

\* Mutant: username is not UNIQUE.
CreateUserUnchecked(p) == req[p].at = "create" /\ NewUser(p, Granted(invites[req[p].code]))

\* The INSERT fails when the name is taken by now: username is UNIQUE.
CreateUser(p) ==
  /\ req[p].at = "create"
  /\ GetByUsername(req[p].name) = {}
  /\ NewUser(p, Granted(invites[req[p].code]))

NameTaken(p) ==
  req[p].at = "create" /\ GetByUsername(req[p].name) # {} /\ Answer(p) /\ OnlyRequests

\* Mutant: the UPDATE has no "AND used_at IS NULL".
MarkUsedAgain(p) ==
  /\ req[p].at = "mark_used"
  /\ invites' = [invites EXCEPT ![req[p].code].usedBy = req[p].user]
  /\ Answer(p)
  /\ UNCHANGED <<up, users, tokens, access, now>>

\* UPDATE ... WHERE used_at IS NULL; who comes too late is told so.
MarkUsed(p) ==
  /\ req[p].at = "mark_used"
  /\ IF invites[req[p].code].usedBy = Nil
       THEN invites' = [invites EXCEPT ![req[p].code].usedBy = req[p].user]
       ELSE UNCHANGED invites
  /\ Answer(p)
  /\ UNCHANGED <<up, users, tokens, access, now>>

\* One statement; the route is for admins.
CreateInvite(by, c, quota) ==
  /\ up /\ "invite" \in Offered /\ ActsAsAdmin(by)
  /\ NewInvite(c, by, FALSE, quota)
  /\ UNCHANGED <<up, users, tokens, access, req, now>>

-----------------------------------------------------------------------------
(* Login, Refresh, Logout *)

Login(p, n) == Arrive(p, "login", [Idle EXCEPT !.at = "login", !.name = n])

LoginRead(p) ==
  /\ req[p].at = "login"
  /\ \E a \in GetByUsername(req[p].name) :
       ~users[a].disabled /\ Goto(p, [req[p] EXCEPT !.at = "issue", !.user = a])
  /\ OnlyRequests

\* Unknown name, disabled account, or the wrong password.
LoginRefused(p) == req[p].at = "login" /\ Answer(p) /\ OnlyRequests

Refresh(p, t) ==
  t \in DOMAIN tokens /\
  Arrive(p, "refresh", [Idle EXCEPT !.at = "read_token", !.token = t, !.late = ~Usable(t)])

Rotation(p) == [req[p] EXCEPT !.at = "rotate", !.user = tokens[req[p].token].user]

\* Mutant: a revoked token is as good as another.
ReadTokenRevoked(p) == Read(p, "read_token", ~Expired(tokens[req[p].token]), Rotation(p))

\* Mutant: the expiry is not looked at.
ReadTokenExpired(p) == Read(p, "read_token", ~tokens[req[p].token].revoked, Rotation(p))

ReadToken(p) == Read(p, "read_token", Usable(req[p].token), Rotation(p))

Revoke(t) == tokens' = [tokens EXCEPT ![t].revoked = TRUE]

\* Mutant: a refresh leaves the token presented as it is.
RotateKeeps(p) == Read(p, "rotate", TRUE, At(p, "issue"))

Rotate(p) ==
  /\ req[p].at = "rotate"
  /\ Revoke(req[p].token)
  /\ Goto(p, At(p, "issue"))
  /\ UNCHANGED <<up, users, invites, access, now>>

\* issueTokenPair, the last call of Login and of Refresh.
Issue(p) ==
  /\ req[p].at = "issue"
  /\ \E t \in Tokens \ DOMAIN tokens :
       tokens' = Insert(tokens, t,
         [user |-> req[p].user, expires |-> now + RefreshTTL, revoked |-> FALSE,
          root |-> IF req[p].token = Nil THEN t ELSE tokens[req[p].token].root])
  /\ access' = [access EXCEPT ![req[p].user] = now + AccessTTL]
  /\ Answer(p)
  /\ UNCHANGED <<up, users, invites, now>>

Logout(p, t) ==
  t \in DOMAIN tokens /\
  Arrive(p, "logout", [Idle EXCEPT !.at = "read_logout", !.token = t])

ReadLogout(p) == Read(p, "read_logout", ~tokens[req[p].token].revoked, At(p, "revoke"))

RevokeLogout(p) ==
  /\ req[p].at = "revoke"
  /\ Revoke(req[p].token)
  /\ Answer(p)
  /\ UNCHANGED <<up, users, invites, access, now>>

-----------------------------------------------------------------------------
(* UserService.Update: PATCH /users/{id} with the fields in patch. *)

Patch(p, by, a, patch, quota, disabled) ==
  /\ ActsAsAdmin(by)
  /\ "quota" \in patch <=> quota # Nil
  /\ "disabled" \notin patch => ~disabled
  /\ Arrive(p, "patch", [Idle EXCEPT !.at = "read_user", !.user = a, !.patch = patch,
                                     !.quota = quota, !.disabled = disabled])

\* Mutant: what the caller did not send is the zero value.
ReadUserZero(p) ==
  Read(p, "read_user", TRUE, [req[p] EXCEPT !.at = "write_user",
                                !.quota = IF @ = Nil THEN DefaultQuota ELSE @])

\* What the caller did not send is filled in from the row as it is now.
ReadUser(p) ==
  LET user == users[req[p].user] IN
  Read(p, "read_user", TRUE,
       [req[p] EXCEPT !.at = "write_user",
          !.quota = IF "quota" \in req[p].patch THEN @ ELSE user.quota,
          !.disabled = IF "disabled" \in req[p].patch THEN @ ELSE user.disabled])

WriteUser(p) ==
  /\ req[p].at = "write_user"
  /\ users' = [users EXCEPT ![req[p].user].quota = req[p].quota,
                            ![req[p].user].disabled = req[p].disabled]
  /\ Answer(p)
  /\ UNCHANGED <<up, invites, tokens, access, now>>

-----------------------------------------------------------------------------
Arrivals(p) ==
  \/ \E c \in Codes, n \in Names : Register(p, c, n)
  \/ \E n \in Names : Login(p, n)
  \/ \E t \in Tokens : Refresh(p, t) \/ Logout(p, t)
  \/ \E by \in Accounts, a \in DOMAIN users, patch \in SUBSET {"quota", "disabled"},
        quota \in Quotas \cup {Nil}, disabled \in BOOLEAN :
       Patch(p, by, a, patch, quota, disabled)

Calls(p) ==
  \/ ReadInvite(p) \/ ReadName(p) \/ CreateUser(p) \/ NameTaken(p) \/ MarkUsed(p)
  \/ LoginRead(p) \/ LoginRefused(p) \/ ReadToken(p) \/ Rotate(p) \/ Issue(p)
  \/ ReadLogout(p) \/ RevokeLogout(p) \/ ReadUser(p) \/ WriteUser(p)

Next ==
  \/ Boot \/ Stop \/ Tick
  \/ \E by \in Accounts, c \in Codes, quota \in Quotas \cup {Nil} : CreateInvite(by, c, quota)
  \/ \E p \in Procs : Arrivals(p) \/ Calls(p) \/ Cancel(p)

Spec == Init /\ [][Next]_vars

-----------------------------------------------------------------------------
(* Properties *)

\* Whatever registrations race or stop halfway, a code is redeemed once, by an
\* account that redeemed no other, for good (Register, MarkUsed).
RedeemedBy == [c \in {d \in DOMAIN invites : invites[d].usedBy # Nil} |-> invites[c].usedBy]
Promise == INSTANCE Invitation WITH issued <- DOMAIN invites, redeemed <- RedeemedBy
InvitesAreOneShot == Promise!Spec

\* Two accounts never have one name, although Register looks for the name and
\* inserts it in separate calls.
NamesAreUnique == \A a, b \in DOMAIN users : users[a].name = users[b].name => a = b

\* A refresh whose token was revoked or had expired when the request came in
\* never gets as far as rotating it or issuing another, however it interleaves.
LateRefreshFails == \A p \in Procs : req[p].late => req[p].at \in {"idle", "read_token"}

\* Once no token that descends from a login is good any more (logged out,
\* expired) and no refresh is past its check of one, the session is over for
\* good: no request revives it.
Family(r) == {t \in DOMAIN tokens : tokens[t].root = r}
Rotating(p, r) == req[p].at \in {"rotate", "issue"} /\ req[p].token \in Family(r)
Over(r) == (\A t \in Family(r) : ~Usable(t)) /\ (\A p \in Procs : ~Rotating(p, r))
SessionsStayOver == [][\A r \in DOMAIN tokens : Over(r) => Over(r)']_vars

\* Admins come from the time when the server was set up: with an account in the
\* table, every bootstrap invite used or expired and no registration past its
\* check of one, nothing makes another admin, restarts included.
Admins == {a \in DOMAIN users : users[a].admin}
Founding ==
  \/ DOMAIN users = {}
  \/ \E c \in Codes : Redeemable(c) /\ invites[c].admin
  \/ \E p \in Procs : req[p].at \in {"read_name", "create"} /\ invites[req[p].code].admin
FoundingEnds == [][~Founding => ~Founding' /\ Admins' = Admins]_vars

\* An account stands for a redeemed code: "we don't leave a dangling account
\* behind with no valid invite to show for it" (auth.go).
Redeems(a) ==
  \/ \E c \in DOMAIN invites : invites[c].usedBy = a
  \/ \E p \in Procs : req[p].at = "mark_used" /\ req[p].user = a
NoDanglingAccount == \A a \in DOMAIN users : Redeems(a)

\* Rotation leaves one good token per login: the one presented is revoked, and
\* replaying it yields nothing (auth.go, Refresh).
OneTokenPerLogin ==
  \A t, u \in DOMAIN tokens : tokens[t].root = tokens[u].root /\ Usable(t) /\ Usable(u) => t = u

\* A field that a PATCH leaves out keeps the value it has (handler/user.go, Update).
OmittedFieldsAreKept ==
  [][\A p \in Procs : req[p].at = "write_user" =>
       LET a == req[p].user IN
       /\ "quota" \in req[p].patch \/ users'[a].quota = users[a].quota
       /\ "disabled" \in req[p].patch \/ users'[a].disabled = users[a].disabled]_vars
=============================================================================
