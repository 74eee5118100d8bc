---------------------------- MODULE GrantsProofs ----------------------------
(***************************************************************************)
(* Theorems about Grants for any numbers of requests, users, items and     *)
(* grants, and any kinds of request.                                       *)
(***************************************************************************)
EXTENDS Grants, TLAPS

\* A parent is a real folder of the same owner, and ids are not reused.
TreeOK ==
  /\ Live \subseteq spent
  /\ \A x \in Live : items[x].parent # Nil =>
       /\ items[x].parent \in Live
       /\ items[items[x].parent].owner = items[x].owner
       /\ IsReal(items[x].parent)

Rooted == ~StaleMoves => TreeIsAcyclic

\* A request to share is past its only check when the item is the caller's own.
SharesOwn(r) ==
  /\ r.at \in {"get", "act", "insert"}
  /\ Len(r.checks) = 1 /\ r.k = 1 /\ r.checks[1].level = "own"
  /\ r.with \in Users /\ r.with # r.by
  /\ r.permission \in {"view", "edit"}
  /\ ItemOf(r) \in spent
  /\ r.at # "get" /\ ItemOf(r) \in Live => items[ItemOf(r)].owner = r.by

\* What a request under way holds, whatever became of the tables meanwhile.
RequestOK(r) ==
  r.at # "idle" =>
    /\ r.op \in Kinds
    /\ r.op # "visit" => r.by \in Users
    /\ r.at = "visit" => r.op = "visit"
    /\ r.at = "insert" => r.op = "share"
    /\ r.op = "share" => SharesOwn(r)
    /\ r.dest # Nil => r.dest \in spent /\ (r.dest \in Live => IsReal(r.dest))

RequestsOK == \A q \in Procs : RequestOK(req[q])

Inv == TypeOK /\ TreeOK /\ Rooted /\ GrantsAreTheOwners /\ RequestsOK

\* What no step undoes of the items that were ever there.
Kept ==
  /\ spent \subseteq spent'
  /\ \A x \in spent : x \in Live' =>
       /\ x \in Live
       /\ items'[x].owner = items[x].owner
       /\ items'[x].target = items[x].target

-----------------------------------------------------------------------------
(* Lemmas about the operators. *)

LEMMA BelowContains == ASSUME NEW x, NEW S PROVE x \in Below(x, S)
  BY DEF Below

LEMMA BelowInside == ASSUME NEW x, NEW S PROVE Below(x, S) \subseteq S \cup {x}
  BY DEF Below

\* What lies in something below x lies below x.
LEMMA BelowClosed ==
  ASSUME NEW x, NEW S, NEW y \in S, items[y].parent \in Below(x, S)
  PROVE  y \in Below(x, S)
  BY DEF Below

LEMMA HoldingType ==
  ASSUME NEW u, NEW link, NEW checks \in Seq(Check)
  PROVE  Holding(u, link, checks) \in SUBSET Nat
  BY DEF Holding

LEMMA NeedType ==
  ASSUME NEW level \in Levels, NEW x \in Ids \cup {Nil}
  PROVE  Need(level, x) \in Seq(Check)
  <1>1. CASE x = Nil
    BY <1>1 DEF Need
  <1>2. CASE x # Nil
    <2>1. [item |-> x, level |-> level] \in Check
      BY <1>2 DEF Check
    <2> QED BY <1>2, <2>1 DEF Need
  <1> QED BY <1>1, <1>2

LEMMA ItemTypes ==
  ASSUME TypeOK, NEW x \in Live
  PROVE  /\ x \in Ids /\ items[x] \in Item
         /\ items[x].parent \in Ids \cup {Nil} /\ items[x].target \in Ids \cup {Nil}
         /\ items[x].owner \in Users
  BY DEF TypeOK, Table, Live, Item

LEMMA FollowType ==
  ASSUME TypeOK, NEW level \in Levels, NEW x \in Ids \cup {Nil}
  PROVE  Follow(level, x) \in Seq(Check)
  <1>1. Need(level, x) \in Seq(Check)
    BY NeedType
  <1>2. (IF x \in Live THEN Need(level, items[x].target) ELSE <<>>) \in Seq(Check)
    BY NeedType, ItemTypes
  <1> QED BY <1>1, <1>2 DEF Follow

LEMMA ChecksType ==
  ASSUME TypeOK, NEW op \in Kinds \ {"visit"}, NEW x \in Ids \cup {Nil}, NEW dest \in Ids \cup {Nil}
  PROVE  ChecksOf(op, x, dest) \in Seq(Check)
  <1>1. \A level \in Levels : /\ Need(level, x) \in Seq(Check)
                              /\ Need(level, dest) \in Seq(Check)
                              /\ Follow(level, x) \in Seq(Check)
    BY NeedType, FollowType
  <1>2. \A s, t \in Seq(Check) : s \o t \in Seq(Check)
    OBVIOUS
  <1> QED BY <1>1, <1>2 DEF ChecksOf, Kinds, Levels

\* Requests are records of many fields; one field at a time they keep to their type.
Set(r, f, v) == [r EXCEPT ![f] = v]

LEMMA SetType ==
  ASSUME NEW r \in Request
  PROVE  /\ \A v \in Places : Set(r, "at", v) \in Request
         /\ \A v \in Kinds : Set(r, "op", v) \in Request
         /\ \A v \in Seq(Check) : Set(r, "checks", v) \in Request
         /\ \A v \in Nat : Set(r, "k", v) \in Request
         /\ \A v \in {"view", "edit", Nil} : Set(r, "permission", v) \in Request
         /\ \A v \in LinkIds \cup {Nil} : Set(r, "link", v) \in Request
         /\ \A v \in SUBSET Nat : Set(r, "held", v) \in Request
         /\ \A v \in 0..2 : Set(r, "changes", v) \in Request
  <1>1. /\ \A v \in Places : Set(r, "at", v) \in Request
        /\ \A v \in Kinds : Set(r, "op", v) \in Request
    BY DEF Set, Request
  <1>2. /\ \A v \in Seq(Check) : Set(r, "checks", v) \in Request
        /\ \A v \in Nat : Set(r, "k", v) \in Request
    BY DEF Set, Request
  <1>3. /\ \A v \in {"view", "edit", Nil} : Set(r, "permission", v) \in Request
        /\ \A v \in LinkIds \cup {Nil} : Set(r, "link", v) \in Request
    BY DEF Set, Request
  <1>4. \A v \in 0..2 : Set(r, "changes", v) \in Request
    BY DEF Set, Request
  <1>5. ASSUME NEW v \in SUBSET Nat PROVE Set(r, "held", v) \in Request
    <2> DEFINE s == [r EXCEPT !.held = v]
    <2>1. s.held = v
      BY DEF Request
    <2>2. DOMAIN s = DOMAIN r /\ s = [f \in DOMAIN r |-> s[f]]
      BY DEF Request
    <2>3. \A f \in DOMAIN r : f # "held" => s[f] = r[f]
      BY DEF Request
    <2>4. Set(r, "held", v) = s
      BY DEF Set
    <2> HIDE DEF s
    <2>5. s.checks \in Seq(Check) /\ s.at \in Places
      BY <2>3 DEF Request
    <2>6. s \in Request
      BY <2>1, <2>2, <2>3, <2>5 DEF Request
    <2> QED BY <2>4, <2>6
  <1> QED BY <1>1, <1>2, <1>3, <1>4, <1>5

LEMMA SetUsers ==
  ASSUME NEW r \in Request, NEW v \in Users \cup {Nil}
  PROVE  Set(r, "by", v) \in Request /\ Set(r, "with", v) \in Request
  BY DEF Set, Request

LEMMA SetItems ==
  ASSUME NEW r \in Request, NEW v \in Ids \cup {Nil}
  PROVE  /\ Set(r, "cur", v) \in Request /\ Set(r, "up", v) \in Request
         /\ Set(r, "from", v) \in Request /\ Set(r, "dest", v) \in Request
  <1>1. Set(r, "cur", v) \in Request /\ Set(r, "up", v) \in Request
    BY DEF Set, Request
  <1>2. Set(r, "from", v) \in Request /\ Set(r, "dest", v) \in Request
    BY DEF Set, Request
  <1> QED BY <1>1, <1>2

LEMMA IdleOK == Idle \in Request /\ RequestOK(Idle)
  BY DEF Idle, Request, Places, RequestOK

-----------------------------------------------------------------------------
(* What happens to requests. *)

\* A step that only moves one request on.
LEMMA GotoInv ==
  ASSUME Inv, NEW p \in Procs, NEW r \in Request, RequestOK(r), Goto(p, r), OnlyRequests
  PROVE  Inv'
  <1>1. req' \in [Procs -> Request] /\ \A q \in Procs : req'[q] = r \/ req'[q] = req[q]
    BY DEF Inv, TypeOK, Goto
  <1>2. TypeOK'
    BY <1>1 DEF Inv, TypeOK, OnlyRequests
  <1>3. TreeOK' /\ Rooted' /\ GrantsAreTheOwners'
    BY DEF Inv, TreeOK, Rooted, GrantsAreTheOwners, OnlyRequests, Live, IsReal, TreeIsAcyclic,
           FindGrant
  <1>4. \A s : RequestOK(s) => RequestOK(s)'
    BY DEF RequestOK, SharesOwn, OnlyRequests, Live, IsReal, ItemOf
  <1>5. RequestsOK'
    BY <1>1, <1>4 DEF Inv, RequestsOK
  <1> QED BY <1>2, <1>3, <1>5 DEF Inv

LEMMA RefuseInv ==
  ASSUME Inv, NEW p \in Procs, Refuse(p), OnlyRequests
  PROVE  Inv'
  BY GotoInv, IdleOK DEF Refuse

\* Requests under way stand what other requests do to the items.
LEMMA RequestsKept ==
  ASSUME Kept
  PROVE  \A r : RequestOK(r) => RequestOK(r)'
  <1> SUFFICES ASSUME NEW r, RequestOK(r), r.at # "idle"
               PROVE  RequestOK(r)'
    BY DEF RequestOK
  <1>1. r.dest \in spent /\ r.dest \in Live' /\ (r.dest \in Live => IsReal(r.dest)) => IsReal(r.dest)'
    BY DEF Kept, IsReal
  <1>2. SharesOwn(r) => SharesOwn(r)'
    BY DEF SharesOwn, Kept, ItemOf
  <1> QED BY <1>1, <1>2 DEF RequestOK, Kept

NoticedRequest(r) == [r EXCEPT !.changes = IF @ = 0 THEN 1 ELSE 2]

LEMMA NoticedRequestOK ==
  ASSUME NEW r \in Request, RequestOK(r)
  PROVE  NoticedRequest(r) \in Request /\ RequestOK(NoticedRequest(r))
  <1>1. NoticedRequest(r) \in Request
    <2>1. NoticedRequest(r) = Set(r, "changes", IF r.changes = 0 THEN 1 ELSE 2)
      BY DEF NoticedRequest, Set
    <2> QED BY <2>1, SetType
  <1>2. /\ NoticedRequest(r).at = r.at /\ NoticedRequest(r).op = r.op
        /\ NoticedRequest(r).by = r.by /\ NoticedRequest(r).dest = r.dest
        /\ NoticedRequest(r).checks = r.checks /\ NoticedRequest(r).k = r.k
        /\ NoticedRequest(r).with = r.with /\ NoticedRequest(r).permission = r.permission
    BY DEF NoticedRequest, Request
  <1> QED BY <1>1, <1>2 DEF RequestOK, SharesOwn, ItemOf

\* The tables change, by a request that ends with it or by the owner.
LEMMA NoticedInv ==
  ASSUME Inv, Kept, req' = Noticed \/ \E p \in Procs : Change(p)
  PROVE  req' \in [Procs -> Request] /\ RequestsOK'
  <1>1. \A q \in Procs : req[q] \in Request /\ RequestOK(req[q])
    BY DEF Inv, TypeOK, RequestsOK
  <1>2. /\ DOMAIN req' = Procs /\ req' = [q \in Procs |-> req'[q]]
        /\ \A q \in Procs : req'[q] \in {Idle, req[q], NoticedRequest(req[q])}
    BY DEF Noticed, Change, NoticedRequest
  <1>3. \A q \in Procs : req'[q] \in Request /\ RequestOK(req'[q])
    <2> SUFFICES ASSUME NEW q \in Procs
                 PROVE  req'[q] \in Request /\ RequestOK(req'[q])
      OBVIOUS
    <2>1. NoticedRequest(req[q]) \in Request /\ RequestOK(NoticedRequest(req[q]))
      BY <1>1, NoticedRequestOK
    <2> QED BY <1>1, <1>2, <2>1, IdleOK
  <1>4. RequestsOK'
    BY <1>3, RequestsKept DEF RequestsOK
  <1> QED BY <1>2, <1>3, <1>4

-----------------------------------------------------------------------------
(* Each action keeps the invariant. *)

LEMMA InitInv == Init => Inv
  <1> SUFFICES ASSUME Init PROVE Inv
    OBVIOUS
  <1>1. TypeOK
    BY IdleOK, MaxNowIsNat DEF Init, TypeOK, Table
  <1>2. Live = {} /\ DOMAIN grants = {}
    BY DEF Init, Live
  <1>3. RequestsOK
    BY IdleOK DEF Init, RequestsOK
  <1>4. TreeOK
    BY <1>2 DEF TreeOK
  <1>5. Rooted
    BY <1>2 DEF Rooted, TreeIsAcyclic
  <1>6. GrantsAreTheOwners
    BY <1>2 DEF GrantsAreTheOwners
  <1> QED BY <1>1, <1>3, <1>4, <1>5, <1>6 DEF Inv

LEMMA FolderFacts ==
  ASSUME Inv, NEW dest \in Folders
  PROVE  dest \in Ids \cup {Nil} /\ (dest # Nil => dest \in spent /\ dest \in Live /\ IsReal(dest))
  BY ItemTypes DEF Inv, Folders, TreeOK

\* A request that arrives, as it was sent and with what it is about.
LEMMA ArriveFacts ==
  ASSUME NEW p \in Procs, NEW op \in Kinds, NEW a \in Request, Arrive(p, op, a)
  PROVE  \E r \in Request :
           /\ Goto(p, r) /\ OnlyRequests
           /\ r.op = op /\ r.at = a.at /\ r.by = a.by /\ r.checks = a.checks /\ r.k = a.k
           /\ r.dest = a.dest /\ r.with = a.with /\ r.permission = a.permission
  <1> DEFINE e == Holding(a.by, a.link, a.checks)
             r == [a EXCEPT !.op = op, !.held = e]
  <1>1. e \in SUBSET Nat
    <2>1. a.checks \in Seq(Check)
      BY DEF Request
    <2> QED BY <2>1, HoldingType
  <1>2. Goto(p, r) /\ OnlyRequests
    BY DEF Arrive
  <1> HIDE DEF e
  <1>3. r \in Request
    <2>1. r = Set(Set(a, "op", op), "held", e)
      BY DEF Set
    <2> HIDE DEF r
    <2> QED BY <1>1, <2>1, SetType
  <1>4. /\ r.op = op /\ r.at = a.at /\ r.by = a.by /\ r.checks = a.checks /\ r.k = a.k
        /\ r.dest = a.dest /\ r.with = a.with /\ r.permission = a.permission
    BY DEF Request
  <1> HIDE DEF r
  <1> QED BY <1>2, <1>3, <1>4

LEMMA SendInv ==
  ASSUME Inv, NEW p \in Procs, NEW u \in Users, NEW op \in Kinds \ {"visit", "share"},
         NEW x \in Ids \cup {Nil}, NEW dest \in Folders, Send(p, u, op, x, dest)
  PROVE  Inv'
  <1> DEFINE checks == ChecksOf(op, x, dest)
             at == IF checks = <<>> THEN "act" ELSE "get"
             a == [Idle EXCEPT !.at = at, !.by = u, !.checks = checks, !.dest = dest]
  <1>1. checks \in Seq(Check)
    BY ChecksType, FolderFacts DEF Inv
  <1>2. Arrive(p, op, a)
    BY DEF Send
  <1>3. at \in {"act", "get"}
    OBVIOUS
  <1> HIDE DEF checks, at
  <1>4. a \in Request /\ a.at = at /\ a.by = u /\ a.dest = dest
    <2>1. a.at = at /\ a.by = u /\ a.dest = dest
      BY DEF Idle
    <2>2. a = Set(Set(Set(Set(Idle, "at", at), "by", u), "checks", checks), "dest", dest)
      BY DEF Set
    <2> HIDE DEF a
    <2>3. Set(Set(Set(Idle, "at", at), "by", u), "checks", checks) \in Request
      BY <1>1, <1>3, IdleOK, SetType, SetUsers DEF Places
    <2> QED BY <2>1, <2>2, <2>3, SetItems, FolderFacts
  <1> HIDE DEF a
  <1>5. PICK r \in Request : /\ Goto(p, r) /\ OnlyRequests
                             /\ r.op = op /\ r.at = at /\ r.by = u /\ r.dest = dest
    BY <1>2, <1>4, ArriveFacts
  <1>6. RequestOK(r)
    BY <1>3, <1>5, FolderFacts DEF RequestOK
  <1> QED BY <1>5, <1>6, GotoInv

LEMMA ShareInv ==
  ASSUME Inv, NEW p \in Procs, NEW u \in Users, NEW with \in Users, NEW x \in Live,
         NEW permission \in {"view", "edit", Nil}, Share(p, u, x, with, permission)
  PROVE  Inv'
  <1> DEFINE checks == Need("own", x)
             given == PermissionOf(permission)
             a == [Idle EXCEPT !.at = "get", !.by = u, !.checks = checks,
                               !.with = with, !.permission = given]
  <1>1. x \in Ids /\ x \in spent /\ x # Nil
    BY ItemTypes, NilIsNothing DEF Inv, TreeOK
  <1>2. checks \in Seq(Check) /\ checks = <<[item |-> x, level |-> "own"]>>
    BY <1>1, NeedType DEF Need, Levels
  <1>3. given \in {"view", "edit"}
    BY DEF PermissionOf
  <1>4. Arrive(p, "share", a) /\ with # u
    BY DEF Share
  <1> HIDE DEF checks, given
  <1>5. /\ a \in Request /\ a.at = "get" /\ a.by = u /\ a.checks = checks /\ a.k = 1
        /\ a.dest = Nil /\ a.with = with /\ a.permission = given
    <2> DEFINE b == Set(Set(Set(Idle, "at", "get"), "by", u), "checks", checks)
    <2>1. /\ a.at = "get" /\ a.by = u /\ a.checks = checks /\ a.k = 1
          /\ a.dest = Nil /\ a.with = with /\ a.permission = given
      BY DEF Idle
    <2>2. a = Set(Set(b, "with", with), "permission", given)
      BY DEF Set
    <2> HIDE DEF a
    <2>3. b \in Request
      BY <1>2, IdleOK, SetType, SetUsers DEF Places
    <2> HIDE DEF b
    <2> QED BY <1>3, <2>1, <2>2, <2>3, SetType, SetUsers
  <1> HIDE DEF a
  <1>6. PICK r \in Request :
          /\ Goto(p, r) /\ OnlyRequests
          /\ r.op = "share" /\ r.at = "get" /\ r.by = u /\ r.checks = checks /\ r.k = 1
          /\ r.dest = Nil /\ r.with = with /\ r.permission = given
    BY <1>4, <1>5, ArriveFacts DEF Kinds
  <1>7. RequestOK(r)
    BY <1>1, <1>2, <1>3, <1>4, <1>6 DEF RequestOK, SharesOwn, ItemOf, Kinds
  <1> QED BY <1>6, <1>7, GotoInv

LEMMA VisitInv ==
  ASSUME Inv, NEW p \in Procs, NEW u \in Users \cup {Nil}, NEW l \in LinkIds, Visit(p, u, l)
  PROVE  Inv'
  <1> DEFINE checks == Need("active", links[l].item)
             a == [Idle EXCEPT !.at = "visit", !.by = u, !.link = l, !.checks = checks]
  <1>1. links[l].item \in Ids
    BY DEF Inv, TypeOK, Table, Link, Visit
  <1>2. checks \in Seq(Check)
    BY <1>1, NeedType DEF Levels
  <1>3. Arrive(p, "visit", a)
    BY DEF Visit
  <1> HIDE DEF checks
  <1>4. a \in Request /\ a.at = "visit" /\ a.dest = Nil
    <2>1. a.at = "visit" /\ a.dest = Nil
      BY DEF Idle
    <2>2. a = Set(Set(Set(Set(Idle, "at", "visit"), "by", u), "link", l), "checks", checks)
      BY DEF Set
    <2> HIDE DEF a
    <2>3. Set(Set(Idle, "at", "visit"), "by", u) \in Request
      BY IdleOK, SetType, SetUsers DEF Places
    <2> QED BY <1>2, <2>1, <2>2, <2>3, SetType
  <1> HIDE DEF a
  <1>5. PICK r \in Request : /\ Goto(p, r) /\ OnlyRequests
                             /\ r.op = "visit" /\ r.at = "visit" /\ r.dest = Nil
    BY <1>3, <1>4, ArriveFacts DEF Kinds
  <1>6. RequestOK(r)
    BY <1>5 DEF RequestOK, Kinds
  <1> QED BY <1>5, <1>6, GotoInv

LEMMA BeginInv ==
  ASSUME Inv, NEW p \in Procs, Begin(p)
  PROVE  Inv'
  <1>1. Nil \in Folders
    BY DEF Folders
  <1>2. ASSUME NEW u \in Users, NEW op \in {"get", "open", "save", "star", "trash", "link"},
               NEW x \in Live, Send(p, u, op, x, Nil)
        PROVE  Inv'
    BY <1>1, <1>2, SendInv, ItemTypes DEF Inv, Kinds
  <1>3. ASSUME NEW u \in Users, NEW op \in {"shortcut", "copy", "move"}, NEW x \in Live,
               NEW dest \in Folders, Send(p, u, op, x, dest)
        PROVE  Inv'
    BY <1>3, SendInv, ItemTypes DEF Inv, Kinds
  <1>4. ASSUME NEW u \in Users, NEW dest \in Folders, Send(p, u, "create", Nil, dest)
        PROVE  Inv'
    BY <1>4, SendInv DEF Kinds
  <1> QED BY <1>2, <1>3, <1>4, ShareInv, VisitInv DEF Begin

LEMMA ResolveInv ==
  ASSUME Inv, NEW p \in Procs, Resolve(p)
  PROVE  Inv'
  <1> DEFINE r == [req[p] EXCEPT !.at = "get"]
  <1>1. req[p] \in Request /\ RequestOK(req[p]) /\ req[p].op = "visit"
    BY DEF Inv, TypeOK, RequestsOK, RequestOK, Resolve
  <1>2. r \in Request
    BY <1>1, SetType DEF Set, Places
  <1>3. RequestOK(r)
    BY <1>1 DEF RequestOK, Request, Resolve
  <1>4. (Goto(p, r) \/ Refuse(p)) /\ OnlyRequests
    BY DEF Resolve
  <1> QED BY <1>2, <1>3, <1>4, GotoInv, RefuseInv

\* Steps of a request under way, as updates of its record.
WithoutWalk(r) == [r EXCEPT !.cur = Nil, !.up = Nil]
OnToNext(r, k) == [r EXCEPT !.at = "get", !.k = k]
OnToAct(r) == [r EXCEPT !.at = "act", !.k = 1, !.held = {}]
HavingRead(r, x, up, from) == [r EXCEPT !.cur = x, !.up = up, !.from = from]
ToFind(r) == [r EXCEPT !.at = "find"]

SameTask(s, r) ==
  /\ s.by = r.by /\ s.op = r.op /\ s.checks = r.checks /\ s.dest = r.dest
  /\ s.with = r.with /\ s.permission = r.permission

LEMMA StepTypes ==
  ASSUME NEW r \in Request
  PROVE  /\ WithoutWalk(r) \in Request /\ SameTask(WithoutWalk(r), r) /\ WithoutWalk(r).k = r.k
         /\ \A k \in Nat : /\ OnToNext(r, k) \in Request /\ SameTask(OnToNext(r, k), r)
                          /\ OnToNext(r, k).at = "get"
         /\ OnToAct(r) \in Request /\ SameTask(OnToAct(r), r)
         /\ OnToAct(r).at = "act" /\ OnToAct(r).k = 1
         /\ ToFind(r) \in Request /\ SameTask(ToFind(r), r) /\ ToFind(r).at = "find"
  <1>1. WithoutWalk(r) \in Request /\ SameTask(WithoutWalk(r), r) /\ WithoutWalk(r).k = r.k
    <2>1. WithoutWalk(r) = Set(Set(r, "cur", Nil), "up", Nil)
      BY DEF WithoutWalk, Set
    <2>2. SameTask(WithoutWalk(r), r) /\ WithoutWalk(r).k = r.k
      BY DEF WithoutWalk, Request, SameTask
    <2> QED BY <2>1, <2>2, SetItems
  <1>2. ASSUME NEW k \in Nat
        PROVE  /\ OnToNext(r, k) \in Request /\ SameTask(OnToNext(r, k), r)
               /\ OnToNext(r, k).at = "get"
    <2>1. OnToNext(r, k) = Set(Set(r, "at", "get"), "k", k)
      BY DEF OnToNext, Set
    <2>2. SameTask(OnToNext(r, k), r) /\ OnToNext(r, k).at = "get"
      BY DEF OnToNext, Request, SameTask
    <2> QED BY <2>1, <2>2, SetType DEF Places
  <1>3. /\ OnToAct(r) \in Request /\ SameTask(OnToAct(r), r)
        /\ OnToAct(r).at = "act" /\ OnToAct(r).k = 1
    <2>1. OnToAct(r) = Set(Set(Set(r, "at", "act"), "k", 1), "held", {})
      BY DEF OnToAct, Set
    <2>2. SameTask(OnToAct(r), r) /\ OnToAct(r).at = "act" /\ OnToAct(r).k = 1
      BY DEF OnToAct, Request, SameTask
    <2> QED BY <2>1, <2>2, SetType DEF Places
  <1>4. ToFind(r) \in Request /\ SameTask(ToFind(r), r) /\ ToFind(r).at = "find"
    <2>1. ToFind(r) = Set(r, "at", "find")
      BY DEF ToFind, Set
    <2>2. SameTask(ToFind(r), r) /\ ToFind(r).at = "find"
      BY DEF ToFind, Request, SameTask
    <2> QED BY <2>1, <2>2, SetType DEF Places
  <1> QED BY <1>1, <1>2, <1>3, <1>4

LEMMA HavingReadType ==
  ASSUME NEW r \in Request, NEW x \in Ids \cup {Nil}, NEW up \in Ids \cup {Nil},
         NEW from \in Ids \cup {Nil}
  PROVE  /\ HavingRead(r, x, up, from) \in Request
         /\ SameTask(HavingRead(r, x, up, from), r)
         /\ HavingRead(r, x, up, from).at = r.at /\ HavingRead(r, x, up, from).k = r.k
  <1>1. HavingRead(r, x, up, from) = Set(Set(Set(r, "cur", x), "up", up), "from", from)
    BY DEF HavingRead, Set
  <1>2. /\ SameTask(HavingRead(r, x, up, from), r)
        /\ HavingRead(r, x, up, from).at = r.at /\ HavingRead(r, x, up, from).k = r.k
    BY DEF HavingRead, Request, SameTask
  <1> QED BY <1>1, <1>2, SetItems

\* A request that passes a check passes it for what it holds.
LEMMA PassedOK ==
  ASSUME NEW r \in Request, RequestOK(r), r.at \in {"get", "find"},
         r.op = "share" /\ ItemOf(r) \in Live => items[ItemOf(r)].owner = r.by
  PROVE  Passed(r) \in Request /\ RequestOK(Passed(r))
  <1> DEFINE on == WithoutWalk(r)
  <1>1. on \in Request /\ SameTask(on, r) /\ on.k = r.k
    BY StepTypes
  <1>2. CASE r.k < Len(r.checks)
    <2>1. Passed(r) = OnToNext(on, on.k + 1)
      BY <1>2 DEF Passed, OnToNext, WithoutWalk
    <2>2. on.k + 1 \in Nat
      BY <1>1 DEF Request
    <2> HIDE DEF on
    <2>3. /\ Passed(r) \in Request /\ SameTask(Passed(r), on) /\ Passed(r).at = "get"
      <3>1. \A k \in Nat : /\ OnToNext(on, k) \in Request /\ SameTask(OnToNext(on, k), on)
                           /\ OnToNext(on, k).at = "get"
        BY <1>1, StepTypes
      <3> QED BY <2>1, <2>2, <3>1
    <2>4. ASSUME r.op = "share" PROVE FALSE
      <3>1. Len(r.checks) = 1 /\ r.k = 1
        BY <2>4 DEF RequestOK, SharesOwn
      <3> QED BY <1>2, <3>1
    <2> QED BY <1>1, <2>3, <2>4 DEF RequestOK, SameTask
  <1>3. CASE ~(r.k < Len(r.checks))
    <2>1. Passed(r) = OnToAct(on)
      BY <1>3 DEF Passed, OnToAct, WithoutWalk
    <2> HIDE DEF on
    <2>2. /\ Passed(r) \in Request /\ SameTask(Passed(r), on)
          /\ Passed(r).at = "act" /\ Passed(r).k = 1
      BY <1>1, <2>1, StepTypes
    <2> QED BY <1>1, <2>2 DEF RequestOK, SharesOwn, ItemOf, SameTask
  <1> QED BY <1>2, <1>3

LEMMA GetItemInv ==
  ASSUME Inv, NEW p \in Procs, GetItem(p)
  PROVE  Inv'
  <1> DEFINE r == req[p]
             x == r.checks[r.k].item
             level == r.checks[r.k].level
             mine == items[x].owner = r.by
             from == IF r.k = 1 /\ r.op \in {"move", "trash"} THEN items[x].parent ELSE r.from
             read == HavingRead(r, x, items[x].parent, from)
  <1>1. r \in Request /\ RequestOK(r) /\ r.at = "get"
    BY DEF Inv, TypeOK, RequestsOK, GetItem
  <1>2. CASE x \notin Live
    BY <1>2, RefuseInv DEF GetItem
  <1>3. CASE x \in Live
    <2>1. /\ x \in Ids \cup {Nil} /\ items[x].parent \in Ids \cup {Nil}
          /\ from \in Ids \cup {Nil}
      <3>1. x \in Ids \cup {Nil} /\ items[x].parent \in Ids \cup {Nil}
        BY <1>3, ItemTypes DEF Inv
      <3>2. r.from \in Ids \cup {Nil}
        <4> HIDE DEF r
        <4> QED BY <1>1 DEF Request
      <3> QED BY <3>1, <3>2
    <2>2. read \in Request /\ SameTask(read, r) /\ read.at = "get" /\ read.k = r.k
      <3> DEFINE up == items[x].parent
      <3>1. x \in Ids \cup {Nil} /\ up \in Ids \cup {Nil} /\ from \in Ids \cup {Nil}
        BY <2>1
      <3>2. read = HavingRead(r, x, up, from)
        BY DEF up
      <3> HIDE DEF r, x, up, from, read
      <3>3. /\ HavingRead(r, x, up, from) \in Request
            /\ SameTask(HavingRead(r, x, up, from), r)
            /\ HavingRead(r, x, up, from).at = r.at /\ HavingRead(r, x, up, from).k = r.k
        BY <1>1, <3>1, HavingReadType
      <3> QED BY <1>1, <3>2, <3>3
    <2>3. OnlyRequests
      BY DEF GetItem
    <2>4. \/ Goto(p, Passed(read)) /\ mine
          \/ Goto(p, Passed(read)) /\ level = "active"
          \/ Goto(p, ToFind(read)) /\ level # "own"
          \/ Refuse(p)
      BY <1>3 DEF GetItem, HavingRead, ToFind
    <2>5. r.op = "share" => level = "own" /\ ItemOf(r) = x
      BY <1>1 DEF RequestOK, SharesOwn, ItemOf
    <2>6. RequestOK(read)
      BY <1>1, <2>2 DEF RequestOK, SharesOwn, ItemOf, SameTask
    <2>7. mine \/ level # "own" => Passed(read) \in Request /\ RequestOK(Passed(read))
      <3> HIDE DEF read
      <3> QED BY <2>2, <2>5, <2>6, PassedOK DEF ItemOf, SameTask
    <2>8. level # "own" => ToFind(read) \in Request /\ RequestOK(ToFind(read))
      <3> HIDE DEF read
      <3>1. ToFind(read) \in Request /\ SameTask(ToFind(read), read) /\ ToFind(read).at = "find"
        BY <2>2, StepTypes
      <3> QED BY <2>2, <2>5, <2>6, <3>1 DEF RequestOK, SameTask
    <2> HIDE DEF read, level, mine
    <2> QED BY <2>3, <2>4, <2>7, <2>8, GotoInv, RefuseInv
  <1> QED BY <1>2, <1>3

LEMMA FindInv ==
  ASSUME Inv, NEW p \in Procs, Find(p)
  PROVE  Inv'
  <1> DEFINE r == req[p]
             s == [r EXCEPT !.at = "climb"]
  <1>1. r \in Request /\ RequestOK(r) /\ r.at = "find"
    BY DEF Inv, TypeOK, RequestsOK, Find
  <1>2. r.op # "share"
    BY <1>1 DEF RequestOK, SharesOwn
  <1>3. s \in Request
    BY <1>1 DEF Request, Places
  <1>4. s.at = "climb" /\ s.by = r.by /\ s.op = r.op /\ s.dest = r.dest
    BY <1>1 DEF Request
  <1>5. RequestOK(s)
    BY <1>1, <1>2, <1>4 DEF RequestOK
  <1>6. Passed(r) \in Request /\ RequestOK(Passed(r))
    BY <1>1, <1>2, PassedOK
  <1>7. (Goto(p, s) \/ Goto(p, Passed(r)) \/ Refuse(p)) /\ OnlyRequests
    BY DEF Find
  <1> QED BY <1>3, <1>5, <1>6, <1>7, GotoInv, RefuseInv

LEMMA ClimbInv ==
  ASSUME Inv, NEW p \in Procs, Climb(p)
  PROVE  Inv'
  <1> DEFINE r == req[p]
             s == [r EXCEPT !.at = "find", !.cur = r.up, !.up = items[r.up].parent]
  <1>1. r \in Request /\ RequestOK(r) /\ r.at = "climb"
    BY DEF Inv, TypeOK, RequestsOK, Climb
  <1>2. r.op # "share"
    BY <1>1 DEF RequestOK, SharesOwn
  <1>3. CASE r.up \in Live
    <2>1. s \in Request
      BY <1>1, <1>3, ItemTypes DEF Inv, Request, Places
    <2>2. s.at = "find" /\ s.by = r.by /\ s.op = r.op /\ s.dest = r.dest
      BY <1>1 DEF Request
    <2>3. RequestOK(s)
      BY <1>1, <1>2, <2>2 DEF RequestOK
    <2> QED BY <1>3, <2>1, <2>3, GotoInv DEF Climb
  <1>4. CASE r.up \notin Live
    BY <1>4, RefuseInv DEF Climb
  <1> QED BY <1>3, <1>4

-----------------------------------------------------------------------------
(* What happens to the items. *)

ItemsOK == Table(items, Ids, Item) /\ TreeOK /\ Rooted /\ GrantsAreTheOwners

\* A change of the tables, once it is known to keep the items in order.
LEMMA ChangeInv ==
  ASSUME Inv, Kept, ItemsOK',
         req' = Noticed \/ \E p \in Procs : Change(p),
         Table(grants, GrantIds, Grant)', Table(links, LinkIds, Link)',
         stars' \subseteq Ids \X Users, spent' \subseteq Ids \cup LinkIds, now' \in 0..MaxNow
  PROVE  Inv'
  <1>1. req' \in [Procs -> Request] /\ RequestsOK'
    BY NoticedInv
  <1> QED BY <1>1 DEF Inv, TypeOK, ItemsOK

LEMMA SameItems ==
  ASSUME Inv, UNCHANGED <<items, grants>>, spent \subseteq spent'
  PROVE  Kept /\ ItemsOK'
  <1>1. Kept
    BY DEF Kept, Live
  <1>2. Table(items, Ids, Item)'
    BY DEF Inv, TypeOK, Table
  <1>3. TreeOK' /\ Rooted' /\ GrantsAreTheOwners'
    BY DEF Inv, TreeOK, Rooted, GrantsAreTheOwners, Live, IsReal, TreeIsAcyclic, FindGrant
  <1> QED BY <1>1, <1>2, <1>3 DEF ItemsOK

CanHold(dest, owner) ==
  dest # Nil => dest \in Live /\ items[dest].owner = owner /\ IsReal(dest)

\* A new row in a folder of its owner's.
LEMMA InsertOK ==
  ASSUME Inv, NEW x \in Unused(Ids), NEW row \in Item, CanHold(row.parent, row.owner),
         items' = Insert(items, x, row), spent' = spent \cup {x}, UNCHANGED grants
  PROVE  Kept /\ ItemsOK'
  <1>1. x \notin Live /\ x \in Ids /\ x \notin spent /\ Nil \notin Ids
    BY NilIsNothing DEF Inv, TreeOK, Unused
  <1>2. Live' = Live \cup {x} /\ items'[x] = row
    BY DEF Insert, Live
  <1>3. \A y \in Live : items'[y] = items[y]
    BY <1>1 DEF Insert, Live
  <1>4. Kept
    BY <1>1, <1>2, <1>3 DEF Kept
  <1>5. Table(items, Ids, Item)'
    <2>1. \A y \in Live' : items'[y] \in Item
      BY <1>2, <1>3, ItemTypes DEF Inv
    <2>2. items' = [y \in Live' |-> items'[y]]
      BY DEF Insert, Live
    <2> QED BY <1>1, <1>2, <2>1, <2>2 DEF Inv, TypeOK, Table, Live
  <1>6. TreeOK'
    <2>1. Live' \subseteq spent'
      BY <1>2 DEF Inv, TreeOK
    <2> QED BY <1>1, <1>2, <1>3, <2>1 DEF Inv, TreeOK, CanHold, IsReal
  <1>7. Rooted'
    <2> SUFFICES ASSUME Rooted, ~StaleMoves, NEW C \in SUBSET Live', C # {}
                 PROVE  \E y \in C : items'[y].parent \notin C
      BY DEF Inv, Rooted, TreeIsAcyclic
    <2>1. \A y \in Live : items[y].parent # x
      BY <1>1 DEF Inv, TreeOK
    <2>2. CASE C = {x}
      BY <1>1, <1>2, <2>2 DEF CanHold
    <2>3. CASE C # {x}
      <3>1. C \ {x} \in (SUBSET Live) \ {{}}
        BY <1>2, <2>3
      <3>2. PICK y \in C \ {x} : items[y].parent \notin C \ {x}
        BY <3>1 DEF Rooted, TreeIsAcyclic
      <3> QED BY <1>3, <2>1, <3>1, <3>2
    <2> QED BY <2>2, <2>3
  <1>8. GrantsAreTheOwners'
    BY <1>2, <1>3 DEF Inv, GrantsAreTheOwners, FindGrant
  <1> QED BY <1>4, <1>5, <1>6, <1>7, <1>8 DEF ItemsOK

\* Rows that keep their owner and target, and their parent or lose it.
LEMMA RowsOK ==
  ASSUME Inv, DOMAIN items' = Live, items' = [y \in Live |-> items'[y]],
         \A y \in Live : /\ items'[y] \in Item
                         /\ items'[y].owner = items[y].owner
                         /\ items'[y].target = items[y].target
                         /\ items'[y].parent \in {items[y].parent, Nil},
         UNCHANGED <<spent, grants>>
  PROVE  Kept /\ ItemsOK'
  <1>1. Live' = Live
    BY DEF Live
  <1>2. Kept
    BY <1>1 DEF Kept
  <1>3. Table(items, Ids, Item)'
    BY <1>1 DEF Inv, TypeOK, Table, Live
  <1>4. TreeOK'
    BY <1>1 DEF Inv, TreeOK, IsReal
  <1>5. Rooted'
    <2> SUFFICES ASSUME Rooted, ~StaleMoves, NEW C \in SUBSET Live, C # {}
                 PROVE  \E y \in C : items'[y].parent \notin C
      BY <1>1 DEF Inv, Rooted, TreeIsAcyclic
    <2>1. PICK y \in C : items[y].parent \notin C
      BY DEF Rooted, TreeIsAcyclic
    <2>2. Nil \notin C
      BY NilIsNothing, ItemTypes DEF Inv
    <2> QED BY <2>1, <2>2
  <1>6. GrantsAreTheOwners'
    BY <1>1 DEF Inv, GrantsAreTheOwners, FindGrant
  <1> QED BY <1>2, <1>3, <1>4, <1>5, <1>6 DEF ItemsOK

LEMMA MarkFacts ==
  ASSUME TypeOK, NEW S, NEW trashed \in BOOLEAN
  PROVE  /\ DOMAIN Mark(S, trashed) = Live
         /\ Mark(S, trashed) = [y \in Live |-> Mark(S, trashed)[y]]
         /\ \A y \in Live : /\ Mark(S, trashed)[y] \in Item
                            /\ Mark(S, trashed)[y].owner = items[y].owner
                            /\ Mark(S, trashed)[y].target = items[y].target
                            /\ Mark(S, trashed)[y].parent = items[y].parent
  <1>1. /\ DOMAIN Mark(S, trashed) = Live
        /\ Mark(S, trashed) = [y \in Live |-> Mark(S, trashed)[y]]
    BY DEF Mark
  <1>2. ASSUME NEW y \in Live
        PROVE  /\ Mark(S, trashed)[y] \in Item
               /\ Mark(S, trashed)[y].owner = items[y].owner
               /\ Mark(S, trashed)[y].target = items[y].target
               /\ Mark(S, trashed)[y].parent = items[y].parent
    <2>1. items[y] \in Item
      BY ItemTypes
    <2>2. Mark(S, trashed)[y] = IF y \in S THEN [items[y] EXCEPT !.trashed = trashed] ELSE items[y]
      BY DEF Mark
    <2>3. [items[y] EXCEPT !.trashed = trashed] \in Item
      BY <2>1 DEF Item
    <2> QED BY <2>1, <2>2, <2>3 DEF Item
  <1> QED BY <1>1, <1>2

\* A move keeps the tree a tree: into a folder that does not lie in what is
\* moved, or of something that holds nothing.
LEMMA MoveOK ==
  ASSUME Inv, NEW x \in Live, NEW dest \in Ids \cup {Nil}, CanHold(dest, items[x].owner),
         \/ StaleMoves
         \/ dest # Nil => dest \notin Below(x, Live)
         \/ ~IsReal(x),
         items' = [items EXCEPT ![x].parent = dest], UNCHANGED <<spent, grants>>
  PROVE  Kept /\ ItemsOK'
  <1>1. Live' = Live
    BY DEF Live
  <1>2. \A y \in Live : items[y] \in Item
    BY ItemTypes DEF Inv
  <1>3. \A y \in Live : /\ y # x => items'[y] = items[y]
                        /\ items'[y].owner = items[y].owner
                        /\ items'[y].target = items[y].target
    BY <1>2 DEF Live, Item
  <1>4. items'[x] \in Item /\ items'[x].parent = dest
    BY <1>2 DEF Live, Item
  <1>5. Kept
    BY <1>1, <1>3 DEF Kept
  <1>6. Table(items, Ids, Item)'
    <2>1. \A y \in Live : items'[y] \in Item
      BY <1>2, <1>3, <1>4
    <2> QED BY <1>1, <2>1 DEF Inv, TypeOK, Table, Live
  <1>7. TreeOK'
    BY <1>1, <1>3, <1>4 DEF Inv, TreeOK, CanHold, IsReal
  <1>8. GrantsAreTheOwners'
    BY <1>1, <1>3 DEF Inv, GrantsAreTheOwners, FindGrant
  <1>9. Rooted'
    <2> SUFFICES ASSUME Rooted, ~StaleMoves, NEW C \in SUBSET Live, C # {},
                        \A y \in C : items'[y].parent \in C
                 PROVE  FALSE
      BY <1>1 DEF Inv, Rooted, TreeIsAcyclic
    <2>1. ASSUME NEW D \in SUBSET C, D # {}, \A y \in D : items[y].parent \in D
          PROVE  FALSE
      BY <2>1 DEF Rooted, TreeIsAcyclic
    <2>2. CASE x \notin C
      BY <1>3, <2>1, <2>2
    <2>3. CASE x \in C
      <3>1. dest \in C /\ dest # Nil
        BY <1>4, <2>3, NilIsNothing, ItemTypes DEF Inv
      <3>2. CASE dest \notin Below(x, Live)
        <4> DEFINE D == {y \in C : y \notin Below(x, Live)}
        <4>1. dest \in D /\ x \notin D
          BY <3>1, <3>2, BelowContains
        <4>2. ASSUME NEW y \in D PROVE items[y].parent \in D
          <5>1. items[y].parent \in C
            BY <1>3, <4>1
          <5>2. items[y].parent \notin Below(x, Live)
            BY BelowClosed
          <5> QED BY <5>1, <5>2
        <4> QED BY <2>1, <4>1, <4>2
      <3>3. CASE ~IsReal(x)
        <4> DEFINE D == C \ {x}
        <4>1. \A y \in Live : items[y].parent # x
          BY <3>3, NilIsNothing, ItemTypes DEF Inv, TreeOK
        <4>2. dest # x
          BY <3>1, <3>3 DEF CanHold
        <4>3. dest \in D
          BY <3>1, <4>2
        <4>4. \A y \in D : items[y].parent \in D
          BY <1>3, <4>1
        <4> QED BY <2>1, <4>3, <4>4
      <3> QED BY <3>1, <3>2, <3>3
    <2> QED BY <2>2, <2>3
  <1> QED BY <1>5, <1>6, <1>7, <1>8, <1>9 DEF ItemsOK

-----------------------------------------------------------------------------
(* Each change of the tables keeps the invariant. *)

\* What a request that acts holds.
LEMMA ActFacts ==
  ASSUME Inv, NEW p \in Procs, req[p].at \in {"act", "insert"}
  PROVE  /\ req[p] \in Request /\ RequestOK(req[p])
         /\ req[p].op # "visit" => req[p].by \in Users
         /\ req[p].dest \in Ids \cup {Nil}
         /\ req[p].dest # Nil /\ req[p].dest \in Live => IsReal(req[p].dest)
  BY DEF Inv, TypeOK, RequestsOK, RequestOK, Request

LEMMA FinishInv ==
  ASSUME Inv, NEW p \in Procs, Finish(p)
  PROVE  Inv'
  BY RefuseInv DEF Finish

LEMMA PutInv ==
  ASSUME Inv, NEW p \in Procs, req[p].at = "act", req[p].op # "visit",
         req[p].dest # Nil => req[p].dest \in Live,
         NEW folder \in BOOLEAN, NEW target \in Ids \cup {Nil}, Put(p, folder, target)
  PROVE  Inv'
  <1> DEFINE r == req[p]
             row == RowFor(r, folder, target)
  <1>1. PICK x \in Unused(Ids) : items' = Insert(items, x, row) /\ spent' = spent \cup {x}
    BY DEF Put
  <1>2. r.by \in Users /\ r.dest \in Ids \cup {Nil} /\ (r.dest # Nil => IsReal(r.dest))
    BY ActFacts
  <1>3. row \in Item /\ row.parent = r.dest /\ (r.dest # Nil => row.owner = items[r.dest].owner)
    BY <1>2, ItemTypes DEF Inv, RowFor, Item
  <1>4. CanHold(row.parent, row.owner)
    BY <1>2, <1>3 DEF CanHold
  <1> HIDE DEF row
  <1>5. Kept /\ ItemsOK'
    BY <1>1, <1>3, <1>4, InsertOK DEF Put
  <1>6. x \in Ids
    BY DEF Unused
  <1> QED BY <1>1, <1>5, <1>6, ChangeInv DEF Inv, TypeOK, Table, Put

LEMMA CreateInv ==
  ASSUME Inv, NEW p \in Procs, Create(p)
  PROVE  Inv'
  <1>1. PICK folder \in BOOLEAN : Put(p, folder, Nil)
    BY DEF Create
  <1>2. req[p].at = "act" /\ req[p].op # "visit" /\ (req[p].dest # Nil => req[p].dest \in Live)
    BY DEF Create, HasPath, Active
  <1> QED BY <1>1, <1>2, PutInv

LEMMA PutShortcutInv ==
  ASSUME Inv, NEW p \in Procs, PutShortcut(p)
  PROVE  Inv'
  <1> DEFINE t == Pointee(req[p])
  <1>1. t \in Live /\ Put(p, items[t].folder, t)
    BY DEF PutShortcut
  <1>2. t \in Ids /\ items[t].folder \in BOOLEAN
    BY <1>1, ItemTypes DEF Inv, Item
  <1>3. req[p].at = "act" /\ req[p].op # "visit" /\ (req[p].dest # Nil => req[p].dest \in Live)
    BY DEF PutShortcut
  <1> QED BY <1>1, <1>2, <1>3, PutInv

LEMMA CopyInv ==
  ASSUME Inv, NEW p \in Procs, Copy(p)
  PROVE  Inv'
  <1> DEFINE x == ItemOf(req[p])
  <1>1. x \in Live /\ Put(p, items[x].folder, Nil)
    BY DEF Copy
  <1>2. items[x].folder \in BOOLEAN
    BY <1>1, ItemTypes DEF Inv, Item
  <1>3. req[p].at = "act" /\ req[p].op # "visit" /\ (req[p].dest # Nil => req[p].dest \in Live)
    BY DEF Copy, HasPath, Active
  <1> QED BY <1>1, <1>2, <1>3, PutInv

LEMMA StarInv ==
  ASSUME Inv, NEW p \in Procs, Star(p)
  PROVE  Inv'
  <1>1. ItemOf(req[p]) \in Ids /\ req[p].by \in Users
    BY ActFacts, ItemTypes DEF Inv, Star
  <1>2. Kept /\ ItemsOK'
    BY SameItems DEF Star
  <1>3. stars' \subseteq Ids \X Users
    BY <1>1 DEF Inv, TypeOK, Star
  <1> QED BY <1>2, <1>3, ChangeInv DEF Inv, TypeOK, Table, Star

LEMMA MoveInv ==
  ASSUME Inv, NEW p \in Procs, Move(p)
  PROVE  Inv'
  <1> DEFINE r == req[p]
             x == ItemOf(r)
  <1>1. x \in Live /\ items' = [items EXCEPT ![x].parent = r.dest] /\ SameOwner(x, r.dest)
    BY DEF Move
  <1>2. r.dest \in Ids \cup {Nil} /\ (r.dest # Nil /\ r.dest \in Live => IsReal(r.dest))
    BY ActFacts DEF Move
  <1>3. CanHold(r.dest, items[x].owner)
    BY <1>1, <1>2 DEF CanHold, SameOwner
  <1>4. StaleMoves \/ (r.dest # Nil => r.dest \notin Below(x, Live)) \/ ~IsReal(x)
    BY DEF Move, Renamed
  <1>5. UNCHANGED <<spent, grants>>
    BY DEF Move
  <1> HIDE DEF r, x
  <1>6. Kept /\ ItemsOK'
    BY <1>1, <1>2, <1>3, <1>4, <1>5, MoveOK
  <1> QED BY <1>6, ChangeInv DEF Inv, TypeOK, Table, Move

LEMMA TrashInv ==
  ASSUME Inv, NEW p \in Procs, Trash(p)
  PROVE  Inv'
  <1>1. PICK S : items' = Mark(S, TRUE)
    BY DEF Trash
  <1>2. Kept /\ ItemsOK'
    <2>1. UNCHANGED <<spent, grants>>
      BY DEF Trash
    <2>2. /\ DOMAIN items' = Live /\ items' = [y \in Live |-> items'[y]]
          /\ \A y \in Live : /\ items'[y] \in Item
                            /\ items'[y].owner = items[y].owner
                            /\ items'[y].target = items[y].target
                            /\ items'[y].parent = items[y].parent
      BY <1>1, MarkFacts DEF Inv
    <2> QED BY <2>1, <2>2, RowsOK
  <1> QED BY <1>2, ChangeInv DEF Inv, TypeOK, Table, Trash

LEMMA FindNoneInv ==
  ASSUME Inv, NEW p \in Procs, FindNone(p)
  PROVE  Inv'
  <1> DEFINE r == req[p]
             s == [r EXCEPT !.at = "insert"]
  <1>1. r \in Request /\ RequestOK(r) /\ r.at = "act" /\ r.op = "share"
    BY DEF Inv, TypeOK, RequestsOK, FindNone
  <1>2. s \in Request /\ s.at = "insert" /\ s.k = r.k /\ SameTask(s, r)
    BY <1>1 DEF Request, Places, SameTask
  <1>3. Goto(p, s) /\ OnlyRequests
    BY DEF FindNone
  <1> HIDE DEF s
  <1>4. RequestOK(s)
    BY <1>1, <1>2 DEF RequestOK, SharesOwn, ItemOf, SameTask
  <1> QED BY <1>2, <1>3, <1>4, GotoInv

LEMMA InsertGrantInv ==
  ASSUME Inv, NEW p \in Procs, InsertGrant(p)
  PROVE  Inv'
  <1> DEFINE r == req[p]
             x == ItemOf(r)
  <1>1. RequestOK(r) /\ r.by \in Users /\ SharesOwn(r)
    BY ActFacts DEF InsertGrant, RequestOK
  <1>2. x \in Live /\ FindGrant(x, r.with) = {} /\ x \in Ids
    BY ItemTypes DEF InsertGrant, NewGrant, Inv
  <1>3. /\ items[x].owner = r.by /\ r.with \in Users /\ r.with # r.by
        /\ r.permission \in {"view", "edit"}
    BY <1>1, <1>2 DEF SharesOwn, InsertGrant
  <1> DEFINE row == [item |-> x, owner |-> r.by, with |-> r.with, permission |-> r.permission]
  <1>4. row \in Grant
    BY <1>1, <1>2, <1>3 DEF Grant
  <1>5. PICK g \in GrantIds \ DOMAIN grants : grants' = Insert(grants, g, row)
    BY DEF InsertGrant
  <1>6. /\ DOMAIN grants' = DOMAIN grants \cup {g} /\ grants'[g] = row
        /\ grants' = [h \in DOMAIN grants' |-> grants'[h]]
        /\ \A h \in DOMAIN grants : grants'[h] = grants[h]
    BY <1>5 DEF Insert
  <1>7. Table(grants, GrantIds, Grant)'
    BY <1>4, <1>5, <1>6 DEF Inv, TypeOK, Table
  <1>8. UNCHANGED <<items, links, stars, spent, now>> /\ Change(p)
    BY DEF InsertGrant
  <1>9. Kept /\ TreeOK' /\ Rooted' /\ Table(items, Ids, Item)'
    BY <1>8 DEF Inv, TypeOK, Table, Kept, TreeOK, Rooted, Live, IsReal, TreeIsAcyclic
  <1>10. GrantsAreTheOwners'
    <2>1. \A h \in DOMAIN grants : ~(grants[h].item = x /\ grants[h].with = r.with)
      BY <1>2 DEF FindGrant
    <2>2. row.item = x /\ row.owner = r.by /\ row.with = r.with
      OBVIOUS
    <2> HIDE DEF row
    <2> SUFFICES ASSUME NEW h \in DOMAIN grants'
                 PROVE  /\ grants'[h].item \in Live'
                        /\ grants'[h].owner = items'[grants'[h].item].owner
                        /\ grants'[h].with # grants'[h].owner
                        /\ FindGrant(grants[h].item, grants[h].with)' = {h}
      BY DEF GrantsAreTheOwners
    <2>3. CASE h = g
      <3>1. FindGrant(grants[h].item, grants[h].with)' = {h}
        BY <1>6, <2>1, <2>2, <2>3 DEF FindGrant
      <3> QED BY <1>2, <1>3, <1>6, <1>8, <2>2, <2>3, <3>1 DEF Live
    <2>4. CASE h \in DOMAIN grants
      <3>1. FindGrant(grants[h].item, grants[h].with) = {h}
        BY <2>4 DEF Inv, GrantsAreTheOwners
      <3>2. FindGrant(grants[h].item, grants[h].with)' = {h}
        BY <1>5, <1>6, <2>1, <2>2, <2>4, <3>1 DEF FindGrant
      <3> QED BY <1>6, <1>8, <2>4, <3>2 DEF Inv, GrantsAreTheOwners, Live
    <2> QED BY <1>6, <2>3, <2>4
  <1>11. ItemsOK'
    BY <1>9, <1>10 DEF ItemsOK
  <1> HIDE DEF r, x, row
  <1> QED BY <1>7, <1>8, <1>9, <1>11, ChangeInv DEF Inv, TypeOK, Table

LEMMA InsertLinkInv ==
  ASSUME Inv, NEW p \in Procs, InsertLink(p)
  PROVE  Inv'
  <1> DEFINE r == req[p]
  <1>1. r.by \in Users /\ ItemOf(r) \in Ids
    BY ActFacts, ItemTypes DEF InsertLink, Inv
  <1>2. PICK l \in Unused(LinkIds), auth \in BOOLEAN, expires \in 0..MaxNow \cup {Nil} :
          /\ links' = Insert(links, l, [item |-> ItemOf(r), by |-> r.by, auth |-> auth,
                                        expires |-> expires])
          /\ spent' = spent \cup {l}
    BY DEF InsertLink
  <1> DEFINE row == [item |-> ItemOf(r), by |-> r.by, auth |-> auth, expires |-> expires]
  <1>3. row \in Link
    BY <1>1, <1>2, MaxNowIsNat DEF Link
  <1>4. links' = Insert(links, l, row) /\ l \in LinkIds
    BY <1>2 DEF Unused
  <1> HIDE DEF row
  <1>5. Table(links, LinkIds, Link)'
    <2>1. \A k \in DOMAIN links' : links'[k] \in Link
      BY <1>3, <1>4 DEF Insert, Inv, TypeOK, Table
    <2>2. links' = [k \in DOMAIN links' |-> links'[k]] /\ DOMAIN links' \subseteq LinkIds
      BY <1>4 DEF Insert, Inv, TypeOK, Table
    <2> QED BY <2>1, <2>2 DEF Table
  <1>6. Kept /\ ItemsOK'
    BY <1>2, SameItems DEF InsertLink
  <1>7. spent' \subseteq Ids \cup LinkIds
    BY <1>2, <1>4 DEF Inv, TypeOK
  <1> QED BY <1>5, <1>6, <1>7, ChangeInv DEF Inv, TypeOK, Table, InsertLink

\* Grants that keep their item and people.
LEMMA FewerGrants ==
  ASSUME Inv, DOMAIN grants' \subseteq DOMAIN grants, UNCHANGED <<items, spent>>,
         \A g \in DOMAIN grants' : /\ grants'[g].item = grants[g].item
                                  /\ grants'[g].owner = grants[g].owner
                                  /\ grants'[g].with = grants[g].with
  PROVE  Kept /\ ItemsOK'
  <1>1. Kept /\ TreeOK' /\ Rooted' /\ Table(items, Ids, Item)'
    BY DEF Inv, TypeOK, Table, Kept, TreeOK, Rooted, Live, IsReal, TreeIsAcyclic
  <1>2. ASSUME NEW g \in DOMAIN grants'
        PROVE  FindGrant(grants[g].item, grants[g].with)' = {g}
    <2>1. FindGrant(grants[g].item, grants[g].with) = {g}
      BY DEF Inv, GrantsAreTheOwners
    <2> QED BY <2>1 DEF FindGrant
  <1>3. GrantsAreTheOwners'
    BY <1>2 DEF Inv, GrantsAreTheOwners, Live
  <1> QED BY <1>1, <1>3 DEF ItemsOK

LEMMA UpdatePermissionInv ==
  ASSUME Inv, NEW u \in Users, NEW g \in GrantIds, NEW permission \in {"view", "edit"},
         UpdatePermission(u, g, permission)
  PROVE  Inv'
  <1>1. \A h \in DOMAIN grants : grants[h] \in Grant
    BY DEF Inv, TypeOK, Table
  <1>2. /\ DOMAIN grants' = DOMAIN grants
        /\ \A h \in DOMAIN grants : grants'[h] = IF h = g THEN [grants[g] EXCEPT !.permission = permission]
                                                 ELSE grants[h]
    BY DEF UpdatePermission
  <1>3. \A h \in DOMAIN grants : /\ grants'[h] \in Grant
                                /\ grants'[h].item = grants[h].item
                                /\ grants'[h].owner = grants[h].owner
                                /\ grants'[h].with = grants[h].with
    BY <1>1, <1>2 DEF Grant
  <1>4. Table(grants, GrantIds, Grant)'
    BY <1>2, <1>3 DEF UpdatePermission, Inv, TypeOK, Table
  <1>5. Kept /\ ItemsOK'
    BY <1>2, <1>3, FewerGrants DEF UpdatePermission
  <1> QED BY <1>4, <1>5, ChangeInv DEF Inv, TypeOK, Table, UpdatePermission

LEMMA RevokeInv ==
  ASSUME Inv, NEW u \in Users, NEW g \in GrantIds, Revoke(u, g)
  PROVE  Inv'
  <1>1. /\ DOMAIN grants' = DOMAIN grants \ {g}
        /\ grants' = [h \in DOMAIN grants' |-> grants'[h]]
        /\ \A h \in DOMAIN grants' : grants'[h] = grants[h]
    BY DEF Revoke, Without
  <1>2. Table(grants, GrantIds, Grant)'
    BY <1>1 DEF Inv, TypeOK, Table
  <1>3. Kept /\ ItemsOK'
    BY <1>1, FewerGrants DEF Revoke
  <1> QED BY <1>2, <1>3, ChangeInv DEF Inv, TypeOK, Table, Revoke

LEMMA RevokeLinkInv ==
  ASSUME Inv, NEW u \in Users, NEW l \in LinkIds, RevokeLink(u, l)
  PROVE  Inv'
  <1>1. Table(links, LinkIds, Link)'
    BY DEF Inv, TypeOK, Table, RevokeLink, Without
  <1>2. Kept /\ ItemsOK'
    BY SameItems DEF RevokeLink
  <1> QED BY <1>1, <1>2, ChangeInv DEF Inv, TypeOK, Table, RevokeLink

LEMMA RemoveFavoriteInv ==
  ASSUME Inv, NEW u \in Users, NEW x \in Ids, RemoveFavorite(u, x)
  PROVE  Inv'
  <1>1. Kept /\ ItemsOK'
    BY SameItems DEF RemoveFavorite
  <1> QED BY <1>1, ChangeInv DEF Inv, TypeOK, Table, RemoveFavorite

LEMMA TickInv ==
  ASSUME Inv, Tick
  PROVE  Inv'
  <1>1. Kept /\ ItemsOK'
    BY SameItems DEF Tick
  <1>2. now' \in 0..MaxNow
    BY MaxNowIsNat DEF Inv, TypeOK, Tick
  <1> QED BY <1>1, <1>2, ChangeInv DEF Inv, TypeOK, Table, Tick

LEMMA RestoreInv ==
  ASSUME Inv, NEW u \in Users, NEW x \in Ids, Restore(u, x)
  PROVE  Inv'
  <1> DEFINE S == Below(x, OfOwner(x, TRUE))
             marked == Mark(S, FALSE)
  <1>1. PICK dest \in {items[x].parent, Nil} : items' = [marked EXCEPT ![x].parent = dest]
    BY DEF Restore
  <1>2. x \in Live /\ UNCHANGED <<spent, grants>>
    BY DEF Restore
  <1>3. /\ DOMAIN marked = Live
        /\ \A y \in Live : /\ marked[y] \in Item
                           /\ marked[y].owner = items[y].owner
                           /\ marked[y].target = items[y].target
                           /\ marked[y].parent = items[y].parent
    BY MarkFacts DEF Inv
  <1> HIDE DEF marked
  <1>4. DOMAIN items' = Live /\ items' = [y \in Live |-> items'[y]]
    BY <1>1, <1>3
  <1>5. ASSUME NEW y \in Live
        PROVE  /\ items'[y] \in Item
               /\ items'[y].owner = items[y].owner
               /\ items'[y].target = items[y].target
               /\ items'[y].parent \in {items[y].parent, Nil}
    <2>1. marked[y] \in Item /\ dest \in Ids \cup {Nil}
      BY <1>1, <1>2, <1>3, ItemTypes DEF Inv
    <2>2. items'[y] = IF y = x THEN [marked[x] EXCEPT !.parent = dest] ELSE marked[y]
      BY <1>1, <1>3
    <2>3. CASE y = x
      BY <1>1, <1>3, <2>1, <2>2, <2>3 DEF Item
    <2>4. CASE y # x
      BY <1>3, <2>2, <2>4
    <2> QED BY <2>3, <2>4
  <1>6. Kept /\ ItemsOK'
    BY <1>2, <1>4, <1>5, RowsOK
  <1> QED BY <1>6, ChangeInv DEF Inv, TypeOK, Table, Restore

LEMMA EraseInv ==
  ASSUME Inv, NEW u \in Users, NEW x \in Ids, Erase(u, x)
  PROVE  Inv'
  <1>1. PICK R \in SUBSET Below(x, OfOwner(x, TRUE)) :
          /\ Removable(R)
          /\ items' = Without(items, R)
          /\ grants' = Without(grants, {g \in DOMAIN grants : grants[g].item \in R})
          /\ stars' \subseteq stars
    BY DEF Erase
  <1>2. /\ Live' = Live \ R /\ items' = [y \in Live' |-> items'[y]]
        /\ \A y \in Live' : items'[y] = items[y]
    BY <1>1 DEF Without, Live
  <1>3. /\ DOMAIN grants' = {g \in DOMAIN grants : grants[g].item \notin R}
        /\ grants' = [g \in DOMAIN grants' |-> grants'[g]]
        /\ \A g \in DOMAIN grants' : grants'[g] = grants[g]
    BY <1>1 DEF Without
  <1>4. UNCHANGED <<links, spent, now>> /\ req' = Noticed
    BY DEF Erase
  <1>5. Kept
    BY <1>2, <1>4 DEF Kept
  <1>6. Table(items, Ids, Item)'
    BY <1>2 DEF Inv, TypeOK, Table, Live
  <1>7. Table(grants, GrantIds, Grant)'
    BY <1>3 DEF Inv, TypeOK, Table
  <1>8. TreeOK'
    <2>1. \A y \in Live' : items[y].parent \notin R
      BY <1>1, <1>2 DEF Removable
    <2> QED BY <1>2, <1>4, <2>1 DEF Inv, TreeOK, IsReal
  <1>9. Rooted'
    <2> SUFFICES ASSUME Rooted, ~StaleMoves, NEW C \in SUBSET Live', C # {}
                 PROVE  \E y \in C : items'[y].parent \notin C
      BY DEF Inv, Rooted, TreeIsAcyclic
    <2>1. PICK y \in C : items[y].parent \notin C
      BY <1>2 DEF Rooted, TreeIsAcyclic
    <2> QED BY <1>2, <2>1
  <1>10. GrantsAreTheOwners'
    <2> SUFFICES ASSUME NEW g \in DOMAIN grants'
                 PROVE  /\ grants'[g].item \in Live'
                        /\ grants'[g].owner = items'[grants'[g].item].owner
                        /\ grants'[g].with # grants'[g].owner
                        /\ FindGrant(grants[g].item, grants[g].with)' = {g}
      BY DEF GrantsAreTheOwners
    <2>1. g \in DOMAIN grants /\ grants[g].item \notin R /\ grants'[g] = grants[g]
      BY <1>3
    <2>2. /\ grants[g].item \in Live
          /\ grants[g].owner = items[grants[g].item].owner
          /\ grants[g].with # grants[g].owner
          /\ FindGrant(grants[g].item, grants[g].with) = {g}
      BY <2>1 DEF Inv, GrantsAreTheOwners
    <2>3. FindGrant(grants[g].item, grants[g].with)' = {g}
      BY <1>3, <2>1, <2>2 DEF FindGrant
    <2> QED BY <1>2, <2>1, <2>2, <2>3
  <1>11. stars' \subseteq Ids \X Users
    BY <1>1 DEF Inv, TypeOK
  <1>12. ItemsOK'
    BY <1>6, <1>8, <1>9, <1>10 DEF ItemsOK
  <1> QED BY <1>4, <1>5, <1>7, <1>11, <1>12, ChangeInv DEF Inv, TypeOK, Table

-----------------------------------------------------------------------------
(* The theorems. *)

LEMMA NextInv == Inv /\ [Next]_vars => Inv'
  <1> SUFFICES ASSUME Inv, [Next]_vars PROVE Inv'
    OBVIOUS
  <1>1. ASSUME NEW p \in Procs, Begin(p) \/ Checks(p) \/ Effect(p) \/ Finish(p)
        PROVE  Inv'
    <2>1. CASE Begin(p)
      BY <2>1, BeginInv
    <2>2. CASE Checks(p)
      BY <2>2, ResolveInv, GetItemInv, FindInv, ClimbInv DEF Checks
    <2>3. CASE Effect(p)
      BY <2>3, StarInv, CreateInv, PutShortcutInv, CopyInv, MoveInv, TrashInv, FindNoneInv,
         InsertGrantInv, InsertLinkInv DEF Effect
    <2>4. CASE Finish(p)
      BY <2>4, FinishInv
    <2> QED BY <1>1, <2>1, <2>2, <2>3, <2>4
  <1>2. ASSUME NEW u \in Users, OwnersAct(u)
        PROVE  Inv'
    BY <1>2, RevokeInv, UpdatePermissionInv, RevokeLinkInv, RemoveFavoriteInv, RestoreInv,
       EraseInv DEF OwnersAct
  <1>3. CASE UNCHANGED vars
    <2>1. Kept /\ ItemsOK'
      BY <1>3, SameItems DEF vars
    <2>2. \A r : RequestOK(r) => RequestOK(r)'
      BY <2>1, RequestsKept
    <2>3. RequestsOK'
      BY <1>3, <2>2 DEF Inv, RequestsOK, vars
    <2> QED BY <1>3, <2>1, <2>3 DEF Inv, TypeOK, Table, ItemsOK, vars
  <1> QED BY <1>1, <1>2, <1>3, TickInv DEF Next

LEMMA Invariant == Spec => []Inv
  BY InitInv, NextInv, PTL DEF Spec

\* Every variable of Grants keeps to its type.
THEOREM GrantsTypeCorrect == Spec => []TypeOK
  <1>1. Inv => TypeOK
    BY DEF Inv
  <1> QED BY <1>1, Invariant, PTL

\* Whatever checks and changes interleave, a grant is on an item of the owner
\* who made it, for somebody else, and is the only one of the item for him
\* (user_shares' UNIQUE, GetForShare).
THEOREM OwnersGrant == Spec => []GrantsAreTheOwners
  <1>1. Inv => GrantsAreTheOwners
    BY DEF Inv
  <1> QED BY <1>1, Invariant, PTL

\* Whatever folder a request has read, and whoever puts or moves something into
\* it, a folder and what is in it have one owner.
THEOREM OneOwner == Spec => []OneOwnerPerTree
  <1>1. Inv => OneOwnerPerTree
    BY DEF Inv, TreeOK, OneOwnerPerTree
  <1> QED BY <1>1, Invariant, PTL

\* However many moves overlap, none closes a cycle, as long as none is a move
\* that changes nothing.
THEOREM NoCycles == ASSUME ~StaleMoves PROVE Spec => []TreeIsAcyclic
  <1>1. Inv => TreeIsAcyclic
    BY DEF Inv, Rooted
  <1> QED BY <1>1, Invariant, PTL

\* In a tree, whatever is in the trash lies under an entry of it: the last of
\* the items above it that are in the trash is one.
LEMMA ListedInTree ==
  ASSUME TypeOK, TreeIsAcyclic
  PROVE  TrashIsListed
  <1> SUFFICES ASSUME NEW x \in Live, items[x].trashed,
                      \A z \in ListTrash(items[x].owner) : x \notin Below(z, OfOwner(x, TRUE))
               PROVE  FALSE
    BY DEF TrashIsListed
  <1> DEFINE entries == ListTrash(items[x].owner)
             T == OfOwner(x, TRUE)
             C == {y \in T : \A z \in entries : y \notin Below(z, T)}
  <1>1. \A y \in Live : items[y].trashed \in BOOLEAN
    BY ItemTypes DEF Item
  <1>2. T = {y \in Live : items[y].trashed /\ items[y].owner = items[x].owner}
    BY <1>1 DEF OfOwner
  <1>3. entries = {y \in T : items[y].parent \notin T}
    BY <1>2 DEF ListTrash
  <1>4. x \in C /\ C \subseteq Live
    BY <1>2
  <1>5. PICK y \in C : items[y].parent \notin C
    BY <1>4 DEF TreeIsAcyclic
  <1> HIDE DEF T, entries
  <1>6. CASE items[y].parent \notin T
    BY <1>3, <1>6, BelowContains
  <1>7. CASE items[y].parent \in T
    <2>1. PICK z \in entries : items[y].parent \in Below(z, T)
      BY <1>5, <1>7
    <2>2. y \in Below(z, T)
      BY <2>1, BelowClosed
    <2> QED BY <2>1, <2>2
  <1> QED BY <1>6, <1>7

\* However moves, deletes and restores overlap, the owner finds whatever he has
\* in the trash under an entry of the list (ListTrash).
THEOREM NothingHidesInTrash == ASSUME ~StaleMoves PROVE Spec => []TrashIsListed
  <1>1. Inv => TrashIsListed
    BY ListedInTree DEF Inv, Rooted
  <1> QED BY <1>1, Invariant, PTL

-----------------------------------------------------------------------------
(***************************************************************************)
(* Walks up the tree.  L are the items of a table, up their parents, found *)
(* what a walk finds at each of them, and N what a walk that starts there  *)
(* comes to: what is found first.                                          *)
(***************************************************************************)

IsWalk(L, up, found, N) ==
  \A y \in L :
    /\ up[y] \in L \cup {Nil}
    /\ N[y] = IF found[y] # {} THEN found[y] ELSE IF up[y] = Nil THEN {} ELSE N[up[y]]

NoCycle(L, up) == \A C \in (SUBSET L) \ {{}} : \E y \in C : up[y] \notin C

Solves(L, up, found, N) ==
  N = [y \in L |-> IF found[y] # {} THEN found[y] ELSE IF up[y] = Nil THEN {} ELSE N[up[y]]]

\* There is such an N, even on a cycle: the union of what is found at the items
\* that the walk gets to.
LEMMA WalkExists ==
  ASSUME NEW L, NEW up, NEW found, Nil \notin L, \A y \in L : up[y] \in L \cup {Nil}
  PROVE  \E N : Solves(L, up, found, N)
  <1> DEFINE Onward(C) == \A z \in C : found[z] = {} /\ up[z] # Nil => up[z] \in C
             Got(y) == {z \in L : \A C \in SUBSET L : y \in C /\ Onward(C) => z \in C}
             N == [y \in L |-> UNION {found[z] : z \in Got(y)}]
  <1>1. \A y \in L : Got(y) \in SUBSET L /\ y \in Got(y) /\ Onward(Got(y))
    OBVIOUS
  <1>6. ASSUME NEW y \in L, NEW C \in SUBSET L, y \in C, Onward(C)
        PROVE  Got(y) \subseteq C
    BY <1>6
  <1>7. \A C : Onward(C) <=> \A z \in C : found[z] = {} /\ up[z] # Nil => up[z] \in C
    OBVIOUS
  <1> HIDE DEF Got, Onward
  <1>2. ASSUME NEW y \in L, found[y] # {} \/ up[y] = Nil
        PROVE  Got(y) = {y}
    <2>1. {y} \in SUBSET L /\ Onward({y})
      BY <1>2, <1>7
    <2>2. Got(y) \subseteq {y}
      BY <1>6, <2>1
    <2> QED BY <1>1, <2>2
  <1>3. ASSUME NEW y \in L, found[y] = {}, up[y] # Nil
        PROVE  Got(y) = {y} \cup Got(up[y])
    <2> DEFINE z == up[y]
    <2>1. z \in L
      BY <1>3
    <2>2. Got(y) \subseteq {y} \cup Got(z)
      <3>1. Got(z) \in SUBSET L /\ z \in Got(z) /\ Onward(Got(z))
        BY <1>1, <2>1
      <3>2. Onward({y} \cup Got(z))
        BY <1>7, <3>1
      <3>3. {y} \cup Got(z) \in SUBSET L
        BY <3>1
      <3> QED BY <1>6, <3>2, <3>3
    <2>3. Got(z) \subseteq Got(y)
      <3>1. Got(y) \in SUBSET L /\ y \in Got(y) /\ Onward(Got(y))
        BY <1>1
      <3>2. z \in Got(y)
        BY <1>3, <1>7, <3>1
      <3> QED BY <1>6, <2>1, <3>1, <3>2
    <2> QED BY <1>1, <2>2, <2>3
  <1>4. ASSUME NEW y \in L
        PROVE  N[y] = IF found[y] # {} THEN found[y] ELSE IF up[y] = Nil THEN {} ELSE N[up[y]]
    <2>1. CASE found[y] # {} \/ up[y] = Nil
      <3>1. Got(y) = {y}
        BY <1>2, <2>1
      <3> HIDE DEF Got
      <3>2. N[y] = found[y]
        BY <3>1
      <3> QED BY <2>1, <3>2
    <2>2. CASE found[y] = {} /\ up[y] # Nil
      <3>1. Got(y) = {y} \cup Got(up[y]) /\ up[y] \in L
        BY <1>3, <2>2
      <3> HIDE DEF Got
      <3>2. N[y] = found[y] \cup N[up[y]]
        BY <3>1
      <3> QED BY <2>2, <3>2
    <2> QED BY <2>1, <2>2
  <1>5. N = [y \in L |-> N[y]]
    OBVIOUS
  <1> HIDE DEF N
  <1>8. Solves(L, up, found, N)
    BY <1>4, <1>5 DEF Solves
  <1> QED BY <1>8

\* What resolveGrant comes to at each item, from what it finds there.
NearestWalks ==
  \A u : \A x \in Live :
    Nearest(u, x) = IF FindGrant(x, u) # {} THEN FindGrant(x, u)
                    ELSE IF items[x].parent = Nil THEN {} ELSE Nearest(u, items[x].parent)

LEMMA NearestUnfolds == Inv => NearestWalks
  <1> SUFFICES ASSUME Inv, NEW u, NEW x \in Live
               PROVE  Nearest(u, x) = IF FindGrant(x, u) # {} THEN FindGrant(x, u)
                                      ELSE IF items[x].parent = Nil THEN {}
                                      ELSE Nearest(u, items[x].parent)
    BY DEF NearestWalks
  <1> DEFINE up == [y \in Live |-> items[y].parent]
             found == [y \in Live |-> FindGrant(y, u)]
             F == CHOOSE N : N = [y \in Live |-> IF FindGrant(y, u) # {} THEN FindGrant(y, u)
                                                 ELSE IF items[y].parent = Nil THEN {}
                                                 ELSE N[items[y].parent]]
  <1>1. Nil \notin Live /\ \A y \in Live : up[y] \in Live \cup {Nil}
    BY NilIsNothing, ItemTypes DEF Inv, TreeOK
  <1>2. \E N : Solves(Live, up, found, N)
    <2> HIDE DEF up, found
    <2> QED BY <1>1, WalkExists
  <1>3. PICK N : N = [y \in Live |-> IF FindGrant(y, u) # {} THEN FindGrant(y, u)
                                     ELSE IF items[y].parent = Nil THEN {}
                                     ELSE N[items[y].parent]]
    BY <1>2 DEF Solves
  <1>4. F = [y \in Live |-> IF FindGrant(y, u) # {} THEN FindGrant(y, u)
                            ELSE IF items[y].parent = Nil THEN {} ELSE F[items[y].parent]]
    BY <1>3
  <1>5. \A y : Nearest(u, y) = F[y]
    BY DEF Nearest
  <1> HIDE DEF F
  <1> QED BY <1>4, <1>5

-----------------------------------------------------------------------------
(* Searching and reading. *)

\* A walk up from what lies, outside the trash, in something shared with the
\* user finds a grant.
LEMMA SharedIsRead ==
  ASSUME Inv, NEW u \in Users, NEW x \in Received(u), NEW y \in Subtree(x)
  PROVE  y \in Live /\ May(u, "read", y)
  <1> DEFINE A == {z \in Live : Active(z)}
             C == {z \in A \cup {x} : Nearest(u, z) # {}}
  <1>1. x \in Live /\ FindGrant(x, u) # {}
    BY DEF Received, Inv, GrantsAreTheOwners, FindGrant
  <1>2. NearestWalks
    BY NearestUnfolds
  <1>3. x \in C
    BY <1>1, <1>2 DEF NearestWalks
  <1>4. ASSUME NEW z \in A, items[z].parent \in C
        PROVE  z \in C
    <2>1. items[z].parent # Nil /\ Nearest(u, items[z].parent) # {}
      BY <1>1, <1>4, NilIsNothing, ItemTypes DEF Inv
    <2>2. Nearest(u, z) # {}
      BY <1>2, <2>1 DEF NearestWalks
    <2> QED BY <2>2
  <1>5. y \in Below(x, A) /\ Active(y) /\ y \in Live
    BY DEF Subtree, Active
  <1>6. C \in SUBSET (A \cup {x})
    OBVIOUS
  <1> HIDE DEF A, C
  <1>7. y \in C
    BY <1>3, <1>4, <1>5, <1>6 DEF Below
  <1> QED BY <1>5, <1>7 DEF May, C

\* What can be read by a grant, and lies in no folder in the trash, lies in
\* something shared with the user: the last item of the walk.
LEMMA ReadIsFound ==
  ASSUME Inv, ~StaleMoves, NEW u \in Users, NEW x \in Live, May(u, "read", x),
         \A z \in Above(x) : Active(z)
  PROVE  x \in Found(u)
  <1> DEFINE A == {z \in Live : Active(z)}
             D == {y \in Live : Nearest(u, y) # {} /\ x \in Below(y, A)}
  <1>1. NearestWalks /\ TreeIsAcyclic
    BY NearestUnfolds DEF Inv, Rooted
  <1>2. Active(x)
    BY DEF May
  <1>3. CASE items[x].owner = u
    BY <1>2, <1>3 DEF Found
  <1>4. CASE Nearest(u, x) # {}
    <2>1. x \in D
      BY <1>4, BelowContains
    <2>2. PICK y \in D : items[y].parent \notin D
      BY <1>1, <2>1 DEF TreeIsAcyclic
    <2>3. y \in Live /\ Nearest(u, y) # {} /\ x \in Below(y, A)
      BY <2>2
    <2>4. Active(y)
      <3>1. x \in Below(y, Live)
        <4> SUFFICES ASSUME NEW C \in SUBSET (Live \cup {y}), y \in C,
                            \A z \in Live : items[z].parent \in C => z \in C
                     PROVE  x \in C
          BY DEF Below
        <4>1. C \cap (A \cup {y}) \in SUBSET (A \cup {y})
          OBVIOUS
        <4>2. x \in C \cap (A \cup {y})
          BY <2>3, <4>1 DEF Below
        <4> QED BY <4>2
      <3> QED BY <2>3, <3>1 DEF Above
    <2>5. CASE FindGrant(y, u) # {}
      <3>1. y \in Received(u)
        BY <2>5 DEF FindGrant, Received
      <3>2. x \in Subtree(y)
        BY <1>2, <2>3 DEF Subtree
      <3> QED BY <3>1, <3>2 DEF Found
    <2>6. CASE FindGrant(y, u) = {}
      <3> DEFINE z == items[y].parent
      <3>1. z # Nil /\ Nearest(u, z) # {}
        BY <1>1, <2>3, <2>6 DEF NearestWalks
      <3>2. z \in Live
        BY <2>3, <3>1 DEF Inv, TreeOK
      <3>3. x \in Below(z, A)
        <4> SUFFICES ASSUME NEW C \in SUBSET (A \cup {z}), z \in C,
                            \A v \in A : items[v].parent \in C => v \in C
                     PROVE  x \in C
          BY <1>2 DEF Below
        <4>1. y \in C
          BY <2>3, <2>4
        <4>2. C \cap A \in SUBSET (A \cup {y}) /\ y \in C \cap A
          BY <2>3, <2>4, <4>1
        <4>3. \A v \in A : items[v].parent \in C \cap A => v \in C \cap A
          OBVIOUS
        <4>4. x \in C \cap A
          BY <2>3, <4>2, <4>3 DEF Below
        <4> QED BY <4>4
      <3> QED BY <2>2, <3>1, <3>2, <3>3
    <2> QED BY <2>5, <2>6
  <1> QED BY <1>3, <1>4 DEF May

\* What is listed in a folder that can be read can be read: its owner is the
\* folder's, and the walk up from it goes through the folder.
LEMMA ListedIsRead ==
  ASSUME Inv, NEW u \in Users, NEW z \in Live, NEW x \in ListChildren(u, z)
  PROVE  x \in Live /\ May(u, "read", x)
  <1>1. /\ May(u, "read", z) /\ x \in Live /\ items[x].parent = z /\ Active(x)
        /\ items[x].owner = items[z].owner
    BY DEF ListChildren, Children
  <1>2. z # Nil
    BY NilIsNothing, ItemTypes DEF Inv
  <1>3. Nearest(u, z) # {} => Nearest(u, x) # {}
    BY <1>1, <1>2, NearestUnfolds DEF NearestWalks
  <1> QED BY <1>1, <1>3 DEF May

\* Search, which walks down from what was shared with the user, and reading,
\* which walks up to it, agree, as long as the folders form a tree.
THEOREM SearchAndReadAgree == ASSUME ~StaleMoves PROVE Spec => []SearchFindsTheReadable
  <1>1. ASSUME Inv PROVE SearchFindsTheReadable
    <2>1. ASSUME NEW u \in Users, NEW x \in Found(u) PROVE May(u, "read", x)
      <3>1. CASE x \in Live /\ Active(x) /\ items[x].owner = u
        BY <3>1 DEF May
      <3>2. CASE \E y \in Received(u) : x \in Subtree(y)
        BY <1>1, <3>2, SharedIsRead
      <3> QED BY <2>1, <3>1, <3>2 DEF Found
    <2>2. ASSUME NEW u \in Users,
                 NEW x \in ListFavorites(u) \cup UNION {ListChildren(u, z) : z \in Live}
          PROVE  x \in Live /\ May(u, "read", x)
      <3>1. CASE x \in ListFavorites(u)
        BY <3>1 DEF ListFavorites
      <3>2. CASE \E z \in Live : x \in ListChildren(u, z)
        BY <1>1, <3>2, ListedIsRead
      <3> QED BY <2>2, <3>1, <3>2
    <2> QED BY <1>1, <2>1, <2>2, ReadIsFound DEF SearchFindsTheReadable
  <1> QED BY <1>1, Invariant, PTL

-----------------------------------------------------------------------------
(***************************************************************************)
(* A walk during which the tables change.  It has come from x to c in one  *)
(* table, and goes on in another one, which differs at m at most: it comes *)
(* to what a walk from x comes to in the one or in the other.              *)
(***************************************************************************)

\* The walk from x gets to c.
Leads(L, up, found, x, c) ==
  \A C \in SUBSET L :
    x \in C /\ (\A y \in C : y # c /\ found[y] = {} /\ up[y] # Nil => up[y] \in C) => c \in C

LEMMA LeadsSelf == ASSUME NEW L, NEW up, NEW found, NEW x PROVE Leads(L, up, found, x, x)
  BY DEF Leads

LEMMA LeadsOn ==
  ASSUME NEW L, NEW up, NEW found, NEW x, NEW c, Leads(L, up, found, x, c),
         found[c] = {}, up[c] # Nil
  PROVE  Leads(L, up, found, x, up[c])
  <1> DEFINE d == up[c]
  <1> SUFFICES ASSUME NEW C \in SUBSET L, x \in C, d \notin C,
                      \A y \in C : y # d /\ found[y] = {} /\ up[y] # Nil => up[y] \in C
               PROVE  FALSE
    BY DEF Leads
  <1>1. c \in C
    BY DEF Leads
  <1> QED BY <1>1

LEMMA LeadsSame ==
  ASSUME NEW L, NEW up, NEW found, NEW N, IsWalk(L, up, found, N),
         NEW x \in L, NEW c, Leads(L, up, found, x, c)
  PROVE  c \in L /\ N[c] = N[x]
  <1> DEFINE C == {y \in L : N[y] = N[x]}
  <1>1. ASSUME NEW y \in C, found[y] = {}, up[y] # Nil
        PROVE  up[y] \in C
    BY <1>1 DEF IsWalk
  <1>2. c \in C
    BY <1>1 DEF Leads
  <1> QED BY <1>2

\* What does not lie under m is out of reach of what changes at m.
LEMMA Unaffected ==
  ASSUME NEW L, NEW up, NEW found, NEW N, IsWalk(L, up, found, N), NoCycle(L, up),
         NEW M, NEW up2, NEW found2, NEW N2, IsWalk(M, up2, found2, N2),
         NEW B \in SUBSET (L \cap M),
         \A y \in B : up[y] \in B \cup {Nil} /\ up2[y] = up[y] /\ found2[y] = found[y]
  PROVE  \A y \in B : N2[y] = N[y]
  <1> DEFINE C == {y \in B : N2[y] # N[y]}
  <1> SUFFICES ASSUME C # {} PROVE FALSE
    OBVIOUS
  <1>1. PICK y \in C : up[y] \notin C
    BY DEF NoCycle
  <1>2. y \in B /\ N2[y] # N[y] /\ (up[y] # Nil => N2[up[y]] = N[up[y]])
    BY <1>1
  <1>3. /\ N[y] = IF found[y] # {} THEN found[y] ELSE IF up[y] = Nil THEN {} ELSE N[up[y]]
        /\ N2[y] = IF found2[y] # {} THEN found2[y] ELSE IF up2[y] = Nil THEN {} ELSE N2[up2[y]]
    BY <1>2 DEF IsWalk
  <1> QED BY <1>2, <1>3

\* D: the items that no change takes away, with all that is above them.
Touched(L, up, found, M, up2, found2, D, m) ==
  /\ D \in SUBSET (L \cap M)
  /\ \A y \in D : up[y] \in D \cup {Nil}
  /\ \A y \in D : y # m => up2[y] = up[y] /\ found2[y] = found[y]
  /\ m \in D => up2[m] = up[m] \/ found2[m] = found[m]

\* What is left to find for a walk that is at c, whose parent was read to be d.
AtFind(found, N, c, d) == IF found[c] # {} THEN found[c] ELSE IF d = Nil THEN {} ELSE N[d]

LEMMA WalkAcrossChange ==
  ASSUME NEW L, NEW up, NEW found, NEW N, IsWalk(L, up, found, N), NoCycle(L, up), Nil \notin L,
         NEW M, NEW up2, NEW found2, NEW N2, IsWalk(M, up2, found2, N2), Nil \notin M,
         NEW D, NEW m, Touched(L, up, found, M, up2, found2, D, m),
         NEW x \in D, NEW c, Leads(L, up, found, x, c)
  PROVE  /\ c \in D
         /\ AtFind(found2, N2, c, up[c]) \in {N[x], N2[x]}
         /\ found[c] = {} /\ up[c] # Nil => up[c] \in D /\ N2[up[c]] \in {N[x], N2[x]}
         /\ m \notin D => N2[x] = N[x]
  <1> DEFINE Apart(C) == \A y \in C : y # m /\ up[y] \in C \cup {Nil}
             B == UNION {C \in SUBSET D : Apart(C)}
  <1>1. D \in SUBSET L /\ D \in SUBSET M /\ \A y \in D : up[y] \in D \cup {Nil}
    BY DEF Touched
  <1>2. B \in SUBSET D /\ Apart(B)
    OBVIOUS
  <1>3. ASSUME NEW C \in SUBSET D, Apart(C) PROVE C \subseteq B
    BY <1>3
  <1>4. ASSUME NEW y \in D, y \notin B, y # m PROVE up[y] \in D \ B
    <2> SUFFICES ASSUME up[y] \in B \cup {Nil} PROVE FALSE
      BY <1>1, <1>4
    <2>1. Apart(B \cup {y}) /\ B \cup {y} \in SUBSET D
      BY <1>2, <1>4
    <2> QED BY <1>3, <1>4, <2>1
  <1> HIDE DEF B
  <1>5. m \in D => up[m] \in B \cup {Nil}
    <2> SUFFICES ASSUME m \in D, up[m] \notin B, up[m] # Nil PROVE FALSE
      OBVIOUS
    <2>1. \A y \in D \ B : up[y] \in D \ B
      BY <1>1, <1>4
    <2>2. D \ B # {} /\ D \ B \in SUBSET L
      BY <1>1, <1>2
    <2> QED BY <2>1, <2>2 DEF NoCycle
  <1>6. \A y \in D : y # m => up2[y] = up[y] /\ found2[y] = found[y]
    BY DEF Touched
  <1>7. \A y \in B : N2[y] = N[y]
    <2>1. B \in SUBSET (L \cap M)
      BY <1>1, <1>2
    <2>2. \A y \in B : up[y] \in B \cup {Nil} /\ up2[y] = up[y] /\ found2[y] = found[y]
      BY <1>2, <1>6
    <2> QED BY <2>1, <2>2, Unaffected
  <1>8. c \in D /\ N[c] = N[x]
    <2>1. c \in D
      BY <1>1 DEF Leads
    <2> QED BY <1>1, <2>1, LeadsSame
  <1>9. \A y \in L : N[y] = IF found[y] # {} THEN found[y] ELSE IF up[y] = Nil THEN {} ELSE N[up[y]]
    BY DEF IsWalk
  <1>10. \A y \in M : N2[y] = IF found2[y] # {} THEN found2[y] ELSE IF up2[y] = Nil THEN {} ELSE N2[up2[y]]
    BY DEF IsWalk
  <1>11. c \notin B => N2[x] = N2[c]
    <2> SUFFICES ASSUME c \notin B PROVE N2[x] = N2[c]
      OBVIOUS
    <2> DEFINE C == {y \in D : y \in B \/ N2[y] = N2[x]}
    <2>1. ASSUME NEW y \in C, y # c, found[y] = {}, up[y] # Nil
          PROVE  up[y] \in C
      <3>1. CASE y \in B \/ y = m
        BY <1>2, <1>5, <2>1, <3>1
      <3>2. CASE y \notin B /\ y # m
        <4>1. found2[y] = {} /\ up2[y] = up[y] /\ y \in M /\ N2[y] = N2[x]
          BY <1>1, <1>6, <2>1, <3>2
        <4> QED BY <1>1, <1>10, <2>1, <4>1
      <3> QED BY <3>1, <3>2
    <2>2. x \in C /\ C \in SUBSET L
      BY <1>1
    <2>3. c \in C
      BY <2>1, <2>2 DEF Leads
    <2> QED BY <2>3
  <1>12. m \notin D => N2[x] = N[x]
    <2> SUFFICES ASSUME m \notin D PROVE N2[x] = N[x]
      OBVIOUS
    <2>1. \A y \in D : y # m
      OBVIOUS
    <2>2. Apart(D)
      BY <1>1, <2>1
    <2>3. D \subseteq B
      BY <1>3, <2>2
    <2> QED BY <1>7, <2>3
  <1>13. CASE c \in B
    <2>1. found2[c] = found[c] /\ up[c] \in B \cup {Nil} /\ (up[c] # Nil => N2[up[c]] = N[up[c]])
      BY <1>2, <1>6, <1>7, <1>13
    <2>2. AtFind(found2, N2, c, up[c]) = N[c]
      BY <1>1, <1>8, <1>9, <2>1 DEF AtFind
    <2>3. found[c] = {} /\ up[c] # Nil => up[c] \in D /\ N2[up[c]] = N[c]
      BY <1>1, <1>8, <1>9, <2>1
    <2> QED BY <1>8, <1>12, <2>2, <2>3
  <1>14. CASE c \notin B /\ c # m
    <2>1. found2[c] = found[c] /\ up2[c] = up[c] /\ c \in M /\ c \in L
      BY <1>1, <1>6, <1>8, <1>14
    <2>2. AtFind(found2, N2, c, up[c]) = N2[c]
      BY <1>10, <2>1 DEF AtFind
    <2>3. found[c] = {} /\ up[c] # Nil => up[c] \in D /\ N2[up[c]] = N2[c]
      BY <1>1, <1>8, <1>10, <2>1
    <2> QED BY <1>8, <1>11, <1>14, <1>12, <2>2, <2>3
  <1>15. CASE c \notin B /\ c = m
    <2>1. c \in L /\ c \in M /\ up[c] \in B \cup {Nil} /\ (up[c] # Nil => N2[up[c]] = N[up[c]])
      BY <1>1, <1>5, <1>7, <1>8, <1>15
    <2>2. found[c] = {} /\ up[c] # Nil => up[c] \in D /\ N2[up[c]] = N[c]
      BY <1>1, <1>8, <1>9, <2>1
    <2>3. N2[x] = N2[c]
      BY <1>11, <1>15
    <2>4. CASE found2[c] # {}
      <3>1. AtFind(found2, N2, c, up[c]) = N2[c]
        BY <1>10, <2>1, <2>4 DEF AtFind
      <3> QED BY <1>8, <1>12, <2>2, <2>3, <3>1
    <2>5. CASE found2[c] = {} /\ found[c] = {}
      <3>1. AtFind(found2, N2, c, up[c]) = N[c]
        BY <1>9, <2>1, <2>5 DEF AtFind
      <3> QED BY <1>8, <1>12, <2>2, <3>1
    <2>6. CASE found2[c] = {} /\ found[c] # {}
      <3>1. up2[c] = up[c]
        BY <1>8, <1>15, <2>6 DEF Touched
      <3>2. AtFind(found2, N2, c, up[c]) = N2[c]
        BY <1>10, <2>1, <2>6, <3>1 DEF AtFind
      <3> QED BY <1>8, <1>12, <2>2, <2>3, <3>2
    <2> QED BY <2>4, <2>5, <2>6
  <1> QED BY <1>13, <1>14, <1>15

-----------------------------------------------------------------------------
(* The walks of the checks. *)

Parents == [y \in Live |-> items[y].parent]
Given(u) == [y \in Live |-> {grants[g].permission : g \in FindGrant(y, u)}]
Reach(u) == [y \in Live |-> {grants[g].permission : g \in Nearest(u, y)}]

Allows(level, S) == IF level = "write" THEN "edit" \in S ELSE S # {}

Granted == {"see", "read", "write"}

WalkOK == \A u : IsWalk(Live, Parents, Given(u), Reach(u))

MayOK ==
  \A u, level, x :
    May(u, level, x) <=>
      /\ x \in Live
      /\ \/ items[x].owner = u /\ (Active(x) \/ level = "see")
         \/ Active(x) /\ level = "active"
         \/ Active(x) /\ level \in Granted /\ Allows(level, Reach(u)[x])

LEMMA ReachWalks == Inv => WalkOK
  <1> SUFFICES ASSUME Inv, NEW u, NEW y \in Live
               PROVE  /\ Parents[y] \in Live \cup {Nil}
                      /\ Reach(u)[y] = IF Given(u)[y] # {} THEN Given(u)[y]
                                       ELSE IF Parents[y] = Nil THEN {} ELSE Reach(u)[Parents[y]]
    BY DEF WalkOK, IsWalk
  <1>1. items[y].parent \in Live \cup {Nil}
    BY DEF Inv, TreeOK
  <1>2. NearestWalks
    BY NearestUnfolds
  <1>3. CASE FindGrant(y, u) # {}
    <2>1. Nearest(u, y) = FindGrant(y, u)
      BY <1>2, <1>3 DEF NearestWalks
    <2> QED BY <1>1, <1>3, <2>1 DEF Parents, Given, Reach
  <1>4. CASE FindGrant(y, u) = {}
    <2>1. Nearest(u, y) = IF items[y].parent = Nil THEN {} ELSE Nearest(u, items[y].parent)
      BY <1>2, <1>4 DEF NearestWalks
    <2>2. Given(u)[y] = {} /\ Parents[y] = items[y].parent
      BY <1>4 DEF Given, Parents
    <2> QED BY <1>1, <2>1, <2>2 DEF Reach
  <1> QED BY <1>3, <1>4

LEMMA MayReach == MayOK
  <1> SUFFICES ASSUME NEW u, NEW x \in Live
               PROVE  /\ Nearest(u, x) # {} <=> Reach(u)[x] # {}
                      /\ (\E g \in Nearest(u, x) : grants[g].permission = "edit")
                            <=> "edit" \in Reach(u)[x]
    BY DEF MayOK, May, Allows, Granted
  <1> QED BY DEF Reach

LEMMA RequestFields ==
  ASSUME NEW r \in Request
  PROVE  /\ r.at \in Places /\ r.checks \in Seq(Check) /\ r.k \in Nat /\ r.changes \in 0..2
         /\ r.held \in SUBSET Nat /\ r.cur \in Ids \cup {Nil} /\ r.up \in Ids \cup {Nil}
         /\ r.op \in Kinds \cup {Nil} /\ r.by \in Users \cup {Nil}
  BY DEF Request

-----------------------------------------------------------------------------
(***************************************************************************)
(* What is known of a request that checks, while the tables changed at     *)
(* most once since it came in.                                             *)
(***************************************************************************)

Checking == {"visit", "get", "find", "climb"}

Holds(r) == Holding(r.by, r.link, r.checks)

\* The checks before the present one are passed.
Earlier(r) ==
  /\ r.k \in DOMAIN r.checks
  /\ r.at = "visit" => r.k = 1 /\ r.link # Nil
  /\ r.at # "visit" => \A j \in 0..(r.k - 1) : j \in r.held \cup Holds(r)

\* What the walk that r is in comes to in the present tables.
Left(r) ==
  IF r.at = "find" THEN AtFind(Given(r.by), Reach(r.by), r.cur, r.up) ELSE Reach(r.by)[r.up]

\* What the walk comes to is what it comes to in the tables as they were or as
\* they are.
Bounded(r) ==
  r.at \in {"find", "climb"} =>
    LET level == r.checks[r.k].level IN
    /\ r.cur \in Live /\ r.up \in Live \cup {Nil}
    /\ r.at = "climb" => r.up # Nil
    /\ level \in Granted
    /\ Allows(level, Left(r)) => r.k \in r.held \cup Holds(r)
    /\ ~Allows(level, Left(r)) => r.k \notin r.held \cap Holds(r)

\* Before any change, the walk is on its way from the item.
OnItsWay(r) ==
  r.at \in {"find", "climb"} =>
    LET x == r.checks[r.k].item IN
    /\ x \in Live /\ Active(x) /\ items[x].owner # r.by
    /\ r.cur \in Live /\ Leads(Live, Parents, Given(r.by), x, r.cur)
    /\ r.up = Parents[r.cur]
    /\ r.at = "climb" => Given(r.by)[r.cur] = {}

Unchanged(r) ==
  /\ r.held = Holds(r)
  /\ r.op = "open" => ItemOf(r) \in Live /\ r.checks = Follow("see", ItemOf(r))
  /\ OnItsWay(r)

Justified(r) ==
  r.at \in Checking /\ r.changes < 2 =>
    /\ Earlier(r) /\ Bounded(r)
    /\ r.changes = 0 => Unchanged(r)

AllJustified == \A p \in Procs : Justified(req[p])

\* Of two requests: they make the same checks for the same user.
SameChecks(s, r) ==
  /\ s.by = r.by /\ s.op = r.op /\ s.link = r.link /\ s.checks = r.checks
  /\ s.held = r.held /\ s.changes = r.changes

\* Tables that stay what they are.
LEMMA SameTables ==
  ASSUME Inv, UNCHANGED <<items, grants>>
  PROVE  /\ Live' = Live /\ Parents' = Parents
         /\ \A u : Given(u)' = Given(u)
         /\ \A u : Reach(u)' = Reach(u)
         /\ \A u, level, x : May(u, level, x)' <=> May(u, level, x)
  BY DEF Live, Parents, Given, Reach, FindGrant, Nearest, May, Active

-----------------------------------------------------------------------------
(* The steps of a request that checks. *)

\* What DecisionsAreJustified asks of a step from r to s.
Decided(s, r) ==
  r.changes < 2 =>
    /\ s.at = "act" => 0..Len(r.checks) \subseteq r.held \cup Holds(r)
    /\ s.at = "idle" => ~(0..Len(r.checks) \subseteq r.held \cap Holds(r))

LEMMA PassedFields ==
  ASSUME NEW r \in Request
  PROVE  /\ r.k < Len(r.checks) => /\ Passed(r).at = "get" /\ Passed(r).k = r.k + 1
                                   /\ SameChecks(Passed(r), r)
         /\ ~(r.k < Len(r.checks)) => Passed(r).at = "act"
  <1> DEFINE on == WithoutWalk(r)
  <1>1. on \in Request /\ SameChecks(on, r) /\ on.k = r.k
    <2>1. on \in Request
      BY StepTypes
    <2>2. SameChecks(on, r) /\ on.k = r.k
      BY DEF WithoutWalk, Request, SameChecks
    <2> QED BY <2>1, <2>2
  <1>2. CASE r.k < Len(r.checks)
    <2>1. Passed(r) = [on EXCEPT !.at = "get", !.k = on.k + 1]
      BY <1>2 DEF Passed, WithoutWalk
    <2> HIDE DEF on
    <2>2. /\ Passed(r).at = "get" /\ Passed(r).k = on.k + 1 /\ SameChecks(Passed(r), on)
      BY <1>1, <2>1 DEF Request, SameChecks
    <2> QED BY <1>1, <1>2, <2>2 DEF SameChecks
  <1>3. CASE ~(r.k < Len(r.checks))
    <2>1. Passed(r) = OnToAct(on)
      BY <1>3 DEF Passed, OnToAct, WithoutWalk
    <2> HIDE DEF on
    <2>2. Passed(r).at = "act"
      BY <1>1, <2>1, StepTypes
    <2> QED BY <1>3, <2>2
  <1> QED BY <1>2, <1>3

LEMMA SameHolds ==
  ASSUME NEW s, NEW r, SameChecks(s, r)
  PROVE  Holds(s) = Holds(r)
  BY DEF SameChecks, Holds

\* A request that passes a check that holds or held.
LEMMA PassedJustified ==
  ASSUME NEW r \in Request, r.at # "visit", Earlier(r), r.k \in r.held \cup Holds(r),
         r.changes = 0 =>
           r.held = Holds(r) /\ (r.op = "open" => ItemOf(r) \in Live /\ r.checks = Follow("see", ItemOf(r)))
  PROVE  /\ Passed(r).at \in {"get", "act"}
         /\ Justified(Passed(r))
         /\ Passed(r).at = "act" => 0..Len(r.checks) \subseteq r.held \cup Holds(r)
  <1> DEFINE s == Passed(r)
  <1>1. r.checks \in Seq(Check) /\ r.k \in 1..Len(r.checks) /\ Len(r.checks) \in Nat
    BY RequestFields DEF Earlier
  <1>2. \A j \in 0..r.k : j \in r.held \cup Holds(r)
    <2>1. \A j \in 0..r.k : j = r.k \/ j \in 0..(r.k - 1)
      BY <1>1
    <2> QED BY <2>1 DEF Earlier
  <1>3. CASE r.k < Len(r.checks)
    <2>1. s.at = "get" /\ s.k = r.k + 1 /\ SameChecks(s, r)
      BY <1>3, PassedFields
    <2> HIDE DEF s
    <2>2. Holds(s) = Holds(r)
      BY <2>1, SameHolds
    <2>3. s.k \in DOMAIN s.checks /\ s.k - 1 = r.k
      BY <1>1, <1>3, <2>1 DEF SameChecks
    <2>4. Earlier(s)
      BY <1>2, <2>1, <2>2, <2>3 DEF Earlier, SameChecks
    <2>5. r.changes = 0 => Unchanged(s)
      BY <2>1, <2>2 DEF Unchanged, OnItsWay, SameChecks, ItemOf
    <2>6. Justified(s)
      BY <2>1, <2>4, <2>5 DEF Justified, Bounded, SameChecks
    <2> QED BY <2>1, <2>6 DEF s
  <1>4. CASE ~(r.k < Len(r.checks))
    <2>1. s.at = "act" /\ r.k = Len(r.checks)
      BY <1>1, <1>4, PassedFields
    <2> HIDE DEF s
    <2>2. Justified(s)
      BY <2>1 DEF Justified, Checking
    <2> QED BY <1>2, <2>1, <2>2 DEF s
  <1> QED BY <1>3, <1>4

LEMMA IdleJustified == Justified(Idle)
  BY DEF Idle, Justified, Checking

LEMMA ResolveJustified ==
  ASSUME Inv, NEW p \in Procs, Resolve(p), Justified(req[p])
  PROVE  \E s : Goto(p, s) /\ Justified(s) /\ Decided(s, req[p])
  <1> DEFINE r == req[p]
             s == [r EXCEPT !.at = "get"]
  <1>1. r \in Request /\ r.at = "visit"
    BY DEF Inv, TypeOK, Resolve
  <1>2. r.checks \in Seq(Check)
    BY <1>1, RequestFields
  <1>3. r.changes < 2 => Earlier(r) /\ r.k = 1 /\ r.link # Nil /\ (r.changes = 0 => Unchanged(r))
    BY <1>1 DEF Justified, Checking, Earlier
  <1>4. s.at = "get" /\ SameChecks(s, r) /\ s.k = r.k
    BY <1>1 DEF Request, SameChecks
  <1>5. Holds(s) = Holds(r)
    BY <1>4, SameHolds
  <1>6. CASE Serves(r.link, r.by)
    <2>1. 0 \in Holds(r)
      BY <1>6 DEF Holds, Holding
    <2>2. Goto(p, s)
      BY <1>6 DEF Resolve
    <2> HIDE DEF r, s
    <2>3. r.changes < 2 => Earlier(s)
      BY <1>3, <1>4, <1>5, <2>1 DEF Earlier, SameChecks
    <2>4. r.changes = 0 => Unchanged(s)
      BY <1>3, <1>4, <1>5 DEF Unchanged, OnItsWay, SameChecks, ItemOf
    <2>5. Justified(s)
      BY <1>4, <2>3, <2>4 DEF Justified, Bounded, SameChecks
    <2> QED BY <1>4, <2>2, <2>5 DEF Decided, r
  <1>7. CASE ~Serves(r.link, r.by)
    <2>1. r.changes < 2 => 0 \notin Holds(r)
      BY <1>2, <1>3, <1>7 DEF Holds, Holding
    <2>2. Goto(p, Idle)
      BY <1>7 DEF Resolve, Refuse
    <2>3. Decided(Idle, r)
      <3>1. 0 \in 0..Len(r.checks)
        BY <1>2
      <3> QED BY <2>1, <3>1 DEF Decided, Idle
    <2> QED BY <2>2, <2>3, IdleJustified
  <1> QED BY <1>6, <1>7

LEMMA HoldsCheck ==
  ASSUME NEW r \in Request, Earlier(r)
  PROVE  /\ r.k \in 0..Len(r.checks)
         /\ r.checks[r.k].item \in Ids /\ r.checks[r.k].level \in Levels
         /\ r.k \in Holds(r) <=> May(r.by, r.checks[r.k].level, r.checks[r.k].item)
  <1>1. r.checks \in Seq(Check) /\ r.k \in 1..Len(r.checks) /\ Len(r.checks) \in Nat
    BY RequestFields DEF Earlier
  <1>2. r.checks[r.k] \in Check /\ r.k # 0
    BY <1>1
  <1> QED BY <1>1, <1>2 DEF Holds, Holding, Check

LEMMA RefusedDecided ==
  ASSUME NEW r \in Request, r.changes < 2 => Earlier(r) /\ r.k \notin r.held \cap Holds(r)
  PROVE  Justified(Idle) /\ Decided(Idle, r)
  <1>1. r.changes < 2 => r.k \in 0..Len(r.checks)
    BY HoldsCheck
  <1>2. Idle.at = "idle"
    BY DEF Idle
  <1> QED BY <1>1, <1>2, IdleJustified DEF Decided

LEMMA PassedDecided ==
  ASSUME NEW r \in Request, NEW s \in Request, SameChecks(s, r), s.k = r.k, s.at # "visit",
         r.changes < 2 => Earlier(s) /\ r.k \in r.held \cup Holds(r),
         r.changes = 0 =>
           r.held = Holds(r) /\ (r.op = "open" => ItemOf(r) \in Live /\ r.checks = Follow("see", ItemOf(r)))
  PROVE  Justified(Passed(s)) /\ Decided(Passed(s), r)
  <1>1. Holds(s) = Holds(r)
    BY SameHolds
  <1>2. CASE r.changes < 2
    <2>1. s.changes = 0 =>
            s.held = Holds(s) /\ (s.op = "open" => ItemOf(s) \in Live /\ s.checks = Follow("see", ItemOf(s)))
      BY <1>1 DEF SameChecks, ItemOf
    <2>2. s.k \in s.held \cup Holds(s) /\ Earlier(s)
      BY <1>1, <1>2 DEF SameChecks
    <2>3. /\ Passed(s).at \in {"get", "act"} /\ Justified(Passed(s))
          /\ Passed(s).at = "act" => 0..Len(s.checks) \subseteq s.held \cup Holds(s)
      BY <2>1, <2>2, PassedJustified
    <2> QED BY <1>1, <2>3 DEF Decided, SameChecks
  <1>3. CASE ~(r.changes < 2)
    <2>1. Passed(s).at = "act" \/ Passed(s).changes = r.changes
      BY PassedFields DEF SameChecks
    <2> QED BY <1>3, <2>1 DEF Justified, Checking, Decided
  <1> QED BY <1>2, <1>3

LEMMA GetItemJustified ==
  ASSUME Inv, NEW p \in Procs, GetItem(p), Justified(req[p])
  PROVE  \E s : Goto(p, s) /\ Justified(s) /\ Decided(s, req[p])
  <1> DEFINE r == req[p]
             x == r.checks[r.k].item
             level == r.checks[r.k].level
             mine == items[x].owner = r.by
             from == IF r.k = 1 /\ r.op \in {"move", "trash"} THEN items[x].parent ELSE r.from
             read == HavingRead(r, x, items[x].parent, from)
  <1>1. r \in Request /\ r.at = "get"
    BY DEF Inv, TypeOK, GetItem
  <1>2. r.changes < 2 => Earlier(r) /\ (r.changes = 0 => Unchanged(r))
    BY <1>1 DEF Justified, Checking
  <1>3. r.changes < 2 => /\ x \in Ids /\ level \in Levels
                         /\ r.k \in Holds(r) <=> May(r.by, level, x)
    BY <1>1, <1>2, HoldsCheck
  <1>4. MayOK /\ WalkOK
    BY MayReach, ReachWalks
  <1>5. CASE x \notin Live
    <2>1. Refuse(p)
      BY <1>5 DEF GetItem
    <2>2. r.changes < 2 => r.k \notin Holds(r)
      BY <1>3, <1>5 DEF May
    <2> QED BY <1>1, <1>2, <2>1, <2>2, RefusedDecided DEF Refuse
  <1>6. CASE x \in Live
    <2> DEFINE up == items[x].parent
    <2>1. x \in Ids \cup {Nil} /\ up \in Ids \cup {Nil} /\ from \in Ids \cup {Nil}
      <3>1. x \in Ids \cup {Nil} /\ up \in Ids \cup {Nil}
        BY <1>6, ItemTypes DEF Inv
      <3>2. r.from \in Ids \cup {Nil}
        <4> HIDE DEF r
        <4> QED BY <1>1 DEF Request
      <3> QED BY <3>1, <3>2
    <2>2. /\ Active(x) /\ level \in Levels => level \in {"see", "read", "write", "own", "active"}
          /\ \/ Goto(p, Passed(read)) /\ ((mine /\ (Active(x) \/ level = "see")) \/ (Active(x) /\ level = "active"))
             \/ Goto(p, ToFind(read)) /\ ~mine /\ Active(x) /\ level # "own" /\ level # "active"
             \/ /\ Refuse(p)
                /\ ~(mine /\ (Active(x) \/ level = "see")) /\ ~(Active(x) /\ level = "active")
                /\ ~(~mine /\ Active(x) /\ level # "own")
      BY <1>6 DEF GetItem, HavingRead, ToFind, Levels
    <2>3. /\ read \in Request /\ SameChecks(read, r) /\ read.at = "get" /\ read.k = r.k
          /\ read.cur = x /\ read.up = up
      <3>1. read = HavingRead(r, x, up, from)
        BY DEF up
      <3> HIDE DEF r, x, up, from, read
      <3>2. /\ HavingRead(r, x, up, from) \in Request
            /\ HavingRead(r, x, up, from).at = r.at /\ HavingRead(r, x, up, from).k = r.k
        BY <1>1, <2>1, HavingReadType
      <3>3. /\ SameChecks(HavingRead(r, x, up, from), r)
            /\ HavingRead(r, x, up, from).cur = x /\ HavingRead(r, x, up, from).up = up
        BY <1>1 DEF HavingRead, SameChecks, Request
      <3> QED BY <1>1, <3>1, <3>2, <3>3
    <2>4. Holds(read) = Holds(r)
      BY <2>3, SameHolds
    <2>5. r.changes < 2 => Earlier(read)
      <3> HIDE DEF read, r
      <3> QED BY <1>1, <1>2, <2>3, <2>4 DEF Earlier, SameChecks
    <2>6. ASSUME (mine /\ (Active(x) \/ level = "see")) \/ (Active(x) /\ level = "active")
          PROVE  Justified(Passed(read)) /\ Decided(Passed(read), r)
      <3>1. r.changes < 2 => r.k \in Holds(r)
        BY <1>3, <1>6, <2>6 DEF May
      <3> HIDE DEF read, r
      <3> QED BY <1>1, <1>2, <2>3, <2>5, <3>1, PassedDecided DEF Unchanged
    <2>7. ASSUME ~mine, Active(x), level # "own", level # "active"
          PROVE  Justified(ToFind(read)) /\ Decided(ToFind(read), r)
      <3> DEFINE s == ToFind(read)
                 S == Reach(r.by)[x]
      <3>1. /\ s.at = "find" /\ SameChecks(s, r) /\ s.k = r.k /\ s.cur = x /\ s.up = up
        <4> HIDE DEF read, r, x, up
        <4> QED BY <2>3 DEF ToFind, SameChecks, Request
      <3>2. Holds(s) = Holds(r)
        BY <3>1, SameHolds
      <3>3. r.changes < 2 => level \in Granted /\ (r.k \in Holds(r) <=> Allows(level, S))
        BY <1>3, <1>4, <1>6, <2>7 DEF MayOK, Levels, Granted
      <3>4. up \in Live \cup {Nil} /\ up = Parents[x]
        BY <1>6 DEF Inv, TreeOK, Parents
      <3>5. Left(s) = S
        <4>1. Left(s) = AtFind(Given(r.by), Reach(r.by), x, Parents[x])
          BY <3>1, <3>4 DEF Left, SameChecks
        <4>2. S = AtFind(Given(r.by), Reach(r.by), x, Parents[x])
          BY <1>4, <1>6 DEF WalkOK, IsWalk, AtFind
        <4> QED BY <4>1, <4>2
      <3>6. s.checks[s.k].item = x /\ s.checks[s.k].level = level
        BY <3>1 DEF SameChecks
      <3> HIDE DEF s, S, up, level, mine
      <3>7. r.changes < 2 => Earlier(s)
        BY <1>1, <1>2, <3>1, <3>2 DEF Earlier, SameChecks
      <3>8. r.changes < 2 => Bounded(s)
        BY <1>6, <3>1, <3>2, <3>3, <3>4, <3>5, <3>6 DEF Bounded, SameChecks
      <3>9. r.changes = 0 => OnItsWay(s)
        <4>1. Leads(Live, Parents, Given(r.by), x, x)
          BY LeadsSelf
        <4> HIDE DEF x
        <4> QED BY <1>6, <2>7, <3>1, <3>4, <3>6, <4>1 DEF OnItsWay, SameChecks, mine
      <3>10. r.changes = 0 => Unchanged(s)
        BY <1>2, <3>1, <3>2, <3>9 DEF Unchanged, SameChecks, ItemOf
      <3>11. Justified(s)
        BY <3>1, <3>7, <3>8, <3>10 DEF Justified, SameChecks
      <3> QED BY <3>1, <3>11 DEF Decided, s
    <2>8. ASSUME ~(mine /\ (Active(x) \/ level = "see")), ~(Active(x) /\ level = "active"),
                 ~(~mine /\ Active(x) /\ level # "own")
          PROVE  Justified(Idle) /\ Decided(Idle, r)
      <3>1. r.changes < 2 => r.k \notin Holds(r)
        BY <1>3, <1>4, <2>8 DEF MayOK, Granted
      <3> QED BY <1>1, <1>2, <3>1, RefusedDecided
    <2> HIDE DEF read, level, mine
    <2> QED BY <2>2, <2>6, <2>7, <2>8 DEF Refuse
  <1> QED BY <1>5, <1>6

LEMMA FindJustified ==
  ASSUME Inv, NEW p \in Procs, Find(p), Justified(req[p])
  PROVE  \E s : Goto(p, s) /\ Justified(s) /\ Decided(s, req[p])
  <1> DEFINE r == req[p]
             level == r.checks[r.k].level
             found == FindGrant(r.cur, r.by)
             edits == \E g \in found : grants[g].permission = "edit"
             s == [r EXCEPT !.at = "climb"]
  <1>1. r \in Request /\ r.at = "find"
    BY DEF Inv, TypeOK, Find
  <1>2. r.changes < 2 => Earlier(r) /\ Bounded(r) /\ (r.changes = 0 => Unchanged(r))
    BY <1>1 DEF Justified, Checking
  <1>3. r.changes < 2 =>
          /\ r.cur \in Live /\ r.up \in Live \cup {Nil} /\ level \in Granted
          /\ Allows(level, Left(r)) => r.k \in r.held \cup Holds(r)
          /\ ~Allows(level, Left(r)) => r.k \notin r.held \cap Holds(r)
          /\ Left(r) = AtFind(Given(r.by), Reach(r.by), r.cur, r.up)
    BY <1>1, <1>2 DEF Bounded, Left
  <1>4. r.cur \in Live => /\ Given(r.by)[r.cur] = {} <=> found = {}
                          /\ "edit" \in Given(r.by)[r.cur] <=> edits
    BY DEF Given
  <1>5. \/ found # {} /\ level = "write" /\ ~edits /\ Refuse(p)
        \/ found # {} /\ ~(level = "write" /\ ~edits) /\ Goto(p, Passed(r))
        \/ found = {} /\ r.up = Nil /\ Refuse(p)
        \/ found = {} /\ r.up # Nil /\ Goto(p, s)
    BY DEF Find
  <1>6. s.at = "climb" /\ SameChecks(s, r) /\ s.k = r.k /\ s.cur = r.cur /\ s.up = r.up
    BY <1>1 DEF Request, SameChecks
  <1>7. SameChecks(r, r)
    BY DEF SameChecks
  <1> HIDE DEF r, level, found, edits, s
  <1>8. CASE found # {}
    <2>1. r.changes < 2 => (Allows(level, Left(r)) <=> ~(level = "write" /\ ~edits))
      BY <1>3, <1>4, <1>8 DEF AtFind, Allows
    <2>2. ASSUME level = "write", ~edits
          PROVE  Justified(Idle) /\ Decided(Idle, r)
      BY <1>1, <1>2, <1>3, <2>1, <2>2, RefusedDecided
    <2>3. ASSUME ~(level = "write" /\ ~edits)
          PROVE  Justified(Passed(r)) /\ Decided(Passed(r), r)
      <3>1. r.changes < 2 => r.k \in r.held \cup Holds(r)
        BY <1>3, <2>1, <2>3
      <3> QED BY <1>1, <1>2, <1>7, <3>1, PassedDecided DEF Unchanged
    <2> QED BY <1>5, <1>8, <2>2, <2>3 DEF Refuse, r
  <1>9. CASE found = {} /\ r.up = Nil
    <2>1. r.changes < 2 => ~Allows(level, Left(r))
      BY <1>3, <1>4, <1>9 DEF AtFind, Allows
    <2>2. Justified(Idle) /\ Decided(Idle, r)
      BY <1>1, <1>2, <1>3, <2>1, RefusedDecided
    <2> QED BY <1>5, <1>9, <2>2 DEF Refuse, r
  <1>10. CASE found = {} /\ r.up # Nil
    <2>1. r.changes < 2 => Left(s) = Left(r)
      BY <1>3, <1>4, <1>6, <1>10 DEF AtFind, Left, SameChecks
    <2>2. Holds(s) = Holds(r)
      BY <1>6, SameHolds
    <2>3. r.changes < 2 => Earlier(s)
      BY <1>1, <1>2, <1>6, <2>2 DEF Earlier, SameChecks
    <2>4. s.checks[s.k].level = level
      BY <1>6 DEF SameChecks, level
    <2>5. r.changes < 2 => Bounded(s)
      BY <1>3, <1>6, <1>10, <2>1, <2>2, <2>4 DEF Bounded, SameChecks
    <2>6. r.changes = 0 => Unchanged(s)
      <3>1. r.changes = 0 => OnItsWay(s)
        BY <1>1, <1>2, <1>3, <1>4, <1>6, <1>10 DEF Unchanged, OnItsWay, SameChecks
      <3> QED BY <1>2, <1>6, <2>2, <3>1 DEF Unchanged, SameChecks, ItemOf
    <2>7. Justified(s)
      BY <1>6, <2>3, <2>5, <2>6 DEF Justified, SameChecks
    <2> QED BY <1>5, <1>6, <1>10, <2>7 DEF Decided, r
  <1> QED BY <1>8, <1>9, <1>10

LEMMA ClimbJustified ==
  ASSUME Inv, NEW p \in Procs, Climb(p), Justified(req[p])
  PROVE  \E s : Goto(p, s) /\ Justified(s) /\ Decided(s, req[p])
  <1> DEFINE r == req[p]
             level == r.checks[r.k].level
             s == [r EXCEPT !.at = "find", !.cur = r.up, !.up = items[r.up].parent]
  <1>1. r \in Request /\ r.at = "climb"
    BY DEF Inv, TypeOK, Climb
  <1>2. r.changes < 2 => Earlier(r) /\ Bounded(r) /\ (r.changes = 0 => Unchanged(r))
    BY <1>1 DEF Justified, Checking
  <1>3. r.changes < 2 =>
          /\ r.up \in Live /\ r.up # Nil /\ level \in Granted
          /\ Allows(level, Left(r)) => r.k \in r.held \cup Holds(r)
          /\ ~Allows(level, Left(r)) => r.k \notin r.held \cap Holds(r)
          /\ Left(r) = Reach(r.by)[r.up]
    BY <1>1, <1>2 DEF Bounded, Left
  <1>4. (r.up \in Live /\ Goto(p, s)) \/ (r.up \notin Live /\ Refuse(p))
    BY DEF Climb
  <1>5. s.at = "find" /\ SameChecks(s, r) /\ s.k = r.k /\ s.cur = r.up /\ s.up = items[r.up].parent
    BY <1>1 DEF Request, SameChecks
  <1> HIDE DEF r, level, s
  <1>6. CASE r.up \notin Live
    BY <1>1, <1>2, <1>3, <1>4, <1>6, RefusedDecided DEF Refuse, r
  <1>7. CASE r.up \in Live
    <2>1. s.up = Parents[r.up] /\ s.up \in Live \cup {Nil}
      BY <1>5, <1>7 DEF Parents, Inv, TreeOK
    <2>2. Left(s) = Reach(r.by)[r.up]
      <3>1. Left(s) = AtFind(Given(r.by), Reach(r.by), r.up, Parents[r.up])
        BY <1>5, <2>1 DEF Left, SameChecks
      <3>2. WalkOK
        BY ReachWalks
      <3>3. Reach(r.by)[r.up] = AtFind(Given(r.by), Reach(r.by), r.up, Parents[r.up])
        BY <1>7, <3>2 DEF WalkOK, IsWalk, AtFind
      <3> QED BY <3>1, <3>3
    <2>3. Holds(s) = Holds(r)
      BY <1>5, SameHolds
    <2>4. r.changes < 2 => Earlier(s)
      BY <1>1, <1>2, <1>5, <2>3 DEF Earlier, SameChecks
    <2>5. s.checks[s.k].level = level
      BY <1>5 DEF SameChecks, level
    <2>6. r.changes < 2 => Bounded(s)
      BY <1>3, <1>5, <1>7, <2>1, <2>2, <2>3, <2>5 DEF Bounded, SameChecks
    <2>7. r.changes = 0 => OnItsWay(s)
      <3> SUFFICES ASSUME r.changes = 0 PROVE OnItsWay(s)
        OBVIOUS
      <3>1. /\ Leads(Live, Parents, Given(r.by), r.checks[r.k].item, r.cur)
            /\ r.up = Parents[r.cur] /\ Given(r.by)[r.cur] = {} /\ r.up # Nil
        BY <1>1, <1>2, <1>3 DEF Unchanged, OnItsWay
      <3>2. Leads(Live, Parents, Given(r.by), r.checks[r.k].item, r.up)
        BY <3>1, LeadsOn
      <3> QED BY <1>1, <1>2, <1>5, <1>7, <2>1, <3>2 DEF Unchanged, OnItsWay, SameChecks
    <2>8. r.changes = 0 => Unchanged(s)
      BY <1>2, <1>5, <2>3, <2>7 DEF Unchanged, SameChecks, ItemOf
    <2>9. Justified(s)
      BY <1>5, <2>4, <2>6, <2>8 DEF Justified, SameChecks
    <2> QED BY <1>4, <1>5, <1>7, <2>9 DEF Decided, r
  <1> QED BY <1>6, <1>7

-----------------------------------------------------------------------------
(* Changes of the tables under a request that checks. *)

\* The tables change in no way but this: in items that stay, D, all but m keep
\* their parent and their grants, and all their owner.  m may lose or get one of them, and then no
\* item goes to the trash.
Touches(D, m) ==
  /\ \A u : Touched(Live, Parents, Given(u), Live', Parents', Given(u)', D, m)
  /\ \A y \in Live : Active(y) => y \in D
  /\ \A y \in D : items'[y].owner = items[y].owner
  /\ m \in D => \A y \in D : Active(y) => Active(y)'

\* A request that checks bears one change.
LEMMA ChangeJustified ==
  ASSUME Inv, Inv', ~StaleMoves, NEW D, NEW m, Touches(D, m), WalkOK, WalkOK', MayOK, MayOK',
         NEW r \in Request, Justified(r)
  PROVE  Justified(NoticedRequest(r))'
  <1> DEFINE s == NoticedRequest(r)
             x == r.checks[r.k].item
             level == r.checks[r.k].level
             N == Reach(r.by)
             N2 == Reach(r.by)'
  <1>1. /\ s.at = r.at /\ s.by = r.by /\ s.op = r.op /\ s.link = r.link /\ s.checks = r.checks
        /\ s.k = r.k /\ s.held = r.held /\ s.cur = r.cur /\ s.up = r.up
        /\ s.changes = IF r.changes = 0 THEN 1 ELSE 2
    BY DEF NoticedRequest, Request
  <1> HIDE DEF s
  <1> SUFFICES ASSUME r.at \in Checking, r.changes = 0
               PROVE  Earlier(s)' /\ Bounded(s)'
    BY <1>1 DEF Justified, Checking, s
  <1>2. Earlier(r) /\ Bounded(r) /\ Unchanged(r)
    BY DEF Justified
  <1>3. r.held = Holds(r)
    BY <1>2 DEF Unchanged
  <1>4. Earlier(s)'
    BY <1>1, <1>2, <1>3 DEF Earlier
  <1>5. ASSUME r.at \in {"find", "climb"} PROVE Bounded(s)'
    <2>1. /\ x \in Live /\ Active(x) /\ items[x].owner # r.by
          /\ r.cur \in Live /\ Leads(Live, Parents, Given(r.by), x, r.cur)
          /\ r.up = Parents[r.cur]
          /\ r.at = "climb" => Given(r.by)[r.cur] = {} /\ r.up # Nil
          /\ level \in Granted
      BY <1>2, <1>5 DEF Unchanged, OnItsWay, Bounded
    <2>2. x \in D /\ Touched(Live, Parents, Given(r.by), Live', Parents', Given(r.by)', D, m)
      BY <2>1 DEF Touches
    <2>3. /\ IsWalk(Live, Parents, Given(r.by), N) /\ IsWalk(Live', Parents', Given(r.by)', N2)
          /\ NoCycle(Live, Parents) /\ Nil \notin Live /\ Nil \notin Live'
      <3>1. NoCycle(Live, Parents)
        BY DEF Inv, Rooted, TreeIsAcyclic, NoCycle, Parents
      <3>2. Nil \notin Live /\ Nil \notin Live'
        BY NilIsNothing DEF Inv, TypeOK, Table, Live
      <3> QED BY <3>1, <3>2 DEF WalkOK
    <2>4. /\ r.cur \in D
          /\ AtFind(Given(r.by)', N2, r.cur, r.up) \in {N[x], N2[x]}
          /\ Given(r.by)[r.cur] = {} /\ r.up # Nil => r.up \in D /\ N2[r.up] \in {N[x], N2[x]}
          /\ m \notin D => N2[x] = N[x]
      <3> HIDE DEF x, N, N2
      <3> QED BY <2>1, <2>2, <2>3, WalkAcrossChange
    <2>5. D \subseteq Live' /\ r.up \in D \cup {Nil}
      BY <2>1, <2>2, <2>4 DEF Touched
    <2>6. Left(s)' \in {N[x], N2[x]}
      <3>1. CASE r.at = "find"
        <4>1. Left(s)' = AtFind(Given(r.by)', N2, r.cur, r.up)
          BY <1>1, <3>1 DEF Left
        <4> QED BY <2>4, <4>1
      <3>2. CASE r.at = "climb"
        <4>1. Left(s)' = N2[r.up]
          BY <1>1, <3>2 DEF Left
        <4> QED BY <2>1, <2>4, <3>2, <4>1
      <3> QED BY <1>5, <3>1, <3>2
    <2>7. r.k \in r.held <=> Allows(level, N[x])
      <3>1. r.k \in Holds(r) <=> May(r.by, level, x)
        BY <1>2, HoldsCheck
      <3>2. May(r.by, level, x) <=> Allows(level, N[x])
        BY <2>1 DEF MayOK, Granted
      <3> QED BY <1>3, <3>1, <3>2
    <2>8. r.k \in Holds(s)' <=> x \in Live' /\ Active(x)' /\ Allows(level, N2[x])
      <3>1. r.k \in DOMAIN r.checks /\ r.k # 0
        <4>1. r.checks \in Seq(Check) /\ r.k \in DOMAIN r.checks
          BY <1>2, RequestFields DEF Earlier
        <4> QED BY <4>1
      <3>2. r.k \in Holds(s)' <=> May(r.by, level, x)'
        BY <1>1, <3>1 DEF Holds, Holding
      <3>3. x \in Live' => items'[x].owner # r.by
        BY <2>1, <2>2 DEF Touches
      <3>4. May(r.by, level, x)' <=> x \in Live' /\ Active(x)' /\ Allows(level, N2[x])
        BY <2>1, <3>3 DEF MayOK, Granted
      <3> QED BY <3>2, <3>4
    <2>9. m \in D => Active(x)' /\ x \in Live'
      BY <2>1, <2>2, <2>5 DEF Touches
    <2> HIDE DEF N, N2, x
    <2>10. /\ Allows(level, Left(s)') => r.k \in r.held \cup Holds(s)'
           /\ ~Allows(level, Left(s)') => r.k \notin r.held \cap Holds(s)'
      BY <2>4, <2>6, <2>7, <2>8, <2>9
    <2>11. (s.checks[s.k].level)' = level
      BY <1>1
    <2> HIDE DEF level
    <2> QED BY <1>1, <2>1, <2>4, <2>5, <2>10, <2>11 DEF Bounded
  <1>6. Bounded(s)'
    BY <1>1, <1>5 DEF Bounded
  <1> QED BY <1>4, <1>6

\* In items that stay where they are, with a change at m or none.
LEMMA TouchesLive ==
  ASSUME Inv, Live \subseteq Live', NEW m,
         \A y \in Live : y # m => /\ items'[y].parent = items[y].parent
                                  /\ \A u : Given(u)'[y] = Given(u)[y],
         \A y \in Live : items'[y].owner = items[y].owner,
         m \in Live => \/ items'[m].parent = items[m].parent
                       \/ \A u : Given(u)'[m] = Given(u)[m],
         m \in Live => \A y \in Live : Active(y) => Active(y)'
  PROVE  Touches(Live, m)
  <1>1. \A y \in Live : Parents[y] = items[y].parent /\ Parents'[y] = items'[y].parent
    BY DEF Parents
  <1>2. \A y \in Live : Parents[y] \in Live \cup {Nil}
    BY <1>1 DEF Inv, TreeOK
  <1>3. \A u : Touched(Live, Parents, Given(u), Live', Parents', Given(u)', Live, m)
    BY <1>1, <1>2 DEF Touched
  <1> QED BY <1>3 DEF Touches

LEMMA GivenSame ==
  ASSUME UNCHANGED grants, NEW y \in Live, y \in Live', NEW u
  PROVE  Given(u)'[y] = Given(u)[y]
  BY DEF Given, FindGrant

\* A step that leaves items and grants alone.
LEMMA SameTouches ==
  ASSUME Inv, UNCHANGED <<items, grants>>
  PROVE  Touches(Live, Nil)
  <1>1. Live' = Live /\ Nil \notin Live
    BY NilIsNothing DEF Live, Inv, TypeOK, Table
  <1>2. \A y \in Live : \A u : Given(u)'[y] = Given(u)[y]
    BY <1>1, GivenSame
  <1> QED BY <1>1, <1>2, TouchesLive

LEMMA PutTouches ==
  ASSUME Inv, NEW p \in Procs, NEW folder, NEW target, Put(p, folder, target)
  PROVE  Touches(Live, Nil)
  <1>1. PICK x \in Unused(Ids) : items' = Insert(items, x, RowFor(req[p], folder, target))
    BY DEF Put
  <1>2. x \notin Live
    BY DEF Inv, TreeOK, Unused
  <1>3. Live \subseteq Live' /\ \A y \in Live : items'[y] = items[y]
    BY <1>1, <1>2 DEF Insert, Live
  <1>4. Nil \notin Live
    BY NilIsNothing DEF Live, Inv, TypeOK, Table
  <1>5. UNCHANGED grants
    BY DEF Put
  <1>6. \A y \in Live : \A u : Given(u)'[y] = Given(u)[y]
    BY <1>3, <1>5, GivenSame
  <1> QED BY <1>3, <1>4, <1>6, TouchesLive

LEMMA MoveTouches ==
  ASSUME Inv, NEW p \in Procs, Move(p)
  PROVE  Touches(Live, ItemOf(req[p]))
  <1> DEFINE x == ItemOf(req[p])
  <1>1. x \in Live /\ items' = [items EXCEPT ![x].parent = req[p].dest] /\ UNCHANGED grants
    BY DEF Move
  <1> HIDE DEF x
  <1>2. \A y \in Live : items[y] \in Item
    BY ItemTypes DEF Inv
  <1>3. Live' = Live
    BY <1>1 DEF Live
  <1>4. \A y \in Live : y # x => items'[y] = items[y]
    BY <1>1 DEF Live
  <1>5. items'[x].trashed = items[x].trashed /\ items'[x].owner = items[x].owner
    BY <1>1, <1>2 DEF Live, Item
  <1>6. \A y \in Live : \A u : Given(u)'[y] = Given(u)[y]
    BY <1>1, <1>3, GivenSame
  <1>7. \A y \in Live : Active(y) => Active(y)'
    BY <1>3, <1>4, <1>5 DEF Active
  <1> QED BY <1>1, <1>3, <1>4, <1>5, <1>6, <1>7, TouchesLive DEF x

LEMMA TrashTouches ==
  ASSUME Inv, NEW p \in Procs, Trash(p)
  PROVE  Touches(Live, Nil)
  <1>1. PICK S : items' = Mark(S, TRUE)
    BY DEF Trash
  <1>2. Live' = Live /\ \A y \in Live : items'[y].parent = items[y].parent /\ items'[y].owner = items[y].owner
    BY <1>1, MarkFacts DEF Inv, Live
  <1>3. UNCHANGED grants /\ Nil \notin Live
    BY NilIsNothing DEF Trash, Live, Inv, TypeOK, Table
  <1>4. \A y \in Live : \A u : Given(u)'[y] = Given(u)[y]
    BY <1>2, <1>3, GivenSame
  <1> QED BY <1>2, <1>3, <1>4, TouchesLive

\* Grants of one item come and go.
LEMMA GrantsTouch ==
  ASSUME Inv, UNCHANGED items, NEW m,
         \A y \in Live : \A u : y # m => Given(u)'[y] = Given(u)[y]
  PROVE  Touches(Live, m)
  <1>1. Live' = Live /\ \A y : Active(y)' <=> Active(y)
    BY DEF Live, Active
  <1> QED BY <1>1, TouchesLive

LEMMA InsertGrantTouches ==
  ASSUME Inv, NEW p \in Procs, InsertGrant(p)
  PROVE  \E m : Touches(Live, m)
  <1> DEFINE m == ItemOf(req[p])
  <1>1. PICK g \in GrantIds \ DOMAIN grants :
          grants' = Insert(grants, g, [item |-> m, owner |-> req[p].by, with |-> req[p].with,
                                       permission |-> req[p].permission])
    BY DEF InsertGrant
  <1>2. /\ DOMAIN grants' = DOMAIN grants \cup {g} /\ grants'[g].item = m
        /\ \A h \in DOMAIN grants : grants'[h] = grants[h]
    BY <1>1 DEF Insert
  <1>3. UNCHANGED items
    BY DEF InsertGrant
  <1> HIDE DEF m
  <1>4. ASSUME NEW y \in Live, NEW u, y # m
        PROVE  Given(u)'[y] = Given(u)[y]
    <2>1. FindGrant(y, u)' = FindGrant(y, u)
      BY <1>2, <1>4 DEF FindGrant
    <2> QED BY <1>2, <1>3, <2>1 DEF Given, Live, FindGrant
  <1> QED BY <1>3, <1>4, GrantsTouch

LEMMA UpdatePermissionTouches ==
  ASSUME Inv, NEW u \in Users, NEW g \in GrantIds, NEW permission \in {"view", "edit"},
         UpdatePermission(u, g, permission)
  PROVE  \E m : Touches(Live, m)
  <1>1. \A h \in DOMAIN grants : grants[h] \in Grant
    BY DEF Inv, TypeOK, Table
  <1>2. /\ DOMAIN grants' = DOMAIN grants /\ UNCHANGED items
        /\ \A h \in DOMAIN grants : h # g => grants'[h] = grants[h]
        /\ g \in DOMAIN grants /\ grants'[g].item = grants[g].item
    BY <1>1 DEF UpdatePermission, Grant
  <1>3. ASSUME NEW y \in Live, NEW v, y # grants[g].item
        PROVE  Given(v)'[y] = Given(v)[y]
    <2>1. FindGrant(y, v)' = FindGrant(y, v)
      BY <1>2, <1>3 DEF FindGrant
    <2>2. g \notin FindGrant(y, v)
      BY <1>3 DEF FindGrant
    <2> QED BY <1>2, <2>1, <2>2 DEF Given, Live, FindGrant
  <1> QED BY <1>2, <1>3, GrantsTouch

LEMMA RevokeTouches ==
  ASSUME Inv, NEW u \in Users, NEW g \in GrantIds, Revoke(u, g)
  PROVE  \E m : Touches(Live, m)
  <1>1. /\ DOMAIN grants' = DOMAIN grants \ {g} /\ UNCHANGED items
        /\ \A h \in DOMAIN grants' : grants'[h] = grants[h]
    BY DEF Revoke, Without
  <1>2. ASSUME NEW y \in Live, NEW v, y # grants[g].item
        PROVE  Given(v)'[y] = Given(v)[y]
    <2>1. FindGrant(y, v)' = FindGrant(y, v)
      BY <1>1, <1>2 DEF FindGrant
    <2> QED BY <1>1, <2>1 DEF Given, Live, FindGrant
  <1> QED BY <1>1, <1>2, GrantsTouch

LEMMA RestoreTouches ==
  ASSUME Inv, NEW u \in Users, NEW x \in Ids, Restore(u, x)
  PROVE  Touches(Live, x)
  <1>1. PICK S, dest : x \in Live /\ items' = [Mark(S, FALSE) EXCEPT ![x].parent = dest]
    BY DEF Restore
  <1> DEFINE marked == Mark(S, FALSE)
  <1>2. /\ DOMAIN marked = Live /\ \A y \in Live : marked[y] \in Item
        /\ \A y \in Live : marked[y].parent = items[y].parent /\ marked[y].owner = items[y].owner
    BY MarkFacts DEF Inv
  <1>3. \A y \in Live : Active(y) => ~marked[y].trashed
    <2> SUFFICES ASSUME NEW y \in Live, Active(y) PROVE ~marked[y].trashed
      OBVIOUS
    <2>1. items[y] \in Item /\ ~items[y].trashed
      BY ItemTypes DEF Inv, Active
    <2>2. marked[y] = IF y \in S THEN [items[y] EXCEPT !.trashed = FALSE] ELSE items[y]
      BY DEF Mark
    <2> QED BY <2>1, <2>2 DEF Item
  <1> HIDE DEF marked
  <1>4. items' = [marked EXCEPT ![x].parent = dest]
    BY <1>1 DEF marked
  <1>5. Live' = Live /\ \A y \in Live : y # x => items'[y] = marked[y]
    BY <1>2, <1>4 DEF Live
  <1>6. items'[x].trashed = marked[x].trashed /\ items'[x].owner = marked[x].owner
    BY <1>1, <1>2, <1>4 DEF Item
  <1>7. \A y \in Live : Active(y) => Active(y)'
    BY <1>3, <1>5, <1>6 DEF Active
  <1>8. UNCHANGED grants
    BY DEF Restore
  <1>9. \A y \in Live : \A v : Given(v)'[y] = Given(v)[y]
    BY <1>5, <1>8, GivenSame
  <1>10. \A y \in Live : y # x => items'[y].parent = items[y].parent
    BY <1>2, <1>5
  <1>11. \A y \in Live : items'[y].owner = items[y].owner
    BY <1>1, <1>2, <1>5, <1>6
  <1> QED BY ONLY <1>5, <1>7, <1>9, <1>10, <1>11, Inv, TouchesLive

LEMMA EraseTouches ==
  ASSUME Inv, NEW u \in Users, NEW x \in Ids, Erase(u, x)
  PROVE  Touches(Live', Nil)
  <1>1. PICK R \in SUBSET Below(x, OfOwner(x, TRUE)) :
          /\ Removable(R)
          /\ items' = Without(items, R)
          /\ grants' = Without(grants, {g \in DOMAIN grants : grants[g].item \in R})
    BY DEF Erase
  <1>2. Live' = Live \ R /\ \A y \in Live' : items'[y] = items[y]
    BY <1>1 DEF Without, Live
  <1>3. /\ DOMAIN grants' = {g \in DOMAIN grants : grants[g].item \notin R}
        /\ \A g \in DOMAIN grants' : grants'[g] = grants[g]
    BY <1>1 DEF Without
  <1>4. ASSUME NEW y \in Live', NEW v
        PROVE  Given(v)'[y] = Given(v)[y]
    <2>1. FindGrant(y, v)' = FindGrant(y, v)
      BY <1>2, <1>3 DEF FindGrant
    <2> QED BY <1>2, <1>3, <2>1 DEF Given, FindGrant
  <1>5. \A y \in Live' : /\ Parents'[y] = Parents[y]
                         /\ Parents[y] \in Live' \cup {Nil}
    <2>1. \A y \in Live' : items[y].parent \notin R
      BY <1>1, <1>2 DEF Removable
    <2> QED BY <1>2, <2>1 DEF Parents, Inv, TreeOK
  <1>6. Nil \notin Live'
    BY <1>2, NilIsNothing DEF Live, Inv, TypeOK, Table
  <1>7. \A y \in Live : Active(y) => y \in Live'
    <2>1. items[x].trashed /\ x \in Live
      BY DEF Erase
    <2>2. \A y \in Live : items[y].trashed \in BOOLEAN
      BY ItemTypes DEF Inv, Item
    <2>3. \A y \in R : items[y].trashed
      <3>1. R \subseteq OfOwner(x, TRUE) \cup {x}
        BY <1>1, BelowInside
      <3>2. \A y \in OfOwner(x, TRUE) : items[y].trashed
        BY DEF OfOwner
      <3> QED BY <2>1, <3>1, <3>2
    <2> QED BY <1>2, <2>3 DEF Active
  <1>8. \A v : Touched(Live, Parents, Given(v), Live', Parents', Given(v)', Live', Nil)
    BY <1>2, <1>4, <1>5, <1>6 DEF Touched
  <1> QED BY <1>2, <1>6, <1>7, <1>8 DEF Touches

-----------------------------------------------------------------------------
(* Every step keeps what is known, and decides as it should. *)

StepDecided(q) ==
  req[q].at \in Checking /\ req'[q].at \in {"act", "idle"} => Decided(req'[q], req[q])

LEMMA JustifiedSame ==
  ASSUME Inv, OnlyRequests, NEW t
  PROVE  Justified(t)' <=> Justified(t)
  <1>1. /\ Live' = Live /\ Parents' = Parents /\ items' = items
        /\ \A u : Given(u)' = Given(u)
        /\ \A u : Reach(u)' = Reach(u)
        /\ \A u, level, x : May(u, level, x)' <=> May(u, level, x)
    BY SameTables DEF OnlyRequests
  <1>2. Holds(t)' = Holds(t)
    <2>1. Serves(t.link, t.by)' <=> Serves(t.link, t.by)
      BY DEF Serves, Expired, OnlyRequests
    <2> QED BY <1>1, <2>1 DEF Holds, Holding
  <1>3. Left(t)' = Left(t)
    BY <1>1 DEF Left
  <1>4. Earlier(t)' <=> Earlier(t)
    BY <1>2 DEF Earlier
  <1>5. Bounded(t)' <=> Bounded(t)
    BY <1>1, <1>2, <1>3 DEF Bounded
  <1>6. OnItsWay(t)' <=> OnItsWay(t)
    BY <1>1 DEF OnItsWay, Active
  <1>7. Follow("see", ItemOf(t))' = Follow("see", ItemOf(t))
    BY <1>1 DEF Follow, Need, ItemOf
  <1>8. Unchanged(t)' <=> Unchanged(t)
    BY <1>1, <1>2, <1>6, <1>7 DEF Unchanged, ItemOf
  <1> QED BY <1>4, <1>5, <1>8 DEF Justified

\* A step of one request that leaves the tables alone.
LEMMA GotoJustified ==
  ASSUME Inv, AllJustified, OnlyRequests, NEW p \in Procs, NEW s, Goto(p, s), Justified(s),
         req[p].at \in Checking => Decided(s, req[p])
  PROVE  AllJustified' /\ \A q \in Procs : StepDecided(q)
  <1>1. req'[p] = s /\ \A q \in Procs : q # p => req'[q] = req[q]
    BY DEF Goto, Inv, TypeOK
  <1>2. \A q \in Procs : Justified(req'[q])
    BY <1>1 DEF AllJustified
  <1>3. \A t : Justified(t)' <=> Justified(t)
    BY JustifiedSame
  <1>4. AllJustified'
    BY <1>2, <1>3 DEF AllJustified
  <1>5. ASSUME NEW q \in Procs PROVE StepDecided(q)
    BY <1>1 DEF StepDecided, Checking
  <1> QED BY <1>4, <1>5

\* A step that changes the tables.
LEMMA ChangesJustified ==
  ASSUME Inv, Inv', ~StaleMoves, AllJustified, \E D, m : Touches(D, m),
         req' = Noticed \/ \E p \in Procs : Change(p) /\ req[p].at \in {"act", "insert"}
  PROVE  AllJustified' /\ \A q \in Procs : StepDecided(q)
  <1>1. WalkOK /\ WalkOK' /\ MayOK /\ MayOK'
    <2>1. WalkOK'
      BY ReachWalks, PTL
    <2>2. MayOK'
      BY MayReach, PTL
    <2> QED BY <2>1, <2>2, ReachWalks, MayReach
  <1>2. PICK D, m : Touches(D, m)
    OBVIOUS
  <1>3. \A r \in Request : Justified(r) => Justified(NoticedRequest(r))'
    BY <1>1, <1>2, ChangeJustified
  <1>4. \A t : t.at \notin Checking => Justified(t)'
    BY DEF Justified
  <1>5. ASSUME NEW q \in Procs
        PROVE  \/ req'[q] = req[q] /\ req[q].at = "idle"
               \/ req'[q] = NoticedRequest(req[q])
               \/ req'[q] = Idle /\ req[q].at \notin Checking
    BY DEF Noticed, Change, NoticedRequest, Checking
  <1>6. \A q \in Procs : /\ req[q] \in Request /\ NoticedRequest(req[q]).at = req[q].at
    BY DEF Inv, TypeOK, NoticedRequest, Request
  <1>7. "idle" \notin Checking /\ "act" \notin Checking /\ Idle.at = "idle"
    BY DEF Checking, Idle
  <1>8. ASSUME NEW q \in Procs PROVE StepDecided(q)
    BY <1>5, <1>6, <1>7 DEF StepDecided
  <1>9. \A q \in Procs : \E t : t = req'[q] /\ Justified(t)'
    <2> SUFFICES ASSUME NEW q \in Procs PROVE \E t : t = req'[q] /\ Justified(t)'
      OBVIOUS
    <2>1. CASE req'[q] = NoticedRequest(req[q])
      <3>1. \E r \in Request : r = req[q] /\ Justified(r)
        BY <1>6 DEF AllJustified
      <3> QED BY <1>3, <2>1, <3>1
    <2>2. CASE req'[q].at \notin Checking
      BY <1>4, <2>2
    <2> QED BY <1>5, <1>7, <2>1, <2>2
  <1>10. AllJustified'
    BY <1>9 DEF AllJustified
  <1> QED BY <1>8, <1>10

LEMMA ArriveJustified ==
  ASSUME Inv, AllJustified, NEW p \in Procs, NEW op \in Kinds, NEW a \in Request, Arrive(p, op, a),
         a.at \in {"visit", "get", "act"}, a.k = 1, a.changes = 0,
         a.at = "visit" <=> a.link # Nil,
         a.at # "act" => a.checks # <<>>,
         op = "open" => \E x \in Live : a.checks = Follow("see", x)
  PROVE  AllJustified' /\ \A q \in Procs : StepDecided(q)
  <1> DEFINE held == Holding(a.by, a.link, a.checks)
             s == [a EXCEPT !.op = op, !.held = held]
  <1>1. Goto(p, s) /\ OnlyRequests /\ req[p].at = "idle"
    BY DEF Arrive
  <1> HIDE DEF held
  <1>2. /\ s.op = op /\ s.at = a.at /\ s.by = a.by /\ s.checks = a.checks /\ s.k = 1
        /\ s.link = a.link /\ s.held = held /\ s.changes = 0
    BY DEF Request
  <1> HIDE DEF s
  <1>3. Holds(s) = s.held
    BY <1>2 DEF Holds, held
  <1>4. s.at # "act" => Earlier(s)
    <2>1. a.at # "act" => 1 \in DOMAIN a.checks
      BY RequestFields
    <2>2. a.at = "get" => 0 \in held
      BY DEF held, Holding
    <2> QED BY <1>2, <2>1, <2>2 DEF Earlier
  <1>5. op = "open" => ItemOf(s) \in Live /\ s.checks = Follow("see", ItemOf(s))
    <2> SUFFICES ASSUME NEW x \in Live, a.checks = Follow("see", x)
                 PROVE  ItemOf(s) = x
      BY <1>2
    <2>1. x # Nil
      BY NilIsNothing, ItemTypes DEF Inv
    <2>2. Need("see", x) = <<[item |-> x, level |-> "see"]>>
      BY <2>1 DEF Need
    <2>3. x \in Ids /\ items[x].target \in Ids \cup {Nil}
      BY ItemTypes DEF Inv
    <2>4. Need("see", items[x].target) \in Seq(Check) /\ Need("see", x) \in Seq(Check)
      BY <2>3, NeedType DEF Levels
    <2>5. Follow("see", x)[1] = [item |-> x, level |-> "see"]
      BY <2>2, <2>4 DEF Follow
    <2> QED BY <1>2, <2>5 DEF ItemOf
  <1>6. Justified(s)
    BY <1>2, <1>3, <1>4, <1>5 DEF Justified, Checking, Bounded, Unchanged, OnItsWay
  <1>7. req[p].at \notin Checking
    BY <1>1 DEF Checking
  <1> QED BY <1>1, <1>6, <1>7, GotoJustified

LEMMA SendJustified ==
  ASSUME Inv, AllJustified, NEW p \in Procs, NEW u \in Users, NEW op \in Kinds \ {"visit", "share"},
         NEW x \in Live \cup {Nil}, NEW dest \in Folders, Send(p, u, op, x, dest),
         op = "open" => x \in Live
  PROVE  AllJustified' /\ \A q \in Procs : StepDecided(q)
  <1> DEFINE checks == ChecksOf(op, x, dest)
             at == IF checks = <<>> THEN "act" ELSE "get"
             a == [Idle EXCEPT !.at = at, !.by = u, !.checks = checks, !.dest = dest]
  <1>1. checks \in Seq(Check)
    BY ChecksType, FolderFacts, ItemTypes DEF Inv
  <1>2. Arrive(p, op, a)
    BY DEF Send
  <1>3. at \in {"act", "get"} /\ (at # "act" => checks # <<>>)
    OBVIOUS
  <1>4. op = "open" => \E y \in Live : checks = Follow("see", y)
    BY DEF ChecksOf
  <1> HIDE DEF checks, at
  <1>5. /\ a.at = at /\ a.by = u /\ a.checks = checks /\ a.k = 1 /\ a.changes = 0 /\ a.link = Nil
    BY DEF Idle
  <1>6. a \in Request
    <2>1. a = Set(Set(Set(Set(Idle, "at", at), "by", u), "checks", checks), "dest", dest)
      BY DEF Set
    <2> HIDE DEF a
    <2>2. Set(Set(Set(Idle, "at", at), "by", u), "checks", checks) \in Request
      BY <1>1, <1>3, IdleOK, SetType, SetUsers DEF Places
    <2> QED BY <2>1, <2>2, SetItems, FolderFacts
  <1> HIDE DEF a
  <1> QED BY <1>2, <1>3, <1>4, <1>5, <1>6, ArriveJustified

LEMMA ShareJustified ==
  ASSUME Inv, AllJustified, NEW p \in Procs, NEW u \in Users, NEW with \in Users, NEW x \in Live,
         NEW permission \in {"view", "edit", Nil}, Share(p, u, x, with, permission)
  PROVE  AllJustified' /\ \A q \in Procs : StepDecided(q)
  <1> DEFINE checks == Need("own", x)
             given == PermissionOf(permission)
             a == [Idle EXCEPT !.at = "get", !.by = u, !.checks = checks,
                               !.with = with, !.permission = given]
  <1>1. x \in Ids /\ x # Nil
    BY ItemTypes, NilIsNothing DEF Inv
  <1>2. checks \in Seq(Check) /\ checks # <<>>
    BY <1>1, NeedType DEF Need, Levels
  <1>3. given \in {"view", "edit"}
    BY DEF PermissionOf
  <1>4. Arrive(p, "share", a)
    BY DEF Share
  <1> HIDE DEF checks, given
  <1>5. a.at = "get" /\ a.checks = checks /\ a.k = 1 /\ a.changes = 0 /\ a.link = Nil
    BY DEF Idle
  <1>6. a \in Request
    <2> DEFINE b == Set(Set(Set(Idle, "at", "get"), "by", u), "checks", checks)
    <2>1. a = Set(Set(b, "with", with), "permission", given)
      BY DEF Set
    <2> HIDE DEF a
    <2>2. b \in Request
      BY <1>2, IdleOK, SetType, SetUsers DEF Places
    <2> HIDE DEF b
    <2> QED BY <1>3, <2>1, <2>2, SetType, SetUsers
  <1> HIDE DEF a
  <1>7. "share" \in Kinds
    BY DEF Kinds
  <1> QED BY <1>2, <1>4, <1>5, <1>6, <1>7, ArriveJustified

LEMMA VisitJustified ==
  ASSUME Inv, AllJustified, NEW p \in Procs, NEW u \in Users \cup {Nil}, NEW l \in LinkIds, Visit(p, u, l)
  PROVE  AllJustified' /\ \A q \in Procs : StepDecided(q)
  <1> DEFINE checks == Need("active", links[l].item)
             a == [Idle EXCEPT !.at = "visit", !.by = u, !.link = l, !.checks = checks]
  <1>1. links[l].item \in Ids /\ links[l].item # Nil /\ l # Nil
    BY NilIsNothing DEF Inv, TypeOK, Table, Link, Visit
  <1>2. checks \in Seq(Check) /\ checks # <<>>
    BY <1>1, NeedType DEF Need, Levels
  <1>3. Arrive(p, "visit", a)
    BY DEF Visit
  <1> HIDE DEF checks
  <1>4. a.at = "visit" /\ a.checks = checks /\ a.k = 1 /\ a.changes = 0 /\ a.link = l
    BY DEF Idle
  <1>5. a \in Request
    <2>1. a = Set(Set(Set(Set(Idle, "at", "visit"), "by", u), "link", l), "checks", checks)
      BY DEF Set
    <2> HIDE DEF a
    <2>2. Set(Set(Idle, "at", "visit"), "by", u) \in Request
      BY IdleOK, SetType, SetUsers DEF Places
    <2> QED BY <1>2, <2>1, <2>2, SetType
  <1> HIDE DEF a
  <1>6. "visit" \in Kinds
    BY DEF Kinds
  <1> QED BY <1>1, <1>2, <1>3, <1>4, <1>5, <1>6, ArriveJustified

LEMMA BeginJustified ==
  ASSUME Inv, AllJustified, NEW p \in Procs, Begin(p)
  PROVE  AllJustified' /\ \A q \in Procs : StepDecided(q)
  <1> DEFINE Good == AllJustified' /\ \A q \in Procs : StepDecided(q)
  <1> SUFFICES Good
    OBVIOUS
  <1>1. Nil \in Folders
    BY DEF Folders
  <1>2. ASSUME NEW u \in Users, NEW op \in {"get", "open", "save", "star", "trash", "link"},
               NEW x \in Live, Send(p, u, op, x, Nil)
        PROVE  Good
    <2>1. op \in Kinds \ {"visit", "share"}
      BY DEF Kinds
    <2> QED BY <1>1, <1>2, <2>1, SendJustified
  <1>3. ASSUME NEW u \in Users, NEW op \in {"shortcut", "copy", "move"}, NEW x \in Live,
               NEW dest \in Folders, Send(p, u, op, x, dest)
        PROVE  Good
    <2>1. op \in Kinds \ {"visit", "share"}
      BY DEF Kinds
    <2> QED BY <1>3, <2>1, SendJustified
  <1>4. ASSUME NEW u \in Users, NEW dest \in Folders, Send(p, u, "create", Nil, dest)
        PROVE  Good
    BY <1>4, SendJustified DEF Kinds
  <1>5. ASSUME NEW u \in Users, NEW with \in Users, NEW x \in Live, NEW permission \in {"view", "edit", Nil},
               Share(p, u, x, with, permission)
        PROVE  Good
    BY <1>5, ShareJustified
  <1>6. ASSUME NEW u \in Users \cup {Nil}, NEW l \in LinkIds, Visit(p, u, l)
        PROVE  Good
    BY <1>6, VisitJustified
  <1> HIDE DEF Good
  <1> QED BY <1>2, <1>3, <1>4, <1>5, <1>6 DEF Begin

LEMMA ChecksJustified ==
  ASSUME Inv, AllJustified, NEW p \in Procs, Checks(p)
  PROVE  AllJustified' /\ \A q \in Procs : StepDecided(q)
  <1>1. Justified(req[p])
    BY DEF AllJustified
  <1>2. \E s : Goto(p, s) /\ Justified(s) /\ Decided(s, req[p])
    BY <1>1, ResolveJustified, GetItemJustified, FindJustified, ClimbJustified DEF Checks
  <1>3. OnlyRequests
    BY DEF Checks, Resolve, GetItem, Find, Climb
  <1> QED BY <1>2, <1>3, GotoJustified

LEMMA EffectJustified ==
  ASSUME Inv, Inv', ~StaleMoves, AllJustified, NEW p \in Procs, Effect(p) \/ Finish(p)
  PROVE  AllJustified' /\ \A q \in Procs : StepDecided(q)
  <1> DEFINE Good == AllJustified' /\ \A q \in Procs : StepDecided(q)
  <1> SUFFICES Good
    OBVIOUS
  <1>1. ASSUME Change(p), req[p].at \in {"act", "insert"}, \E D, m : Touches(D, m)
        PROVE  Good
    BY <1>1, ChangesJustified
  <1>2. CASE Star(p)
    BY <1>1, <1>2, SameTouches DEF Star
  <1>3. CASE Create(p)
    BY <1>1, <1>3, PutTouches DEF Create, Put
  <1>4. CASE PutShortcut(p)
    BY <1>1, <1>4, PutTouches DEF PutShortcut, Put
  <1>5. CASE Copy(p)
    BY <1>1, <1>5, PutTouches DEF Copy, Put
  <1>6. CASE Move(p)
    BY <1>1, <1>6, MoveTouches DEF Move
  <1>7. CASE Trash(p)
    BY <1>1, <1>7, TrashTouches DEF Trash
  <1>8. CASE InsertGrant(p)
    BY <1>1, <1>8, InsertGrantTouches DEF InsertGrant
  <1>9. CASE InsertLink(p)
    BY <1>1, <1>9, SameTouches DEF InsertLink
  <1>10. ASSUME NEW s, Goto(p, s), OnlyRequests, s.at \notin Checking, req[p].at \notin Checking
         PROVE  Good
    <2>1. Justified(s)
      BY <1>10 DEF Justified
    <2> QED BY <1>10, <2>1, GotoJustified
  <1>11. CASE FindNone(p)
    <2> DEFINE s == [req[p] EXCEPT !.at = "insert"]
    <2>1. Goto(p, s) /\ OnlyRequests /\ req[p].at = "act"
      BY <1>11 DEF FindNone
    <2>2. s.at = "insert"
      BY DEF Inv, TypeOK, Request
    <2> HIDE DEF s
    <2> QED BY <1>10, <2>1, <2>2 DEF Checking
  <1>12. CASE Finish(p)
    <2>1. Goto(p, Idle) /\ OnlyRequests /\ req[p].at \in {"act", "insert"} /\ Idle.at = "idle"
      BY <1>12 DEF Finish, Refuse, Idle
    <2> QED BY <1>10, <2>1 DEF Checking
  <1> HIDE DEF Good
  <1> QED BY <1>2, <1>3, <1>4, <1>5, <1>6, <1>7, <1>8, <1>9, <1>11, <1>12 DEF Effect

LEMMA OwnersActJustified ==
  ASSUME Inv, Inv', ~StaleMoves, AllJustified, Tick \/ \E u \in Users : OwnersAct(u)
  PROVE  AllJustified' /\ \A q \in Procs : StepDecided(q)
  <1> DEFINE Good == AllJustified' /\ \A q \in Procs : StepDecided(q)
  <1> SUFFICES Good
    OBVIOUS
  <1>1. ASSUME req' = Noticed, \E D, m : Touches(D, m)
        PROVE  Good
    BY <1>1, ChangesJustified
  <1>2. ASSUME NEW u \in Users, NEW g \in GrantIds, Revoke(u, g)
        PROVE  Good
    BY <1>1, <1>2, RevokeTouches DEF Revoke
  <1>3. ASSUME NEW u \in Users, NEW g \in GrantIds, NEW permission \in {"view", "edit"},
               UpdatePermission(u, g, permission)
        PROVE  Good
    BY <1>1, <1>3, UpdatePermissionTouches DEF UpdatePermission
  <1>4. ASSUME NEW u \in Users, NEW l \in LinkIds, RevokeLink(u, l)
        PROVE  Good
    BY <1>1, <1>4, SameTouches DEF RevokeLink
  <1>5. ASSUME NEW u \in Users, NEW x \in Ids, RemoveFavorite(u, x)
        PROVE  Good
    BY <1>1, <1>5, SameTouches DEF RemoveFavorite
  <1>6. ASSUME NEW u \in Users, NEW x \in Ids, Restore(u, x)
        PROVE  Good
    BY <1>1, <1>6, RestoreTouches DEF Restore
  <1>7. ASSUME NEW u \in Users, NEW x \in Ids, Erase(u, x)
        PROVE  Good
    BY <1>1, <1>7, EraseTouches DEF Erase
  <1>8. CASE Tick
    BY <1>1, <1>8, SameTouches DEF Tick
  <1> HIDE DEF Good
  <1> QED BY <1>2, <1>3, <1>4, <1>5, <1>6, <1>7, <1>8 DEF OwnersAct

LEMMA NextJustified ==
  ASSUME ~StaleMoves, Inv, Inv', AllJustified, [Next]_vars
  PROVE  AllJustified' /\ \A q \in Procs : StepDecided(q)
  <1>1. CASE UNCHANGED vars
    <2>1. OnlyRequests /\ req' = req
      BY <1>1 DEF vars, OnlyRequests
    <2>2. \A t : Justified(t)' <=> Justified(t)
      BY <2>1, JustifiedSame
    <2>3. AllJustified'
      BY <2>1, <2>2 DEF AllJustified
    <2> QED BY <2>1, <2>3 DEF StepDecided, Checking
  <1>2. ASSUME NEW p \in Procs, Begin(p) \/ Checks(p) \/ Effect(p) \/ Finish(p)
        PROVE  AllJustified' /\ \A q \in Procs : StepDecided(q)
    BY <1>2, BeginJustified, ChecksJustified, EffectJustified
  <1> QED BY <1>1, <1>2, OwnersActJustified DEF Next

LEMMA JustifiedInvariant == ASSUME ~StaleMoves PROVE Spec => [](Inv /\ AllJustified)
  <1>1. Init => AllJustified
    BY IdleJustified DEF Init, AllJustified
  <1>2. Inv /\ AllJustified /\ [Next]_vars => (Inv /\ AllJustified)'
    BY NextInv, NextJustified
  <1> QED BY <1>1, <1>2, InitInv, PTL DEF Spec

\* However checks and changes interleave, a request passes only checks that held
\* when it came in or hold when it passes, and is turned away only for one that
\* did not or does not (resolveGrant), as long as the tables changed at most once.
THEOREM ChecksDecide == ASSUME ~StaleMoves PROVE Spec => DecisionsAreJustified
  <1> DEFINE D == \A p \in Procs :
                    LET r == req[p]
                        all == 0..Len(r.checks)
                        holding == Holding(r.by, r.link, r.checks) IN
                    r.at \in {"visit", "get", "find", "climb"} /\ r.changes < 2 =>
                      /\ req'[p].at = "act" => all \subseteq r.held \cup holding
                      /\ req'[p].at = "idle" => ~(all \subseteq r.held \cap holding)
  <1>1. Inv /\ AllJustified /\ [Next]_vars => [D]_vars
    <2> SUFFICES ASSUME Inv, AllJustified, [Next]_vars PROVE D
      OBVIOUS
    <2>1. \A q \in Procs : StepDecided(q)
      BY NextInv, NextJustified
    <2> QED BY <2>1 DEF StepDecided, Decided, Checking, Holds
  <1>2. Spec => [][D]_vars
    <2> HIDE DEF D
    <2> QED BY <1>1, JustifiedInvariant, PTL DEF Spec
  <1> QED BY <1>2 DEF DecisionsAreJustified

\* Nothing is opened through a shortcut without access to what it points at
\* (ResolveContentItem).
THEOREM OpeningNeedsAccess == ASSUME ~StaleMoves PROVE Spec => ContentNeedsAccess
  <1> DEFINE D == \A p \in Procs :
                    LET r == req[p] IN
                    r.op = "open" /\ r.changes = 0 /\ r.at \in {"get", "find"} /\ req'[p].at = "act" =>
                      LET x == ItemOf(r) IN
                      May(r.by, "see", IF IsReal(x) THEN x ELSE items[x].target)
  <1>1. Inv /\ AllJustified /\ [Next]_vars => [D]_vars
    <2> SUFFICES ASSUME Inv, AllJustified, [Next]_vars, NEW p \in Procs,
                        req[p].op = "open", req[p].changes = 0, req[p].at \in {"get", "find"},
                        req'[p].at = "act"
                 PROVE  May(req[p].by, "see", IF IsReal(ItemOf(req[p])) THEN ItemOf(req[p])
                                              ELSE items[ItemOf(req[p])].target)
      OBVIOUS
    <2> DEFINE r == req[p]
               x == ItemOf(r)
               t == items[x].target
    <2>1. Decided(req'[p], r)
      BY NextInv, NextJustified DEF StepDecided, Checking
    <2>2. r.held = Holds(r) /\ x \in Live /\ r.checks = Follow("see", x)
      BY DEF AllJustified, Justified, Checking, Unchanged
    <2>3. 0..Len(r.checks) \subseteq Holds(r)
      BY <2>1, <2>2 DEF Decided
    <2>4. x \in Ids /\ x # Nil /\ t \in Ids \cup {Nil}
      BY <2>2, ItemTypes, NilIsNothing DEF Inv
    <2>5. Need("see", x) = <<[item |-> x, level |-> "see"]>>
      BY <2>4 DEF Need
    <2> HIDE DEF r, x, t
    <2>6. CASE t = Nil
      <3>1. r.checks = <<[item |-> x, level |-> "see"]>> \o <<>>
        BY <2>2, <2>5, <2>6 DEF Follow, Need, t
      <3>2. Len(r.checks) = 1 /\ r.checks[1] = [item |-> x, level |-> "see"]
        BY <3>1
      <3>3. 1 \in Holds(r)
        BY <2>3, <3>2
      <3>4. May(r.by, "see", x)
        BY <3>2, <3>3 DEF Holds, Holding
      <3> QED BY <2>6, <3>4 DEF IsReal, r, x, t
    <2>7. CASE t # Nil
      <3>1. r.checks = <<[item |-> x, level |-> "see"]>> \o <<[item |-> t, level |-> "see"]>>
        BY <2>2, <2>5, <2>7 DEF Follow, Need, t
      <3>2. Len(r.checks) = 2 /\ r.checks[2] = [item |-> t, level |-> "see"]
        BY <3>1
      <3>3. 2 \in Holds(r)
        BY <2>3, <3>2
      <3>4. May(r.by, "see", t)
        BY <3>2, <3>3 DEF Holds, Holding
      <3> QED BY <2>7, <3>4 DEF IsReal, r, x, t
    <2> QED BY <2>6, <2>7
  <1>2. Spec => [][D]_vars
    <2> HIDE DEF D
    <2> QED BY <1>1, JustifiedInvariant, PTL DEF Spec
  <1> QED BY <1>2 DEF ContentNeedsAccess
=============================================================================
