------------------------------- MODULE Grants -------------------------------
(***************************************************************************)
(* Who may do what with an item: grants to users (user_share.go), public   *)
(* links (share.go), favorites, and the access checks of ItemService.  A   *)
(* check reads the item and then walks up parent_id, one grant and one     *)
(* parent at a time, while other requests move, trash, share and revoke.   *)
(* What a request does once its checks are passed is one step, reduced to  *)
(* the columns that access depends on; names, bytes and quota are Drive's. *)
(***************************************************************************)
EXTENDS Integers, FiniteSets, Sequences

CONSTANTS
  Procs,      \* requests that may be under way at a time
  Users,
  Ids,        \* ids of items and, LinkIds, of links: each is handed out at
  LinkIds,    \* most once (idgen)
  GrantIds,   \* ids of grants; no request holds one, so that they may recur
  Offered,    \* the kinds of request that clients send
  MaxNow,     \* bound of the clock
  StaleMoves, \* whether clients send moves that change nothing
  Nil         \* NULL

Kinds == {"get", "open", "save", "star", "create", "shortcut", "copy", "move",
          "trash", "share", "link", "visit"}

ASSUME NilIsNothing == Nil \notin Users \cup Ids \cup GrantIds \cup LinkIds \cup Nat
ASSUME OfferedAreKinds == Offered \subseteq Kinds
ASSUME MaxNowIsNat == MaxNow \in Nat
ASSUME StaleMovesIsBoolean == StaleMoves \in BOOLEAN

VARIABLES
  items,    \* the items table: id -> row
  grants,   \* the user_shares table: id -> row
  links,    \* the shares table: id -> row
  stars,    \* the item_favorites table, as pairs of item and user
  spent,    \* ids of items and links handed out so far
  req,      \* requests under way: what they have read, and their next call
  now       \* the clock

vars == <<items, grants, links, stars, spent, req, now>>

Item == [owner: Users, parent: Ids \cup {Nil}, folder: BOOLEAN,
         target: Ids \cup {Nil}, trashed: BOOLEAN]

Grant == [item: Ids, owner: Users, with: Users, permission: {"view", "edit"}]

Link == [item: Ids, by: Users, auth: BOOLEAN, expires: Nat \cup {Nil}]

(***************************************************************************)
(* The levels of access that callers ask for:                              *)
(*   "see"    GetIncludingTrashed      "read"   getReadable                *)
(*   "write"  GetForWrite              "own"    Get                        *)
(*   "active" GetForShare, after a link was resolved                       *)
(***************************************************************************)
Levels == {"see", "read", "write", "own", "active"}

Check == [item: Ids, level: Levels]

Places == {"idle", "visit", "get", "find", "climb", "act", "insert"}

\* cur and up: where the walk is, and its parent as read; from: the item's own
\* parent as read.  held and changes are no variables of the code: which of its
\* checks (0: its link) held when the request came in, and how often (0, 1, more)
\* the tables changed since.
Request == [at: Places, by: Users \cup {Nil}, op: Kinds \cup {Nil},
            checks: Seq(Check), k: Nat, cur: Ids \cup {Nil}, up: Ids \cup {Nil},
            from: Ids \cup {Nil}, dest: Ids \cup {Nil}, with: Users \cup {Nil},
            permission: {"view", "edit", Nil}, link: LinkIds \cup {Nil},
            held: SUBSET Nat, changes: 0..2]

Idle == [at |-> "idle", by |-> Nil, op |-> Nil, checks |-> <<>>, k |-> 1,
         cur |-> Nil, up |-> Nil, from |-> Nil, dest |-> Nil, with |-> Nil,
         permission |-> Nil, link |-> Nil, held |-> {}, changes |-> 0]

Table(f, K, R) == DOMAIN f \subseteq K /\ f \in [DOMAIN f -> R]

TypeOK ==
  /\ Table(items, Ids, Item)
  /\ Table(grants, GrantIds, Grant)
  /\ Table(links, LinkIds, Link)
  /\ stars \subseteq Ids \X Users
  /\ spent \subseteq Ids \cup LinkIds
  /\ req \in [Procs -> Request]
  /\ now \in 0..MaxNow

Init ==
  /\ items = [x \in {} |-> Nil] /\ grants = [g \in {} |-> Nil] /\ links = [l \in {} |-> Nil]
  /\ stars = {} /\ spent = {}
  /\ req = [p \in Procs |-> Idle]
  /\ now = 0

-----------------------------------------------------------------------------
(* The tables. *)

Insert(f, k, row) == [x \in DOMAIN f \cup {k} |-> IF x = k THEN row ELSE f[x]]

Live == DOMAIN items
Active(x) == x \in Live /\ ~items[x].trashed
IsReal(x) == items[x].target = Nil

Children(x) == {y \in Live : items[y].parent = x}

\* x and what is under it; S says which children a walk goes on to.
Below(x, S) ==
  {y \in S \cup {x} : \A C \in SUBSET (S \cup {x}) :
     x \in C /\ (\A z \in S : items[z].parent \in C => z \in C) => y \in C}

\* FindGrant: (item_id, shared_with_id) is UNIQUE, so there is at most one.
FindGrant(x, u) == {g \in DOMAIN grants : grants[g].item = x /\ grants[g].with = u}

Received(u) == {grants[g].item : g \in {g \in DOMAIN grants : grants[g].with = u}}

Expired(link) == link.expires # Nil /\ link.expires < now

Serves(l, u) == l \in DOMAIN links /\ ~Expired(links[l]) /\ (links[l].auth => u # Nil)

-----------------------------------------------------------------------------
(***************************************************************************)
(* What the checks are for, read off one state of the tables: the grant on *)
(* the item or on the nearest folder above it that has one decides; the    *)
(* owner needs none, and sees what is in the trash.                        *)
(***************************************************************************)
Nearest(u, x) ==
  LET near[y \in Live] ==
        IF FindGrant(y, u) # {} THEN FindGrant(y, u)
        ELSE IF items[y].parent = Nil THEN {}
        ELSE near[items[y].parent]
  IN near[x]

May(u, level, x) ==
  /\ x \in Live
  /\ \/ items[x].owner = u /\ (Active(x) \/ level = "see")
     \/ Active(x) /\ level = "active"
     \/ Active(x) /\ level \in {"see", "read"} /\ Nearest(u, x) # {}
     \/ /\ Active(x) /\ level = "write"
        /\ \E g \in Nearest(u, x) : grants[g].permission = "edit"

\* The checks that hold; 0 stands for the link, if there is one.
Holding(u, link, checks) ==
  {k \in DOMAIN checks : May(u, checks[k].level, checks[k].item)}
    \cup {k \in {0} : link # Nil => Serves(link, u)}

-----------------------------------------------------------------------------
(* Requests. *)

Goto(p, r) == req' = [req EXCEPT ![p] = r]
Refuse(p) == Goto(p, Idle)
OnlyRequests == UNCHANGED <<items, grants, links, stars, spent, now>>

\* The tables change, which every other request under way may come to see.
Noticed ==
  [q \in Procs |-> IF req[q].at = "idle" THEN req[q]
                   ELSE [req[q] EXCEPT !.changes = IF @ = 0 THEN 1 ELSE 2]]

Change(p) == req' = [Noticed EXCEPT ![p] = Idle]

Need(level, x) == IF x = Nil THEN <<>> ELSE <<[item |-> x, level |-> level]>>

\* Mutant: the target of a shortcut is not looked at.
FollowNot(level, x) == Need(level, x)

\* The item and, when it is a shortcut, its target: access to a shortcut is
\* no access to what it points at.
Follow(level, x) ==
  Need(level, x) \o (IF x \in Live THEN Need(level, items[x].target) ELSE <<>>)

\* The checks that an operation on x, into dest, makes before anything else.
ChecksOf(op, x, dest) ==
  CASE op = "get" -> Need("see", x)
    [] op = "open" -> Follow("see", x)
    [] op = "star" -> Need("read", x)
    [] op \in {"copy", "shortcut"} -> Follow("read", x) \o Need("write", dest)
    [] op = "create" -> Need("write", dest)
    [] op = "move" -> Need("write", x) \o Need("write", dest)
    [] op \in {"save", "trash"} -> Need("write", x)
    [] op \in {"share", "link"} -> Need("own", x)

Arrive(p, op, r) ==
  /\ op \in Offered
  /\ req[p].at = "idle"
  /\ Goto(p, [r EXCEPT !.op = op, !.held = Holding(r.by, r.link, r.checks)])
  /\ OnlyRequests

\* A request about an item, and the folder it is to go to (Nil: the root).
Send(p, u, op, x, dest) ==
  LET checks == ChecksOf(op, x, dest) IN
  Arrive(p, op, [Idle EXCEPT !.at = IF checks = <<>> THEN "act" ELSE "get",
                             !.by = u, !.checks = checks, !.dest = dest])

\* Mutant: an omitted permission is stored as it is.
PermissionAsSent(permission) == permission

\* UserShareHandler.Create: an omitted permission is "view".
PermissionOf(permission) == IF permission = Nil THEN "view" ELSE permission

Share(p, u, x, with, permission) ==
  /\ with # u
  /\ Arrive(p, "share", [Idle EXCEPT !.at = "get", !.by = u, !.checks = Need("own", x),
                                     !.with = with, !.permission = PermissionOf(permission)])

\* A visitor of a link, with (u) or without (Nil) an account.
Visit(p, u, l) ==
  /\ l \in DOMAIN links
  /\ Arrive(p, "visit", [Idle EXCEPT !.at = "visit", !.by = u, !.link = l,
                                     !.checks = Need("active", links[l].item)])

\* ShareService.Resolve: the row by its token, its expiry, the login it asks for.
Resolve(p) ==
  /\ req[p].at = "visit"
  /\ IF Serves(req[p].link, req[p].by) THEN Goto(p, [req[p] EXCEPT !.at = "get"]) ELSE Refuse(p)
  /\ OnlyRequests

-----------------------------------------------------------------------------
(* The checks, one repository call per step. *)

Passed(r) ==
  LET on == [r EXCEPT !.cur = Nil, !.up = Nil] IN
  IF r.k < Len(r.checks) THEN [on EXCEPT !.at = "get", !.k = @ + 1]
  ELSE [on EXCEPT !.at = "act", !.k = 1, !.held = {}]

\* GetByID of the item, which decides for its owner, for a link's visitor, and
\* against whoever asks for what is in the trash or only the owner may do.
GetItem(p) ==
  LET r == req[p]
      x == r.checks[r.k].item
      level == r.checks[r.k].level
      mine == items[x].owner = r.by
      read == [r EXCEPT !.cur = x, !.up = items[x].parent,
                        !.from = IF r.k = 1 /\ r.op \in {"move", "trash"} THEN items[x].parent ELSE @] IN
  /\ r.at = "get"
  /\ IF x \notin Live THEN Refuse(p)
     ELSE IF \/ mine /\ (Active(x) \/ level = "see")
             \/ Active(x) /\ level = "active"
          THEN Goto(p, Passed(read))
     ELSE IF ~mine /\ Active(x) /\ level # "own"
          THEN Goto(p, [read EXCEPT !.at = "find"])
     ELSE Refuse(p)
  /\ OnlyRequests

\* Mutant: any grant allows everything.
FindAny(p) ==
  LET r == req[p] IN
  /\ r.at = "find"
  /\ IF FindGrant(r.cur, r.by) # {} THEN Goto(p, Passed(r))
     ELSE IF r.up = Nil THEN Refuse(p) ELSE Goto(p, [r EXCEPT !.at = "climb"])
  /\ OnlyRequests

\* resolveGrant's FindGrant: the first grant met decides, view or edit.
Find(p) ==
  LET r == req[p]
      found == FindGrant(r.cur, r.by)
      edits == \E g \in found : grants[g].permission = "edit" IN
  /\ r.at = "find"
  /\ IF found # {}
     THEN IF r.checks[r.k].level = "write" /\ ~edits THEN Refuse(p) ELSE Goto(p, Passed(r))
     ELSE IF r.up = Nil THEN Refuse(p) ELSE Goto(p, [r EXCEPT !.at = "climb"])
  /\ OnlyRequests

\* resolveGrant's GetByID of the parent, as it was when the child was read.
Climb(p) ==
  LET r == req[p] IN
  /\ r.at = "climb"
  /\ IF r.up \in Live
     THEN Goto(p, [r EXCEPT !.at = "find", !.cur = r.up, !.up = items[r.up].parent])
     ELSE Refuse(p)
  /\ OnlyRequests

-----------------------------------------------------------------------------
(***************************************************************************)
(* What the request then does.  The rows are not read again, except where  *)
(* a path on disk or a foreign key makes it so.                            *)
(***************************************************************************)

Unused(K) == K \ spent

ItemOf(r) == r.checks[1].item

\* The request fails for a reason of Drive's (a name, the quota, the disk, a
\* row that went away since it was checked), or it has nothing to change here.
Finish(p) ==
  /\ req[p].at \in {"act", "insert"}
  /\ Refuse(p)
  /\ OnlyRequests

\* FavoriteRepository.Add, INSERT OR IGNORE.
Star(p) ==
  /\ req[p].at = "act" /\ req[p].op = "star"
  /\ ItemOf(req[p]) \in Live
  /\ stars' = stars \cup {<<ItemOf(req[p]), req[p].by>>}
  /\ Change(p)
  /\ UNCHANGED <<items, grants, links, spent, now>>

\* Mutant: what is put into a folder belongs to whoever put it there.
RowByCaller(r, folder, target) ==
  [owner |-> r.by, parent |-> r.dest, folder |-> folder, target |-> target, trashed |-> FALSE]

\* What is put into a shared folder belongs to the folder's owner.
RowFor(r, folder, target) ==
  [owner |-> IF r.dest = Nil THEN r.by ELSE items[r.dest].owner, parent |-> r.dest,
   folder |-> folder, target |-> target, trashed |-> FALSE]

Put(p, folder, target) ==
  /\ \E x \in Unused(Ids) :
       /\ items' = Insert(items, x, RowFor(req[p], folder, target))
       /\ spent' = spent \cup {x}
  /\ Change(p)
  /\ UNCHANGED <<grants, links, stars, now>>

\* folderPath reads the folder once more.
HasPath(dest) == dest = Nil \/ Active(dest)

\* A folder, a blank document, an upload.
Create(p) ==
  /\ req[p].at = "act" /\ req[p].op = "create"
  /\ HasPath(req[p].dest)
  /\ \E folder \in BOOLEAN : Put(p, folder, Nil)

\* The real item that a shortcut, or the copy of one, is to point at: the last
\* one that was read before the folder.
Pointee(r) ==
  LET reads == {k \in DOMAIN r.checks : r.checks[k].level = "read"}
  IN r.checks[CHOOSE k \in reads : \A j \in reads : j <= k].item

\* The copy of a shortcut is a shortcut.  Only the foreign keys look at the
\* folder and the target again.
PutShortcut(p) ==
  LET r == req[p] IN
  /\ r.at = "act"
  /\ r.op = "shortcut" \/ (r.op = "copy" /\ Pointee(r) # ItemOf(r))
  /\ r.dest # Nil => r.dest \in Live
  /\ Pointee(r) \in Live
  /\ Put(p, items[Pointee(r)].folder, Pointee(r))

\* The top of what is copied; the bytes of a file must still be there.
Copy(p) ==
  LET r == req[p]
      x == ItemOf(r) IN
  /\ r.at = "act" /\ r.op = "copy" /\ Pointee(r) = x
  /\ x \in Live /\ (Active(x) \/ items[x].folder)
  /\ HasPath(r.dest)
  /\ r.dest # Nil => r.dest \notin Below(x, Live)
  /\ Put(p, items[x].folder, Nil)

\* Nil is the root of the item's owner: a move never changes the owner.
SameOwner(x, dest) == dest # Nil => dest \in Live /\ items[dest].owner = items[x].owner

\* Mutant: nothing keeps a folder out of itself.
RenamedAnyway(r, x) == Active(x) /\ items[x].parent = r.from

\* The bytes are where the item was read to be, and the new path is not in it.
Renamed(r, x) ==
  /\ Active(x) /\ items[x].parent = r.from
  /\ r.dest # Nil => r.dest \notin Below(x, Live)

\* A move that changes nothing renames nothing, whatever became of the item
\* (StaleMoves).  A shortcut has no bytes.
Move(p) ==
  LET r == req[p]
      x == ItemOf(r) IN
  /\ r.at = "act" /\ r.op = "move"
  /\ x \in Live
  /\ SameOwner(x, r.dest)
  /\ IsReal(x) => HasPath(r.dest) /\ (Renamed(r, x) \/ (StaleMoves /\ r.dest = r.from))
  /\ items' = [items EXCEPT ![x].parent = r.dest]
  /\ Change(p)
  /\ UNCHANGED <<grants, links, stars, spent, now>>

Mark(S, trashed) == [x \in Live |-> IF x \in S THEN [items[x] EXCEPT !.trashed = trashed] ELSE items[x]]

OfOwner(x, trashed) == {y \in Live : items[y].owner = items[x].owner /\ items[y].trashed = trashed}

Trash(p) ==
  LET r == req[p]
      x == ItemOf(r) IN
  /\ r.at = "act" /\ r.op = "trash"
  /\ x \in Live
  /\ IsReal(x) => Active(x) /\ items[x].parent = r.from
  /\ items' = Mark(Below(x, OfOwner(x, FALSE)), TRUE)
  /\ Change(p)
  /\ UNCHANGED <<grants, links, stars, spent, now>>

-----------------------------------------------------------------------------
(* Grants, links and favorites. *)

\* UserShareService.Create looks for a grant first.
FindNone(p) ==
  LET r == req[p] IN
  /\ r.at = "act" /\ r.op = "share"
  /\ FindGrant(ItemOf(r), r.with) = {}
  /\ Goto(p, [r EXCEPT !.at = "insert"])
  /\ OnlyRequests

\* Mutant: (item_id, shared_with_id) is not UNIQUE.
NewGrantAnyway(r) == ItemOf(r) \in Live

NewGrant(r) == ItemOf(r) \in Live /\ FindGrant(ItemOf(r), r.with) = {}

\* UserShareRepository.Create, which the index and the foreign key may refuse.
InsertGrant(p) ==
  LET r == req[p] IN
  /\ r.at = "insert"
  /\ NewGrant(r)
  /\ \E g \in GrantIds \ DOMAIN grants :
       grants' = Insert(grants, g,
         [item |-> ItemOf(r), owner |-> r.by, with |-> r.with,
          permission |-> r.permission])
  /\ Change(p)
  /\ UNCHANGED <<items, links, stars, spent, now>>

InsertLink(p) ==
  LET r == req[p] IN
  /\ r.at = "act" /\ r.op = "link"
  /\ ItemOf(r) \in Live
  /\ \E l \in Unused(LinkIds), auth \in BOOLEAN, expires \in 0..MaxNow \cup {Nil} :
       /\ links' = Insert(links, l, [item |-> ItemOf(r), by |-> r.by, auth |-> auth,
                                     expires |-> expires])
       /\ spent' = spent \cup {l}
  /\ Change(p)
  /\ UNCHANGED <<items, grants, stars, now>>

Without(f, S) == [x \in DOMAIN f \ S |-> f[x]]

\* The owner's.
UpdatePermission(u, g, permission) ==
  /\ g \in DOMAIN grants /\ grants[g].owner = u
  /\ grants' = [grants EXCEPT ![g].permission = permission]
  /\ req' = Noticed
  /\ UNCHANGED <<items, links, stars, spent, now>>

Revoke(u, g) ==
  /\ g \in DOMAIN grants /\ grants[g].owner = u
  /\ grants' = Without(grants, {g})
  /\ req' = Noticed
  /\ UNCHANGED <<items, links, stars, spent, now>>

RevokeLink(u, l) ==
  /\ l \in DOMAIN links /\ links[l].by = u
  /\ links' = Without(links, {l})
  /\ req' = Noticed
  /\ UNCHANGED <<items, grants, stars, spent, now>>

\* Needs no access: a star on what was lost must be removable.
RemoveFavorite(u, x) ==
  /\ <<x, u>> \in stars
  /\ stars' = stars \ {<<x, u>>}
  /\ req' = Noticed
  /\ UNCHANGED <<items, grants, links, spent, now>>

-----------------------------------------------------------------------------
(* The owner's trash, and time. *)

\* Back into its folder, or into the root when that is not there any more.
Restore(u, x) ==
  /\ x \in Live /\ items[x].owner = u /\ items[x].trashed
  /\ LET p == IF items[x].parent # Nil /\ Active(items[x].parent) THEN items[x].parent ELSE Nil
     IN items' = [Mark(Below(x, OfOwner(x, TRUE)), FALSE) EXCEPT ![x].parent = p]
  /\ req' = Noticed
  /\ UNCHANGED <<grants, links, stars, spent, now>>

\* Rows that nothing left over references: user_shares and item_favorites go
\* with their item (ON DELETE CASCADE), shares and items do not.
Removable(R) ==
  /\ \A l \in DOMAIN links : links[l].item \notin R
  /\ \A y \in Live \ R : items[y].parent \notin R /\ items[y].target \notin R

\* hardDeleteSubtreeRows, bottom up until a row cannot be deleted.
Erase(u, x) ==
  /\ x \in Live /\ items[x].owner = u /\ items[x].trashed
  /\ \E R \in (SUBSET Below(x, OfOwner(x, TRUE))) \ {{}} :
       /\ Removable(R)
       /\ items' = Without(items, R)
       /\ grants' = Without(grants, {g \in DOMAIN grants : grants[g].item \in R})
       /\ stars' = {s \in stars : s[1] \notin R}
  /\ req' = Noticed
  /\ UNCHANGED <<links, spent, now>>

Tick ==
  /\ now < MaxNow
  /\ now' = now + 1
  /\ req' = Noticed
  /\ UNCHANGED <<items, grants, links, stars, spent>>

-----------------------------------------------------------------------------
(* The next-state relation. *)

\* A real one: what comes of a shortcut as parent is Drive's.
Folders == {Nil} \cup {y \in Live : items[y].folder /\ IsReal(y)}

Begin(p) ==
  \/ \E u \in Users, op \in {"get", "open", "save", "star", "trash", "link"}, x \in Live :
       Send(p, u, op, x, Nil)
  \/ \E u \in Users, op \in {"shortcut", "copy", "move"}, x \in Live, dest \in Folders :
       Send(p, u, op, x, dest)
  \/ \E u \in Users, dest \in Folders : Send(p, u, "create", Nil, dest)
  \/ \E u, with \in Users, x \in Live, permission \in {"view", "edit", Nil} :
       Share(p, u, x, with, permission)
  \/ \E u \in Users \cup {Nil}, l \in LinkIds : Visit(p, u, l)

Checks(p) == Resolve(p) \/ GetItem(p) \/ Find(p) \/ Climb(p)

Effect(p) ==
  \/ Star(p) \/ Create(p) \/ PutShortcut(p) \/ Copy(p) \/ Move(p) \/ Trash(p)
  \/ FindNone(p) \/ InsertGrant(p) \/ InsertLink(p)

OwnersAct(u) ==
  \/ \E g \in GrantIds : Revoke(u, g) \/ UpdatePermission(u, g, "view") \/ UpdatePermission(u, g, "edit")
  \/ \E l \in LinkIds : RevokeLink(u, l)
  \/ \E x \in Ids : RemoveFavorite(u, x) \/ Restore(u, x) \/ Erase(u, x)

Next ==
  \/ \E p \in Procs : Begin(p) \/ Checks(p) \/ Effect(p) \/ Finish(p)
  \/ \E u \in Users : OwnersAct(u)
  \/ Tick

Spec == Init /\ [][Next]_vars

-----------------------------------------------------------------------------
(* Properties. *)

\* A request passes its checks only if each of them held when it came in or holds
\* now, and is turned away only if one did not or does not, although they read
\* the tables one row at a time (resolveGrant), as long as the tables changed at
\* most once since.  Not more: a request with two checks may pass the one that
\* the change then takes away, and then the one that it brings.
DecisionsAreJustified ==
  [][\A p \in Procs :
       LET r == req[p]
           all == 0..Len(r.checks)
           holding == Holding(r.by, r.link, r.checks) IN
       r.at \in {"visit", "get", "find", "climb"} /\ r.changes < 2 =>
         /\ req'[p].at = "act" => all \subseteq r.held \cup holding
         /\ req'[p].at = "idle" => ~(all \subseteq r.held \cap holding)]_vars

\* No content is served through a shortcut that the reader has no access to by
\* another way, whatever he had when he made it (ResolveContentItem).
ContentNeedsAccess ==
  [][\A p \in Procs :
       LET r == req[p] IN
       r.op = "open" /\ r.changes = 0 /\ r.at \in {"get", "find"} /\ req'[p].at = "act" =>
         LET x == ItemOf(r) IN
         May(r.by, "see", IF IsReal(x) THEN x ELSE items[x].target)]_vars

\* A grant is on an item of its owner's, for someone else, and the only one of
\* the item for him: FindGrant's answer does not depend on the order of rows.
GrantsAreTheOwners ==
  \A g \in DOMAIN grants :
    /\ grants[g].item \in Live
    /\ grants[g].owner = items[grants[g].item].owner
    /\ grants[g].with # grants[g].owner
    /\ FindGrant(grants[g].item, grants[g].with) = {g}

\* Whatever is read stale, a folder and what is in it have one owner, who is
\* the one that resolves paths and pays for the bytes (Move, RowFor).
OneOwnerPerTree ==
  \A x \in Live : items[x].parent # Nil =>
    /\ items[x].parent \in Live
    /\ items[items[x].parent].owner = items[x].owner

Above(x) == {z \in Live : x \in Below(z, Live)}

\* Mutant: what is in the trash is found too.
SubtreeOfAll(x) == Below(x, Live)

\* SearchByNameInSubtree: down from x through what is not in the trash.
Subtree(x) == {y \in Below(x, {z \in Live : Active(z)}) : Active(y)}

\* Search, by a name that every item has.
Found(u) ==
  {x \in Live : Active(x) /\ items[x].owner = u} \cup UNION {Subtree(x) : x \in Received(u)}

ListChildren(u, x) ==
  IF May(u, "read", x)
  THEN {y \in Children(x) : Active(y) /\ items[y].owner = items[x].owner} ELSE {}

ListFavorites(u) == {x \in Live : <<x, u>> \in stars /\ May(u, "read", x)}

\* Mutant: only what lay in the root.
ListTrashOfRoot(u) ==
  {x \in Live : items[x].trashed /\ items[x].owner = u /\ items[x].parent = Nil}

\* The entries of the trash: of what was deleted together, the top.
ListTrash(u) ==
  LET all == {x \in Live : items[x].trashed /\ items[x].owner = u}
  IN {x \in all : items[x].parent \notin all}

\* Search walks down from what was shared with the user, reading walks up to it;
\* they agree: what is found can be read, and what can be read, lies in no folder
\* in the trash, and is listed in a folder or as a favorite, is found.
SearchFindsTheReadable ==
  \A u \in Users :
    /\ \A x \in Found(u) : May(u, "read", x)
    /\ \A x \in ListFavorites(u) \cup UNION {ListChildren(u, z) : z \in Live} :
         May(u, "read", x) /\ ((\A z \in Above(x) : Active(z)) => x \in Found(u))

\* Whatever the owner has in the trash, he finds there: under an entry of its
\* own or of a folder that it was deleted with (ListTrash), however moves,
\* deletes and restores overlapped.
TrashIsListed ==
  \A x \in Live : items[x].trashed =>
    \E z \in ListTrash(items[x].owner) : x \in Below(z, OfOwner(x, TRUE))

\* However moves overlap, no folder comes to lie in itself, "which would ...
\* orphan the folder (and everything in it) from the tree entirely"
\* (checkNotSelfOrDescendant, which may look too early, and Rename).
TreeIsAcyclic ==
  \A C \in (SUBSET Live) \ {{}} : \E x \in C : items[x].parent \notin C
=============================================================================
