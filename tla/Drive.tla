------------------------------- MODULE Drive -------------------------------
(***************************************************************************)
(* Files, folders, shortcuts and trash of one Denizen server: ItemService  *)
(* (internal/service/item.go) over the items table, the users' storage     *)
(* counters and the disk.  Every handler is one step here, with all the    *)
(* repository and storage calls it makes; requests that interleave inside  *)
(* a handler are not this module's subject.  Who may call what (ownership, *)
(* grants) is not either: a caller is assumed to pass GetForWrite's access *)
(* check, and every check of the STATE is kept.                            *)
(***************************************************************************)
EXTENDS Disk

CONSTANTS
  Users,          \* accounts that own items
  Ids,            \* item ids that idgen may hand out; each is used once
  Names,          \* base names
  Requests,       \* the names clients ask for, a subset of FullName
  Sizes,          \* sizes in bytes of files clients send
  Quota,          \* quota_bytes, the same for every user
  AttemptLimit,   \* uniqueName's attemptLimit (10000 in the code)
  Retention,      \* trash retention, in ticks
  MaxNow,         \* bound of the clock
  Untidy,         \* what callers do that the web UI does not: see Next
  Nil             \* the nil pointer: no parent, no target, not deleted

(***************************************************************************)
(* A name is a base and the suffixes "(k)" that uniqueName appended.       *)
(***************************************************************************)
FullName == Names \X Seq(Nat)

Suffixed(name, k) == IF k = 0 THEN name ELSE <<name[1], Append(name[2], k)>>

ASSUME IdsFinite == IsFiniteSet(Ids)
ASSUME NilIsNoValue == Nil \notin Ids /\ Nil \notin Int /\ Dir \notin Ids
ASSUME RequestsAreNames == Requests \subseteq FullName
ASSUME SizesAreNat == Sizes \subseteq Nat
ASSUME NumbersAreNat == {Quota, AttemptLimit, Retention, MaxNow} \subseteq Nat

VARIABLES
  rows,     \* the items table: id -> row, for the ids in the table
  disk,     \* what is on disk (see Disk)
  used,     \* users.storage_used_bytes
  links,    \* items that a row of the shares table references
  issued,   \* ids handed out so far
  sweep,    \* PurgeExpiredTrash under way: id -> the deleted_at it was listed with
  now       \* the clock

vars == <<rows, disk, used, links, issued, sweep, now>>

Row == [owner: Users, parent: Ids \cup {Nil}, name: FullName,
        type: {"file", "folder"}, size: Nat, target: Ids \cup {Nil},
        deleted: Nat \cup {Nil}]

RowsOK ==
  /\ issued \subseteq Ids
  /\ DOMAIN rows \subseteq issued
  /\ rows = [x \in DOMAIN rows |-> rows[x]]
  /\ \A x \in DOMAIN rows : rows[x] \in Row

DiskOK(d) == \A path \in DOMAIN d : d[path] \in Ids \cup {Dir}

SweepOK == DOMAIN sweep \subseteq Ids /\ \A x \in DOMAIN sweep : sweep[x] \in Nat

\* What each variable ranges over.  (The counters are sums of sizes: see
\* QuotaIsSum.)
TypeOK ==
  /\ RowsOK
  /\ DiskOK(disk)
  /\ used = [u \in Users |-> used[u]]
  /\ links \subseteq Ids
  /\ SweepOK
  /\ now \in 0..MaxNow

Init ==
  /\ rows = [x \in {} |-> Nil]
  /\ disk = [p \in {} |-> Dir]
  /\ used = [u \in Users |-> 0]
  /\ links = {}
  /\ issued = {}
  /\ sweep = [x \in {} |-> 0]
  /\ now = 0

-----------------------------------------------------------------------------
(* The table. *)

Live == DOMAIN rows
Active(x) == x \in Live /\ rows[x].deleted = Nil
Trashed(x) == x \in Live /\ rows[x].deleted # Nil
IsReal(x) == rows[x].target = Nil          \* a shortcut has no counterpart on disk
IsFolder(x) == rows[x].type = "folder"
CountsBytes(x) == rows[x].type = "file"

ActiveOf(u) == {x \in Live : Active(x) /\ rows[x].owner = u}
TrashedOf(u) == {x \in Live : Trashed(x) /\ rows[x].owner = u}

Insert(x, row) == [y \in Live \cup {x} |-> IF y = x THEN row ELSE rows[y]]

NewRow(owner, parent, name, type, size, target) ==
  [owner |-> owner, parent |-> parent, name |-> name, type |-> type,
   size |-> size, target |-> target, deleted |-> Nil]

(***************************************************************************)
(* x and the items that a walk down parent_id reaches from it without      *)
(* leaving S: the least set that contains x and, with an item, those of    *)
(* its children that are in S.                                             *)
(***************************************************************************)
ClosedDown(C, S) == \A y \in S : rows[y].parent \in C => y \in C

Below(x, S) ==
  {z \in S \cup {x} : \A C \in SUBSET (S \cup {x}) :
                         x \in C /\ ClosedDown(C, S) => z \in C}

\* x and its ancestors: the least set that contains x and the parent of
\* each of its elements.
ClosedUp(C) == \A y \in C : rows[y].parent # Nil => rows[y].parent \in C

Above(x) == {z \in Live : \A C \in SUBSET Live : x \in C /\ ClosedUp(C) => z \in C}

\* The walk up from x ends at the owner's root.
Rooted(x) == \E z \in Above(x) : rows[z].parent = Nil

(***************************************************************************)
(* pathOf never looks at deleted_at, and does not return on a cycle.       *)
(***************************************************************************)
HasPath(x) == x = Nil \/ Rooted(x)

PathOf(u, x) ==
  LET path[y \in Live] ==
        IF rows[y].parent = Nil THEN Append(FilesRoot(u), rows[y].name)
        ELSE Append(path[rows[y].parent], rows[y].name)
  IN path[x]

FolderPath(u, p) == IF p = Nil THEN FilesRoot(u) ELSE PathOf(u, p)

HasFolderPath(u, p) ==
  p # Nil => Active(p) /\ rows[p].owner = u /\ IsFolder(p) /\ HasPath(p)

\* Mutant: a folder in trash still takes new items.
ValidFolderOrTrash(p) == p # Nil => p \in Live /\ IsFolder(p)

(***************************************************************************)
(* The state half of ValidateFolder: the root, or an active folder -- a    *)
(* folder shortcut passes as well.  The new item belongs to its owner.     *)
(***************************************************************************)
ValidFolder(p) == p # Nil => Active(p) /\ IsFolder(p)

\* Mutant: who creates it owns it, also in somebody else's folder.
OwnerIsCaller(u, p) == u

OwnerAt(u, p) == IF p = Nil THEN u ELSE rows[p].owner

NameExists(u, p, name, except) ==
  \E x \in Live \ {except} :
     Active(x) /\ rows[x].owner = u /\ rows[x].parent = p /\ rows[x].name = name

\* The first free candidate, or none after AttemptLimit of them.
UniqueName(u, p, name, except) ==
  {Suffixed(name, k) : k \in {k \in 0..(AttemptLimit - 1) :
     /\ ~NameExists(u, p, Suffixed(name, k), except)
     /\ \A j \in 0..(k - 1) : NameExists(u, p, Suffixed(name, j), except)}}

CheckQuota(u, bytes) == used[u] + bytes <= Quota

\* Mutant: what is given back is not counted.
ChargeUpOnly(u, bytes) == [used EXCEPT ![u] = @ + (IF bytes > 0 THEN bytes ELSE 0)]

\* IncrementStorageUsed: always a delta, never a recount.
Charge(u, bytes) == [used EXCEPT ![u] = @ + bytes]

-----------------------------------------------------------------------------
(* Walks over a subtree.  The repository orders siblings by name; base     *)
(* names have no order here, so any order of siblings is taken.            *)

Listings(S) == {s \in [1..Cardinality(S) -> S] : {s[k] : k \in DOMAIN s} = S}

\* An item before what is under it, and each subtree in one piece.
IsPreorder(s, S) ==
  LET sub == [y \in {s[k] : k \in DOMAIN s} |-> Below(y, S)]
  IN \A j, k \in DOMAIN s : j < k =>
        /\ s[j] \notin sub[s[k]]
        /\ \A l \in DOMAIN s : k < l /\ s[l] \in sub[s[j]] => s[k] \in sub[s[j]]

Preorders(x, S) == {s \in Listings(Below(x, S)) : IsPreorder(s, S)}

Postorders(x, S) == {Reverse(s) : s \in Preorders(x, S)}

\* What a walk that stops at its first bad position has been through.
Completed(s, bad) == {s[k] : k \in {k \in DOMAIN s : \A j \in 1..k : j \notin bad}}

SizeOf(S) == MapThenSumSet(LAMBDA x : rows[x].size, {x \in S : CountsBytes(x)})

-----------------------------------------------------------------------------
(* Creating. *)

CreateFolder(u, p, name, x) ==
  /\ x \notin issued
  /\ ValidFolder(p)
  /\ LET owner == OwnerAt(u, p) IN
     /\ HasFolderPath(owner, p)
     /\ \E final \in UniqueName(owner, p, name, Nil) :
          LET target == Append(FolderPath(owner, p), final) IN
          /\ CanMkdir(disk, target)
          /\ disk' = MkdirAll(disk, target)
          /\ rows' = Insert(x, NewRow(owner, p, final, "folder", 0, Nil))
          /\ issued' = issued \cup {x}
  /\ UNCHANGED <<used, links, sweep, now>>

\* CreateShortcut flattens a shortcut to a shortcut and writes no bytes.
CreateShortcut(u, t, p, x) ==
  /\ x \notin issued
  /\ Active(t)
  /\ LET target == IF IsReal(t) THEN t ELSE rows[t].target
         owner == OwnerAt(u, p) IN
     /\ Active(target)
     /\ ValidFolder(p)
     /\ \E final \in UniqueName(owner, p, rows[target].name, Nil) :
          rows' = Insert(x, NewRow(owner, p, final, rows[target].type, 0, target))
     /\ issued' = issued \cup {x}
  /\ UNCHANGED <<disk, used, links, sweep, now>>

(***************************************************************************)
(* A file whose bytes come from a finished upload (renamed into place) or  *)
(* from a blank template (written with O_EXCL).                            *)
(***************************************************************************)
AddFile(u, p, name, size, x, Can(_, _), Do(_, _, _)) ==
  /\ x \notin issued
  /\ ValidFolder(p)
  /\ LET owner == OwnerAt(u, p) IN
     /\ HasFolderPath(owner, p)
     /\ CheckQuota(owner, size)
     /\ \E final \in UniqueName(owner, p, name, Nil) :
          LET target == Append(FolderPath(owner, p), final) IN
          /\ disk' = Do(disk, target, x)
          /\ IF Can(disk, target)
             THEN /\ rows' = Insert(x, NewRow(owner, p, final, "file", size, Nil))
                  /\ used' = Charge(owner, size)
                  /\ issued' = issued \cup {x}
             ELSE UNCHANGED <<rows, used, issued>>
  /\ UNCHANGED <<links, sweep, now>>

FinalizeUpload(u, p, name, size, x) == AddFile(u, p, name, size, x, CanPlace, Place)

CreateBlankDocument(u, p, name, size, x) ==
  AddFile(u, p, name, size, x, CanWrite, WriteFile)

\* Mutant: the row gets the change of the size for its size.
ReplaceContentByDelta(x, size) ==
  /\ Active(x) /\ ~IsFolder(x) /\ IsReal(x) /\ HasPath(x)
  /\ rows' = [rows EXCEPT ![x].size = size - @]
  /\ UNCHANGED <<disk, used, links, issued, sweep, now>>

(***************************************************************************)
(* OnlyOffice's save callback.  Its config resolves a shortcut to the real *)
(* item first (ResolveContentItem), so x is never a shortcut.              *)
(***************************************************************************)
ReplaceContent(x, size) ==
  /\ Active(x) /\ ~IsFolder(x) /\ IsReal(x) /\ HasPath(x)
  /\ LET owner == rows[x].owner
         target == PathOf(owner, x)
         delta == size - rows[x].size IN
     /\ CheckQuota(owner, delta)
     /\ disk' = Place(disk, target, x)
     /\ IF CanPlace(disk, target)
        THEN /\ rows' = [rows EXCEPT ![x].size = size]
             /\ used' = Charge(owner, delta)
        ELSE UNCHANGED <<rows, used>>
  /\ UNCHANGED <<links, issued, sweep, now>>

-----------------------------------------------------------------------------
(* Moving and copying. *)

\* The walk up from the destination never meets x (and ends).
CheckNotSelfOrDescendant(x, p) == Rooted(p) /\ x \notin Above(p)

Move(x, name, p) ==
  /\ Active(x)
  /\ p # Nil => p \in Live
  /\ p # Nil /\ IsFolder(x) /\ IsReal(x) => CheckNotSelfOrDescendant(x, p)
  /\ ValidFolder(p)
  /\ LET owner == rows[x].owner IN
     /\ OwnerAt(owner, p) = owner
     /\ \E final \in UniqueName(owner, p, name, x) :
          LET moved == [rows EXCEPT ![x].name = final, ![x].parent = p] IN
          IF IsReal(x)
          THEN /\ HasPath(x) /\ HasFolderPath(owner, p)
               /\ LET old == PathOf(owner, x)
                      new == Append(FolderPath(owner, p), final) IN
                  IF old = new THEN rows' = moved /\ UNCHANGED disk
                  ELSE /\ disk' = Rename(disk, old, new)
                       /\ rows' = IF CanRename(disk, old, new) THEN moved ELSE rows
          ELSE rows' = moved /\ UNCHANGED disk
  /\ UNCHANGED <<used, links, issued, sweep, now>>

\* Copy of a shortcut: a new shortcut to the same target.
CopyShortcut(u, x, p, y) ==
  /\ Active(x) /\ ~IsReal(x)
  /\ CreateShortcut(u, rows[x].target, p, y)

\* copyRecursive on a file: new bytes, counted against the new owner.
CopyFile(u, x, p, y) ==
  /\ y \notin issued
  /\ Active(x) /\ IsReal(x) /\ ~IsFolder(x)
  /\ ValidFolder(p)
  /\ LET owner == OwnerAt(u, p) IN
     /\ HasFolderPath(owner, p) /\ HasPath(x)
     /\ CheckQuota(owner, rows[x].size)
     /\ \E final \in UniqueName(owner, p, rows[x].name, Nil) :
          LET source == PathOf(rows[x].owner, x)
              target == Append(FolderPath(owner, p), final) IN
          IF IsFile(disk, source) /\ CanWrite(disk, target)
          THEN /\ disk' = WriteFile(disk, target, y)
               /\ rows' = Insert(y, NewRow(owner, p, final, "file", rows[x].size, Nil))
               /\ used' = Charge(owner, rows[x].size)
               /\ issued' = issued \cup {y}
          ELSE /\ disk' = MkParents(disk, target)
               /\ UNCHANGED <<rows, used, issued>>
  /\ UNCHANGED <<links, sweep, now>>

\* ListChildren's order: the folders among the siblings come first.
CopyOrders(x) ==
  {s \in Preorders(x, ActiveOf(rows[x].owner)) :
     \A j, k \in DOMAIN s :
       j < k /\ rows[s[j]].parent = rows[s[k]].parent /\ IsFolder(s[k]) => IsFolder(s[j])}

Rerooted(y, x, base) ==
  Rebase(PathOf(rows[x].owner, y), PathOf(rows[x].owner, x), base)

\* Mutant: a copy below the top stays in its original's folder.
CopyParentOfOriginal(y, x, p, new) == IF y = x THEN p ELSE rows[y].parent

\* Mutant: a copy below the top is created under its own id.
CopyParentIsItself(y, x, p, new) == IF y = x THEN p ELSE new[y]

CopyParent(y, x, p, new) == IF y = x THEN p ELSE new[rows[y].parent]

\* The table with a copy of x, called final, in p: new[y] is y's copy.
Copied(owner, x, p, final, new) ==
  LET Source(z) == CHOOSE y \in DOMAIN new : new[y] = z IN
  [z \in Live \cup {new[y] : y \in DOMAIN new} |->
     IF z \in Live THEN rows[z]
     ELSE LET y == Source(z) IN
          NewRow(owner,
                 CopyParent(y, x, p, new),
                 IF y = x THEN final ELSE rows[y].name,
                 rows[y].type, rows[y].size, Nil)]

(***************************************************************************)
(* copyRecursive on a folder: the active subtree in preorder, a new row    *)
(* and a new directory or file each, until the first item that does not    *)
(* copy (its bytes are not there, its target is taken, the quota is used   *)
(* up); what was copied by then stays.  Only the top item is looked at for *)
(* being a shortcut: one further down is taken for a file or a folder.     *)
(***************************************************************************)
CopyFolder(u, x, p) ==
  /\ Active(x) /\ IsReal(x) /\ IsFolder(x)
  /\ ValidFolder(p)
  /\ p # Nil => CheckNotSelfOrDescendant(x, p)
  /\ LET owner == OwnerAt(u, p) IN
     /\ HasFolderPath(owner, p) /\ HasPath(x)
     /\ \E final \in UniqueName(owner, p, rows[x].name, Nil), s \in CopyOrders(x) :
          LET base == Append(FolderPath(owner, p), final)
              target == [y \in {s[k] : k \in DOMAIN s} |-> Rerooted(y, x, base)]
              Stops(k) ==
                IF IsFolder(s[k]) THEN ~CanMkdir(disk, target[s[k]])
                ELSE \/ ~CheckQuota(owner, SizeOf({s[j] : j \in 1..k}))
                     \/ ~IsFile(disk, PathOf(rows[x].owner, s[k]))
                     \/ ~CanWrite(disk, target[s[k]])
              done == Completed(s, {k \in DOMAIN s : Stops(k)}) IN
          \E new \in Injection(done, Ids \ issued) :
            LET At(q) == CHOOSE y \in done : target[y] = q
                tree == [q \in {target[y] : y \in done} |->
                           IF IsFolder(At(q)) THEN Dir ELSE new[At(q)]] IN
            /\ disk' = IF done = {} THEN disk ELSE Overlay(MkdirAll(disk, base), tree)
            /\ rows' = Copied(owner, x, p, final, new)
            /\ used' = Charge(owner, SizeOf(done))
            /\ issued' = issued \cup {new[y] : y \in done}
  /\ UNCHANGED <<links, sweep, now>>

-----------------------------------------------------------------------------
(* Trash. *)

(***************************************************************************)
(* The whole subtree moves on disk with its top item; the rows of the      *)
(* ACTIVE items under it are marked (markSubtreeDeleted).                  *)
(***************************************************************************)
Delete(x) ==
  /\ Active(x)
  /\ LET owner == rows[x].owner
         marked == Below(x, ActiveOf(owner))
         gone == [y \in Live |-> IF y \in marked THEN [rows[y] EXCEPT !.deleted = now]
                                 ELSE rows[y]] IN
     IF IsReal(x)
     THEN /\ HasPath(x)
          /\ LET old == PathOf(owner, x)
                 new == TrashPath(owner, x, rows[x].name) IN
             /\ disk' = Rename(disk, old, new)
             /\ rows' = IF CanRename(disk, old, new) THEN gone ELSE rows
     ELSE rows' = gone /\ UNCHANGED disk
  /\ UNCHANGED <<used, links, issued, sweep, now>>

\* Mutant: no unique index.
ClashesNever(y, cleared) == FALSE

\* Mutant: an index that leaves the parent out.
ClashesAnywhere(y, cleared) ==
  \E z \in Live \ {y} :
     /\ Active(z) \/ z \in cleared
     /\ rows[z].owner = rows[y].owner
     /\ rows[z].name = rows[y].name

\* The unique index on active names rejects clearing deleted_at of y once
\* the items in "cleared" are active again.  (The top item is by then active
\* under its new parent, which is no parent of anything still in trash.)
Clashes(y, cleared) ==
  \E z \in Live \ {y} :
     /\ Active(z) \/ z \in cleared
     /\ rows[z].owner = rows[y].owner
     /\ rows[z].parent = rows[y].parent
     /\ rows[z].name = rows[y].name

Cleared(x, p, final, back) ==
  [y \in Live |->
     IF y = x THEN [rows[y] EXCEPT !.deleted = Nil, !.name = final, !.parent = p]
     ELSE IF y \in back THEN [rows[y] EXCEPT !.deleted = Nil]
     ELSE rows[y]]

(***************************************************************************)
(* The top item goes back to its parent, or to the root when the parent is *)
(* gone or in trash; restoreDescendants then clears deleted_at of every    *)
(* trashed row under it, and stops where the unique index says no.         *)
(***************************************************************************)
Restore(x) ==
  /\ Trashed(x)
  /\ LET owner == rows[x].owner
         p == IF rows[x].parent # Nil /\ Active(rows[x].parent) THEN rows[x].parent ELSE Nil
     IN \E final \in UniqueName(owner, p, rows[x].name, x),
           s \in Preorders(x, TrashedOf(owner)) :
          LET bad == {k \in 2..Len(s) : Clashes(s[k], {s[j] : j \in 2..(k - 1)})}
              restored == Cleared(x, p, final, Completed(s, bad)) IN
          IF IsReal(x)
          THEN /\ HasFolderPath(owner, p)
               /\ LET old == TrashPath(owner, x, rows[x].name)
                      new == Append(FolderPath(owner, p), final) IN
                  /\ disk' = Rename(disk, old, new)
                  /\ rows' = IF CanRename(disk, old, new) THEN restored ELSE rows
          ELSE rows' = restored /\ UNCHANGED disk
  /\ UNCHANGED <<used, links, issued, sweep, now>>

\* Mutant: target_id references nothing.
ReferencedByChild(y, removed) ==
  \/ y \in links
  \/ \E z \in Live \ (removed \cup {y}) : rows[z].parent = y

\* A foreign key without ON DELETE CASCADE still references y's row: a share
\* link, a shortcut or a child that is not among the rows removed so far.
Referenced(y, removed) ==
  \/ y \in links
  \/ \E z \in Live \ (removed \cup {y}) : rows[z].target = y \/ rows[z].parent = y

Removed(s) ==
  Completed(s, {k \in DOMAIN s : Referenced(s[k], {s[j] : j \in 1..(k - 1)})})

(***************************************************************************)
(* The bytes first, then the rows bottom up (hardDeleteSubtreeRows), each  *)
(* file's size given back as its row goes, until a row cannot be deleted.  *)
(***************************************************************************)
Erase(x) ==
  LET owner == rows[x].owner IN
  /\ rows[x].parent \notin Below(x, TrashedOf(owner))   \* else the recursion has no end
  /\ disk' = IF IsReal(x) THEN RemoveAll(disk, TrashPath(owner, x, rows[x].name)) ELSE disk
  /\ \E s \in Postorders(x, TrashedOf(owner)) :
       /\ rows' = [y \in Live \ Removed(s) |-> rows[y]]
       /\ used' = Charge(owner, -SizeOf(Removed(s)))

\* Mutant: the check of deleted_at is gone.
PermanentlyDeleteAny(x) ==
  /\ Erase(x)
  /\ UNCHANGED <<links, issued, sweep, now>>

PermanentlyDelete(x) ==
  /\ Trashed(x)
  /\ Erase(x)
  /\ UNCHANGED <<links, issued, sweep, now>>

-----------------------------------------------------------------------------
(* PurgeExpiredTrash: one goroutine lists the expired items, then deletes  *)
(* those that are top-level within the batch one by one, oldest first;     *)
(* requests may come in between.  A restart of the server forgets the      *)
(* batch.                                                                  *)

\* Mutant: an item that is exactly as old as the retention counts.
ExpiredInclusive == {x \in Live : Trashed(x) /\ rows[x].deleted <= now - Retention}

Expired == {x \in Live : Trashed(x) /\ rows[x].deleted < now - Retention}

Batch == {x \in Expired : rows[x].parent \notin Expired}

PurgeBegin ==
  /\ DOMAIN sweep = {}
  /\ Batch # {}
  /\ sweep' = [x \in Batch |-> rows[x].deleted]
  /\ UNCHANGED <<rows, disk, used, links, issued, now>>

SweepTurn(x) == x \in DOMAIN sweep /\ \A y \in DOMAIN sweep : sweep[x] <= sweep[y]

Unlist(x) == sweep' = [y \in DOMAIN sweep \ {x} |-> sweep[y]]

PurgeItem(x) ==
  /\ SweepTurn(x)
  /\ Trashed(x)
  /\ Erase(x)
  /\ Unlist(x)
  /\ UNCHANGED <<links, issued, now>>

\* Restored or deleted for good since it was listed: apperr.NotFound.
PurgeSkip(x) ==
  /\ SweepTurn(x)
  /\ ~Trashed(x)
  /\ Unlist(x)
  /\ UNCHANGED <<rows, disk, used, links, issued, now>>

Restart ==
  /\ DOMAIN sweep # {}
  /\ sweep' = [x \in {} |-> 0]
  /\ UNCHANGED <<rows, disk, used, links, issued, now>>

-----------------------------------------------------------------------------
(* Share links (only that one exists matters here), and time. *)

CreateShare(x) ==
  /\ Active(x)
  /\ links' = links \cup {x}
  /\ UNCHANGED <<rows, disk, used, issued, sweep, now>>

RevokeShare(x) ==
  /\ x \in links
  /\ links' = links \ {x}
  /\ UNCHANGED <<rows, disk, used, issued, sweep, now>>

Tick ==
  /\ now < MaxNow
  /\ now' = now + 1
  /\ UNCHANGED <<rows, disk, used, links, issued, sweep>>

-----------------------------------------------------------------------------
(***************************************************************************)
(* The API takes every id and every order of calls.  Five habits that the  *)
(* code does not refuse are switched by Untidy, so that a run can say on   *)
(* which of them a property depends:                                       *)
(*   "over_trash"        a folder is deleted although something under it   *)
(*                       was already trashed on its own (the web UI can);  *)
(*   "inside_trash"      an item below the top of a trashed subtree is     *)
(*                       restored or deleted for good (only the API can);  *)
(*   "shortcut_parent"   a folder shortcut's id is given as a parent (only *)
(*                       the API can: the UI opens the target);            *)
(*   "purge_referenced"  an item with a share link or a shortcut to it is  *)
(*                       deleted for good (the web UI can);                *)
(*   "restore_listed"    an item is restored while a running purge has it  *)
(*                       on its list (the web UI can).                     *)
(***************************************************************************)
Habits == {"over_trash", "inside_trash", "shortcut_parent", "purge_referenced",
           "restore_listed"}

ASSUME UntidyHabits == Untidy \subseteq Habits

TidyParent(p) == "shortcut_parent" \in Untidy \/ p = Nil \/ (p \in Live /\ IsReal(p))

TidyDelete(x) == "over_trash" \in Untidy \/ \A y \in Live : Trashed(y) => x \notin Above(y)

TopOfTrash(x) == Trashed(x) /\ (rows[x].parent = Nil \/ ~Trashed(rows[x].parent))

TidyTrash(x) == "inside_trash" \in Untidy \/ TopOfTrash(x)

TidyRestore(x) == "restore_listed" \in Untidy \/ DOMAIN sweep \cap Below(x, Live) = {}

TidyPurge(x) ==
  \/ "purge_referenced" \in Untidy
  \/ \A y \in Live : x \in Above(y) =>
       y \notin links /\ \A z \in Live : rows[z].target # y

Create(x) ==
  \E u \in Users, p \in Live \cup {Nil} :
    /\ TidyParent(p)
    /\ \/ \E name \in Requests :
            \/ CreateFolder(u, p, name, x)
            \/ \E size \in Sizes : \/ FinalizeUpload(u, p, name, size, x)
                                   \/ CreateBlankDocument(u, p, name, size, x)
       \/ \E t \in Live : \/ CreateShortcut(u, t, p, x)
                          \/ CopyShortcut(u, t, p, x)
                          \/ CopyFile(u, t, p, x)

Change(x) ==
  \/ \E size \in Sizes : ReplaceContent(x, size)
  \/ \E p \in Live \cup {Nil} :
       /\ TidyParent(p)
       /\ \/ \E name \in Requests : Move(x, name, p)
          \/ \E u \in Users : CopyFolder(u, x, p)
  \/ TidyDelete(x) /\ Delete(x)
  \/ TidyTrash(x) /\ TidyRestore(x) /\ Restore(x)
  \/ TidyTrash(x) /\ TidyPurge(x) /\ PermanentlyDelete(x)
  \/ TidyPurge(x) /\ PurgeItem(x)

Next ==
  \/ \E x \in Ids : Create(x)
  \/ \E x \in Live : Change(x) \/ CreateShare(x) \/ RevokeShare(x)
  \/ \E x \in DOMAIN sweep : PurgeSkip(x)
  \/ PurgeBegin \/ Restart \/ Tick

Spec == Init /\ [][Next]_vars

-----------------------------------------------------------------------------
(* Properties.  The first group holds whatever the callers do.             *)

\* An active item hangs under active folders only: what a folder listing can
\* reach is exactly what is active (markSubtreeDeleted, restoreDescendants,
\* ValidateFolder and Restore's fallback to the root keep it so together).
NoActiveUnderTrash ==
  \A x \in Live : Active(x) /\ rows[x].parent # Nil => Active(rows[x].parent)

\* A parent is a folder in the table, of the same owner: pathOf builds a whole
\* path from one user name, and the per-owner child queries see every child.
OneOwnerPerTree ==
  \A x \in Live : rows[x].parent # Nil =>
    /\ rows[x].parent \in Live
    /\ IsFolder(rows[x].parent)
    /\ rows[x].owner = rows[rows[x].parent].owner

\* Two active items of one folder never have the same name: uniqueName alone
\* ensures it for every insert, move and top-level restore, so the unique
\* index is what 0001_initial_schema.sql calls it, a safety net.
UniqueActiveNames ==
  \A x, y \in Live :
    /\ Active(x) /\ Active(y)
    /\ rows[x].owner = rows[y].owner
    /\ rows[x].parent = rows[y].parent
    /\ rows[x].name = rows[y].name
    => x = y

\* storage_used_bytes, only ever adjusted by deltas, stays the sum of the
\* sizes of the owner's files, those in trash included, also when a purge or a
\* copy stops halfway.
QuotaIsSum == \A u \in Users : used[u] = SizeOf({x \in Live : rows[x].owner = u})

\* A shortcut points at an item in the table that is not itself a shortcut,
\* and says its type: every other operation looks through one level only.
ShortcutsAreFlat ==
  \A x \in Live : ~IsReal(x) =>
    /\ rows[x].target \in Live
    /\ IsReal(rows[x].target)
    /\ rows[x].type = rows[rows[x].target].type

\* A row only ever leaves the table out of the trash: no permanent delete or
\* purge of a subtree takes an active item with it.
RowsLeaveViaTrash == [][\A x \in Live : x \notin DOMAIN rows' => Trashed(x)]_vars

-----------------------------------------------------------------------------
(* The second group depends on the callers' habits.                        *)

\* Where the bytes of x should be: at its place in the tree, or inside the
\* trash entry of the top of its trashed subtree.
Location(x) ==
  LET loc[y \in Live] ==
        IF TopOfTrash(y) THEN TrashPath(rows[y].owner, y, rows[y].name)
        ELSE IF rows[y].parent = Nil
             THEN Append(FilesRoot(rows[y].owner), rows[y].name)
             ELSE Append(loc[rows[y].parent], rows[y].name)
  IN loc[x]

\* Every walk up parent_id (pathOf, resolveGrant) ends.
TreeIsAcyclic == \A x \in Live : Rooted(x)

\* Disk and table agree: what exists under files/ and .trash/ is exactly one
\* file or directory per real item, each where the tree says, holding the
\* bytes written for that item -- nothing lost, overwritten or left behind.
DiskMatchesTree ==
  LET real == {x \in Live : IsReal(x)} IN
  /\ DOMAIN disk = {Location(x) : x \in real}
  /\ \A x \in real : disk[Location(x)] = IF IsFolder(x) THEN Dir ELSE x

\* Restoring a folder brings back everything under it that is in the trash.
RestoreIsWhole ==
  [][\A x \in Live :
       TopOfTrash(x) /\ x \in DOMAIN rows' /\ rows'[x].deleted = Nil =>
         \A y \in Below(x, {z \in Live : Trashed(z)}) : rows'[y].deleted = Nil]_vars

\* The scheduled purge removes only what has been in trash for longer than the
\* retention (PurgeExpiredTrash's batch is not listed again as it is worked off).
PurgeRespectsRetention ==
  [][sweep # sweep' => \A x \in Live \ DOMAIN rows' :
       Trashed(x) /\ now - rows[x].deleted > Retention]_vars

\* What is deleted for good goes from the disk and from the table together:
\* no row stays in trash whose bytes are gone.
EraseIsWhole ==
  [][\A x \in Live :
       /\ TopOfTrash(x) /\ IsReal(x)
       /\ Location(x) \in DOMAIN disk /\ Location(x) \notin DOMAIN disk'
       => x \notin DOMAIN rows' \/ rows'[x].deleted = Nil]_vars
=============================================================================
