-------------------------- MODULE DriveTreeProofs --------------------------
(***************************************************************************)
(* What Drive's table and counters say of each other, for any numbers of   *)
(* users, items and names: the storage counters, the active names, the     *)
(* shortcuts, the walks up the tree, the purge and the restore.  Every     *)
(* step of Drive is first brought to one of eight kinds of change of the   *)
(* table; each invariant then has one case per kind.                       *)
(***************************************************************************)
EXTENDS DriveProofs, Sums

\* One new row, called by a name that is free.
AddRow(x, owner, p, asked, final, type, size, target) ==
  /\ final \in UniqueName(owner, p, asked, Nil)
  /\ CanHold(p, owner) /\ TidyParent(p)
  /\ target # Nil =>
       /\ Active(target) /\ type = rows[target].type
       /\ IsReal(target) \/ \E t \in Live : ~IsReal(t) /\ rows[t].target = target
  /\ type = "folder" => size = 0
  /\ rows' = Insert(x, NewRow(owner, p, final, type, size, target))
  /\ issued' = issued \cup {x}
  /\ \/ used' = Charge(owner, size)
     \/ size = 0 /\ UNCHANGED used
  /\ UNCHANGED sweep

AddsItem ==
  \E x \in Ids \ issued, owner \in Users, p \in Live \cup {Nil},
     asked \in FullName, final \in FullName,
     type \in {"file", "folder"}, size \in Nat, target \in Ids \cup {Nil} :
    AddRow(x, owner, p, asked, final, type, size, target)

MoveRow(x, p, asked, final) ==
  /\ final \in UniqueName(rows[x].owner, p, asked, x)
  /\ Active(x) /\ CanHold(p, rows[x].owner) /\ TidyParent(p)
  /\ p # Nil /\ IsFolder(x) /\ IsReal(x) => CheckNotSelfOrDescendant(x, p)
  /\ rows' = [rows EXCEPT ![x].name = final, ![x].parent = p]
  /\ UNCHANGED <<used, issued, sweep>>

MovesItem ==
  \E x \in Live, p \in Live \cup {Nil}, asked \in FullName, final \in FullName :
    MoveRow(x, p, asked, final)

ResizeRow(x, size) ==
  /\ ~IsFolder(x)
  /\ rows' = [rows EXCEPT ![x].size = size]
  /\ used' = Charge(rows[x].owner, size - rows[x].size)
  /\ UNCHANGED <<issued, sweep>>

ResizesFile == \E x \in Live, size \in Nat : ResizeRow(x, size)

TrashRows(x) ==
  /\ Active(x) /\ TidyDelete(x)
  /\ rows' = [y \in Live |-> IF y \in Below(x, ActiveOf(rows[x].owner))
                             THEN [rows[y] EXCEPT !.deleted = now] ELSE rows[y]]
  /\ UNCHANGED <<used, issued, sweep, now>>

TrashesTree == \E x \in Live : TrashRows(x)

\* The positions in a restore's walk that the unique index stops it at.
Clashing(s) == {k \in 2..Len(s) : Clashes(s[k], {s[j] : j \in 2..(k - 1)})}

ParentBack(x) ==
  IF rows[x].parent # Nil /\ Active(rows[x].parent) THEN rows[x].parent ELSE Nil

RestoreRows(x, final, s) ==
  /\ final \in UniqueName(rows[x].owner, ParentBack(x), rows[x].name, x)
  /\ s \in Preorders(x, TrashedOf(rows[x].owner))
  /\ Trashed(x) /\ TidyTrash(x) /\ TidyRestore(x)
  /\ rows' = Cleared(x, ParentBack(x), final, Completed(s, Clashing(s)))
  /\ UNCHANGED <<used, issued, sweep, now>>

RestoresTree == \E x \in Live, final \in FullName : \E s : RestoreRows(x, final, s)

\* The rows R go, of which nothing in the table is left behind.
EraseRows(x, R) ==
  /\ Trashed(x)
  /\ R \subseteq Below(x, TrashedOf(rows[x].owner))
  /\ \A y \in Live \ R : rows[y].parent \notin R /\ rows[y].target \notin R
  /\ rows' = [y \in Live \ R |-> rows[y]]
  /\ used' = Charge(rows[x].owner, -SizeOf(R))
  /\ UNCHANGED <<issued, now>>
  /\ \/ UNCHANGED sweep
     \/ x \in DOMAIN sweep /\ Unlist(x)

ErasesTree == \E x \in Live, R \in SUBSET Live : EraseRows(x, R)

\* The items in done are copied, active ones of one owner, each below the top
\* along with its parent.
CopyRows(x, owner, p, final, done, new) ==
  /\ final \in UniqueName(owner, p, rows[x].name, Nil)
  /\ Active(x) /\ CanHold(p, owner) /\ TidyParent(p)
  /\ \A y \in done : /\ Active(y) /\ rows[y].owner = rows[x].owner
                     /\ y # x => rows[y].parent \in done
  /\ rows' = Copied(owner, x, p, final, new)
  /\ used' = Charge(owner, SizeOf(done))
  /\ issued' = issued \cup {new[y] : y \in done}
  /\ UNCHANGED sweep

CopiesTree ==
  \E x \in Live, owner \in Users, p \in Live \cup {Nil}, final \in FullName,
     done \in SUBSET Live :
  \E new \in Injection(done, Ids \ issued) : CopyRows(x, owner, p, final, done, new)

KeepsTable == UNCHANGED <<rows, used, issued>>

-----------------------------------------------------------------------------
(* The actions are of these kinds. *)

LEMMA CreateFolderKind ==
  ASSUME Inv, NEW x \in Ids, NEW u \in Users, NEW p \in Live \cup {Nil}, TidyParent(p),
         NEW name \in Requests, CreateFolder(u, p, name, x)
  PROVE  AddsItem
<1> DEFINE owner == OwnerAt(u, p)
<1>1. PICK final \in UniqueName(owner, p, name, Nil) :
        /\ rows' = Insert(x, NewRow(owner, p, final, "folder", 0, Nil))
        /\ issued' = issued \cup {x}
  BY DEF CreateFolder
<1>2. /\ CanHold(p, owner) /\ owner \in Users /\ x \in Ids \ issued /\ name \in FullName
      /\ UNCHANGED <<used, sweep>>
  BY HoldFacts, RequestsAreNames DEF CreateFolder
<1> HIDE DEF owner
<1>3. final \in FullName
  BY <1>2, UniqueNameIsName
<1>4. AddRow(x, owner, p, name, final, "folder", 0, Nil)
  BY <1>1, <1>2 DEF AddRow
<1> QED BY <1>2, <1>3, <1>4 DEF AddsItem

LEMMA CreateShortcutKind ==
  ASSUME Inv, NEW x \in Ids, NEW u \in Users, NEW p \in Live \cup {Nil}, TidyParent(p),
         NEW t \in Live, CreateShortcut(u, t, p, x)
  PROVE  AddsItem
<1> DEFINE target == IF IsReal(t) THEN t ELSE rows[t].target
           owner == OwnerAt(u, p)
<1>1. PICK final \in UniqueName(owner, p, rows[target].name, Nil) :
        rows' = Insert(x, NewRow(owner, p, final, rows[target].type, 0, target))
  BY DEF CreateShortcut
<1>2. /\ CanHold(p, owner) /\ owner \in Users /\ x \in Ids \ issued
      /\ Active(target) /\ issued' = issued \cup {x}
      /\ UNCHANGED <<used, sweep>>
  BY HoldFacts DEF CreateShortcut
<1>3. /\ rows[target].name \in FullName /\ rows[target].type \in {"file", "folder"}
      /\ target \in Ids
  BY <1>2, LiveFacts DEF Active, Row
<1>4. IsReal(target) \/ \E z \in Live : ~IsReal(z) /\ rows[z].target = target
  OBVIOUS
<1> HIDE DEF owner, target
<1>5. final \in FullName
  BY <1>3, UniqueNameIsName
<1>6. AddRow(x, owner, p, rows[target].name, final, rows[target].type, 0, target)
  BY <1>1, <1>2, <1>4 DEF AddRow
<1> QED BY <1>2, <1>3, <1>5, <1>6 DEF AddsItem

LEMMA AddedFileKind ==
  ASSUME Inv, NEW x \in Ids, NEW u \in Users, NEW p \in Live \cup {Nil}, TidyParent(p),
         NEW asked \in FullName, NEW size \in Nat, ValidFolder(p),
         UNCHANGED <<links, sweep, now>>,
         NEW final \in UniqueName(OwnerAt(u, p), p, asked, Nil),
         \/ /\ x \notin issued
            /\ rows' = Insert(x, NewRow(OwnerAt(u, p), p, final, "file", size, Nil))
            /\ issued' = issued \cup {x}
            /\ used' = Charge(OwnerAt(u, p), size)
         \/ UNCHANGED <<rows, used, issued>>
  PROVE  AddsItem \/ (KeepsTable /\ UNCHANGED <<sweep, now>>)
<1> DEFINE owner == OwnerAt(u, p)
<1>1. CanHold(p, owner) /\ owner \in Users
  BY HoldFacts
<1> HIDE DEF owner
<1>2. final \in UniqueName(owner, p, asked, Nil)
  BY DEF owner
<1>3. CASE /\ x \notin issued
           /\ rows' = Insert(x, NewRow(owner, p, final, "file", size, Nil))
           /\ issued' = issued \cup {x}
           /\ used' = Charge(owner, size)
  <2>1. AddRow(x, owner, p, asked, final, "file", size, Nil)
    BY <1>1, <1>2, <1>3 DEF AddRow
  <2>2. final \in FullName
    BY <1>2, UniqueNameIsName
  <2> QED BY <1>1, <1>3, <2>1, <2>2 DEF AddsItem
<1> QED BY <1>3 DEF KeepsTable, owner

LEMMA CreateKind ==
  ASSUME Inv, NEW x \in Ids, Create(x)
  PROVE  AddsItem \/ (KeepsTable /\ UNCHANGED <<sweep, now>>)
<1> DEFINE Goal == AddsItem \/ (KeepsTable /\ UNCHANGED <<sweep, now>>)
<1>1. PICK u \in Users, p \in Live \cup {Nil} :
        /\ TidyParent(p)
        /\ \/ \E name \in Requests :
                \/ CreateFolder(u, p, name, x)
                \/ \E size \in Sizes : \/ FinalizeUpload(u, p, name, size, x)
                                       \/ CreateBlankDocument(u, p, name, size, x)
           \/ \E t \in Live : \/ CreateShortcut(u, t, p, x)
                              \/ CopyShortcut(u, t, p, x)
                              \/ CopyFile(u, t, p, x)
  BY DEF Create
<1>2. ASSUME NEW name \in Requests, CreateFolder(u, p, name, x) PROVE Goal
  BY <1>1, <1>2, CreateFolderKind
<1>3. ASSUME NEW name \in Requests, NEW size \in Sizes,
             FinalizeUpload(u, p, name, size, x) \/ CreateBlankDocument(u, p, name, size, x)
      PROVE  Goal
  <2>1. PICK final \in UniqueName(OwnerAt(u, p), p, name, Nil) :
          \/ /\ rows' = Insert(x, NewRow(OwnerAt(u, p), p, final, "file", size, Nil))
             /\ used' = Charge(OwnerAt(u, p), size)
             /\ issued' = issued \cup {x}
          \/ UNCHANGED <<rows, used, issued>>
    BY <1>3 DEF FinalizeUpload, CreateBlankDocument, AddFile
  <2>2. /\ x \notin issued /\ ValidFolder(p) /\ UNCHANGED <<links, sweep, now>>
        /\ name \in FullName /\ size \in Nat
    BY <1>3, RequestsAreNames, SizesAreNat DEF FinalizeUpload, CreateBlankDocument, AddFile
  <2> QED BY <1>1, <2>1, <2>2, AddedFileKind
<1>4. ASSUME NEW t \in Live, CreateShortcut(u, t, p, x) PROVE Goal
  BY <1>1, <1>4, CreateShortcutKind
<1>5. ASSUME NEW t \in Live, CopyShortcut(u, t, p, x) PROVE Goal
  <2>1. CreateShortcut(u, rows[t].target, p, x) /\ rows[t].target \in Live
    BY <1>5 DEF CopyShortcut, CreateShortcut, Active
  <2> QED BY <1>1, <2>1, CreateShortcutKind
<1>6. ASSUME NEW t \in Live, CopyFile(u, t, p, x) PROVE Goal
  <2>1. PICK final \in UniqueName(OwnerAt(u, p), p, rows[t].name, Nil) :
          \/ /\ rows' = Insert(x, NewRow(OwnerAt(u, p), p, final, "file", rows[t].size, Nil))
             /\ used' = Charge(OwnerAt(u, p), rows[t].size)
             /\ issued' = issued \cup {x}
          \/ UNCHANGED <<rows, used, issued>>
    BY <1>6 DEF CopyFile
  <2>2. /\ x \notin issued /\ ValidFolder(p) /\ UNCHANGED <<links, sweep, now>>
        /\ rows[t].name \in FullName /\ rows[t].size \in Nat
    BY <1>6, LiveFacts DEF CopyFile, Row
  <2> QED BY <1>1, <2>1, <2>2, AddedFileKind
<1> HIDE DEF Goal
<1>7. Goal
  BY <1>1, <1>2, <1>3, <1>4, <1>5, <1>6
<1> QED BY <1>7 DEF Goal

LEMMA MoveKind ==
  ASSUME Inv, NEW x \in Live, NEW p \in Live \cup {Nil}, TidyParent(p),
         NEW name \in Requests, Move(x, name, p)
  PROVE  MovesItem \/ (KeepsTable /\ UNCHANGED <<sweep, now>>)
<1>1. PICK final \in UniqueName(rows[x].owner, p, name, x) :
        \/ rows' = [rows EXCEPT ![x].name = final, ![x].parent = p]
        \/ UNCHANGED rows
  BY DEF Move
<1>2. rows[x].owner \in Users
  BY LiveFacts DEF Row
<1>3. CanHold(p, rows[x].owner)
  BY <1>2, HoldFacts DEF Move
<1>4. /\ name \in FullName /\ Active(x)
      /\ UNCHANGED <<used, links, issued, sweep, now>>
      /\ p # Nil /\ IsFolder(x) /\ IsReal(x) => CheckNotSelfOrDescendant(x, p)
  BY RequestsAreNames DEF Move
<1>5. CASE UNCHANGED rows
  BY <1>4, <1>5 DEF KeepsTable
<1>6. CASE rows' = [rows EXCEPT ![x].name = final, ![x].parent = p]
  <2>1. MoveRow(x, p, name, final)
    BY <1>3, <1>4, <1>6 DEF MoveRow
  <2>2. final \in FullName
    BY <1>4, UniqueNameIsName
  <2> QED BY <1>4, <2>1, <2>2 DEF MovesItem
<1> QED BY <1>1, <1>5, <1>6

LEMMA ReplaceContentKind ==
  ASSUME Inv, NEW x \in Live, NEW size \in Sizes, ReplaceContent(x, size)
  PROVE  ResizesFile \/ (KeepsTable /\ UNCHANGED <<sweep, now>>)
<1>1. size \in Nat
  BY SizesAreNat
<1>2. \/ /\ rows' = [rows EXCEPT ![x].size = size]
         /\ used' = Charge(rows[x].owner, size - rows[x].size)
      \/ UNCHANGED <<rows, used>>
  BY DEF ReplaceContent
<1>3. ~IsFolder(x) /\ UNCHANGED <<links, issued, sweep, now>>
  BY DEF ReplaceContent
<1> QED BY <1>1, <1>2, <1>3 DEF ResizesFile, ResizeRow, KeepsTable

LEMMA CopyFolderKind ==
  ASSUME Inv, NEW x \in Live, NEW u \in Users, NEW p \in Live \cup {Nil}, TidyParent(p),
         CopyFolder(u, x, p)
  PROVE  CopiesTree
<1> DEFINE owner == OwnerAt(u, p)
<1>1. PICK final \in UniqueName(owner, p, rows[x].name, Nil), s \in CopyOrders(x) :
        \E bad, base, target : \E new \in Injection(Completed(s, bad), Ids \ issued) :
          CopyResult(owner, x, p, final, Completed(s, bad), base, target, new)
  BY CopyFolderShape
<1>2. PICK bad, base, target : \E new \in Injection(Completed(s, bad), Ids \ issued) :
        CopyResult(owner, x, p, final, Completed(s, bad), base, target, new)
  BY <1>1
<1>3. PICK new \in Injection(Completed(s, bad), Ids \ issued) :
        CopyResult(owner, x, p, final, Completed(s, bad), base, target, new)
  BY <1>2
<1>4. CanHold(p, owner) /\ owner \in Users
  BY HoldFacts DEF CopyFolder
<1>5. Active(x) /\ UNCHANGED <<links, sweep, now>> /\ s \in Preorders(x, ActiveOf(rows[x].owner))
  BY DEF CopyFolder, CopyOrders
<1> DEFINE done == Completed(s, bad)
           S == ActiveOf(rows[x].owner)
<1>6. \A y \in done : /\ Active(y) /\ y \in Live /\ rows[y].owner = rows[x].owner
                      /\ y # x => rows[y].parent \in done
  <2>1. x \in Ids /\ S \subseteq Ids /\ S \subseteq Live
    BY LiveFacts DEF ActiveOf
  <2>2. done \subseteq S \cup {x}
    BY <1>5, <2>1, CompletedInside
  <2>3. \A y \in done : y # x => rows[y].parent \in done
    BY <1>5, <2>1, CompletedParents
  <2> QED BY <1>5, <2>2, <2>3 DEF ActiveOf
<1>7. final \in FullName
  BY LiveFacts, UniqueNameIsName DEF Row
<1> HIDE DEF owner, done
<1>8. CopyRows(x, owner, p, final, done, new)
  BY <1>1, <1>3, <1>4, <1>5, <1>6 DEF CopyRows, CopyResult, owner, done
<1>9. done \in SUBSET Live /\ new \in Injection(done, Ids \ issued)
  BY <1>3, <1>6 DEF done
<1> QED BY <1>4, <1>7, <1>8, <1>9 DEF CopiesTree

LEMMA DeleteKind ==
  ASSUME Inv, NEW x \in Live, TidyDelete(x), Delete(x)
  PROVE  TrashesTree \/ (KeepsTable /\ UNCHANGED <<sweep, now>>)
BY DEF Delete, TrashesTree, TrashRows, KeepsTable

LEMMA RestoreKind ==
  ASSUME Inv, NEW x \in Live, TidyTrash(x), TidyRestore(x), Restore(x)
  PROVE  RestoresTree \/ (KeepsTable /\ UNCHANGED <<sweep, now>>)
<1>1. PICK final \in UniqueName(rows[x].owner, ParentBack(x), rows[x].name, x),
           s \in Preorders(x, TrashedOf(rows[x].owner)) :
        \/ rows' = Cleared(x, ParentBack(x), final, Completed(s, Clashing(s)))
        \/ UNCHANGED rows
  BY DEF Restore, ParentBack, Clashing
<1>2. Trashed(x) /\ UNCHANGED <<used, links, issued, sweep, now>>
  BY DEF Restore
<1>3. CASE UNCHANGED rows
  BY <1>2, <1>3 DEF KeepsTable
<1>4. CASE rows' = Cleared(x, ParentBack(x), final, Completed(s, Clashing(s)))
  <2>1. RestoreRows(x, final, s)
    BY <1>2, <1>4 DEF RestoreRows
  <2>2. final \in FullName
    BY LiveFacts, UniqueNameIsName DEF Row
  <2> QED BY <2>1, <2>2 DEF RestoresTree
<1> QED BY <1>1, <1>3, <1>4

LEMMA EraseKind ==
  ASSUME Inv, NEW x \in Live, PermanentlyDelete(x) \/ PurgeItem(x)
  PROVE  ErasesTree
<1>1. /\ Trashed(x) /\ UNCHANGED <<issued, now>>
      /\ UNCHANGED sweep \/ (x \in DOMAIN sweep /\ Unlist(x))
  BY DEF PermanentlyDelete, PurgeItem, SweepTurn
<1>2. PICK s \in Postorders(x, TrashedOf(rows[x].owner)) :
        /\ rows' = [y \in Live \ Removed(s) |-> rows[y]]
        /\ used' = Charge(rows[x].owner, -SizeOf(Removed(s)))
  BY DEF PermanentlyDelete, PurgeItem, Erase
<1> DEFINE S == TrashedOf(rows[x].owner)
           R == Removed(s)
<1>3. R \subseteq Below(x, S) /\ R \in SUBSET Live
  <2>1. x \in Ids /\ S \subseteq Ids /\ S \subseteq Live
    BY LiveFacts DEF TrashedOf
  <2>2. R \subseteq Below(x, S)
    BY <2>1, CompletedBelow DEF Removed
  <2> QED BY <2>1, <2>2, BelowInside
<1>4. \A y \in Live \ R : rows[y].parent \notin R /\ rows[y].target \notin R
  BY RemovedUnreferenced, InvParts
<1>5. EraseRows(x, R)
  BY <1>1, <1>2, <1>3, <1>4 DEF EraseRows
<1> HIDE DEF R
<1> QED BY <1>3, <1>5 DEF ErasesTree

\* Every step is of one of the kinds.
LEMMA StepKinds ==
  ASSUME Inv, [Next]_vars
  PROVE  \/ AddsItem \/ MovesItem \/ ResizesFile \/ TrashesTree
         \/ RestoresTree \/ ErasesTree \/ CopiesTree \/ KeepsTable
<1>1. ASSUME NEW x \in Ids, Create(x) PROVE AddsItem \/ KeepsTable
  BY <1>1, CreateKind
<1>2. ASSUME NEW x \in Live, Change(x)
      PROVE  \/ MovesItem \/ ResizesFile \/ TrashesTree
             \/ RestoresTree \/ ErasesTree \/ CopiesTree \/ KeepsTable
  BY <1>2, MoveKind, ReplaceContentKind, CopyFolderKind, DeleteKind, RestoreKind, EraseKind
     DEF Change
<1>3. CASE \/ PurgeBegin \/ Restart \/ Tick \/ UNCHANGED vars
           \/ \E x \in DOMAIN sweep : PurgeSkip(x)
           \/ \E x \in Live : CreateShare(x) \/ RevokeShare(x)
  BY <1>3 DEF PurgeBegin, Restart, Tick, PurgeSkip, CreateShare, RevokeShare, vars, KeepsTable
<1> QED BY <1>1, <1>2, <1>3 DEF Next

-----------------------------------------------------------------------------
(* The storage counters. *)

SizesOf(r) == [x \in DOMAIN r |-> r[x].size]

FilesOf(r, u) == {x \in DOMAIN r : r[x].owner = u /\ r[x].type = "file"}

\* The bytes of u's files in a table.
HeldIn(r, u) == SumFunctionOnSet(SizesOf(r), FilesOf(r, u))

QuotaHeld == \A u \in Users : used[u] = HeldIn(rows, u)

IsTable(r) == IsFiniteSet(DOMAIN r) /\ \A x \in DOMAIN r : r[x].size \in Nat

FilesIn(S) == {x \in S : CountsBytes(x)}

LEMMA TableFacts == ASSUME Inv PROVE IsTable(rows) /\ DOMAIN rows = Live
BY LiveFacts, IdsFinite, FS_Subset DEF IsTable, Row, Live

LEMMA SizeOfIsSum ==
  ASSUME Inv, NEW S \in SUBSET Live
  PROVE  SizeOf(S) = SumFunctionOnSet(SizesOf(rows), FilesIn(S))
<1> DEFINE T == FilesIn(S)
           f == SizesOf(rows)
           Iter(g) == g = [U \in SUBSET T |->
                             IF U = {} THEN 0
                             ELSE rows[CHOOSE x \in U : TRUE].size + g[U \ {CHOOSE x \in U : TRUE}]]
<1>1. SizeOf(S) = (CHOOSE g : Iter(g))[T]
  BY DEF SizeOf, FilesIn, MapThenSumSet, MapThenFoldSet
<1>2. T \subseteq Live /\ IsFiniteSet(T)
  BY TableFacts, FS_Subset DEF FilesIn, IsTable
<1>3. ASSUME NEW g PROVE Iter(g) <=> Folds(f, T, g)
  <2>1. ASSUME NEW U \in SUBSET T
        PROVE  (IF U = {} THEN 0
                ELSE rows[CHOOSE x \in U : TRUE].size + g[U \ {CHOOSE x \in U : TRUE}])
               = Adds(f, g, U)
    <3>1. U # {} => (CHOOSE x \in U : TRUE) \in DOMAIN rows
      BY <1>2 DEF Live
    <3>2. U # {} => f[CHOOSE x \in U : TRUE] = rows[CHOOSE x \in U : TRUE].size
      BY <3>1 DEF SizesOf
    <3> QED BY <3>2 DEF Adds
  <2> HIDE DEF f, T
  <2> QED BY <2>1 DEF Folds
<1>4. \E g : Iter(g)
  <2> HIDE DEF Iter, T, f
  <2> QED BY <1>2, <1>3, FoldExists
<1> DEFINE g == CHOOSE g : Iter(g)
<1>5. Folds(f, T, g)
  <2> HIDE DEF f, T, Iter
  <2> QED BY <1>3, <1>4
<1>6. SumFunctionOnSet(f, T) = g[T]
  <2> DEFINE h == CHOOSE h : Folds(f, T, h)
  <2>1. SumFunctionOnSet(f, T) = h[T]
    BY SumUnfolds
  <2>2. Folds(f, T, h)
    BY <1>2, FoldExists
  <2> HIDE DEF f, T, g, h
  <2> QED BY <1>2, <1>5, <2>1, <2>2, FoldUnique
<1> HIDE DEF Iter
<1> QED BY <1>1, <1>6

LEMMA QuotaNow == ASSUME Inv, QuotaHeld PROVE QuotaIsSum
<1> SUFFICES ASSUME NEW u \in Users
             PROVE  used[u] = SizeOf({x \in Live : rows[x].owner = u})
  BY DEF QuotaIsSum
<1>1. FilesIn({x \in Live : rows[x].owner = u}) = FilesOf(rows, u)
  BY DEF FilesIn, FilesOf, Live, CountsBytes
<1> QED BY <1>1, SizeOfIsSum DEF QuotaHeld, HeldIn

LEMMA FilesFinite ==
  ASSUME NEW r, IsTable(r), NEW u
  PROVE  /\ IsFiniteSet(FilesOf(r, u))
         /\ FilesOf(r, u) \subseteq DOMAIN r
         /\ \A x \in FilesOf(r, u) : SizesOf(r)[x] = r[x].size /\ SizesOf(r)[x] \in Int
         /\ HeldIn(r, u) \in Int
<1>1. FilesOf(r, u) \subseteq DOMAIN r
  BY DEF FilesOf
<1>2. IsFiniteSet(FilesOf(r, u))
  BY <1>1, FS_Subset DEF IsTable
<1>3. \A x \in FilesOf(r, u) : SizesOf(r)[x] = r[x].size /\ SizesOf(r)[x] \in Int
  BY <1>1 DEF SizesOf, IsTable
<1> QED BY <1>1, <1>2, <1>3, SumIsInt DEF HeldIn

\* What a table says of u's files is all that counts.
LEMMA HeldSame ==
  ASSUME NEW r, IsTable(r), NEW s, NEW u, FilesOf(s, u) = FilesOf(r, u),
         FilesOf(s, u) \subseteq DOMAIN s,
         \A x \in FilesOf(r, u) : s[x].size = r[x].size
  PROVE  HeldIn(s, u) = HeldIn(r, u)
<1>1. \A x \in FilesOf(r, u) : SizesOf(r)[x] \in Int /\ SizesOf(r)[x] = SizesOf(s)[x]
  BY FilesFinite DEF SizesOf
<1>2. IsFiniteSet(FilesOf(r, u))
  BY FilesFinite
<1> QED BY <1>1, <1>2, SumSame DEF HeldIn

LEMMA AddsQuota == ASSUME Inv, QuotaHeld, AddsItem PROVE QuotaHeld'
<1>0. PICK x \in Ids \ issued, owner \in Users, p \in Live \cup {Nil},
           asked \in FullName, final \in FullName,
           type \in {"file", "folder"}, size \in Nat, target \in Ids \cup {Nil} :
        AddRow(x, owner, p, asked, final, type, size, target)
  BY DEF AddsItem
<1>1. /\ type = "folder" => size = 0
      /\ rows' = Insert(x, NewRow(owner, p, final, type, size, target))
      /\ used' = Charge(owner, size) \/ (size = 0 /\ UNCHANGED used)
  BY <1>0 DEF AddRow
<1>2. x \notin Live /\ IsTable(rows) /\ DOMAIN rows = Live
  BY TableFacts DEF Inv, TypeOK, RowsOK, Live
<1> DEFINE row == NewRow(owner, p, final, type, size, target)
<1>3. /\ DOMAIN rows' = Live \cup {x} /\ rows'[x] = row
      /\ \A y \in Live : rows'[y] = rows[y]
  BY <1>1, <1>2 DEF Insert
<1>4. row.owner = owner /\ row.type = type /\ row.size = size
  BY DEF NewRow
<1> HIDE DEF row
<1> SUFFICES ASSUME NEW u \in Users PROVE used'[u] = HeldIn(rows', u)
  BY DEF QuotaHeld
<1>5. used[u] = HeldIn(rows, u) /\ used[u] \in Int /\ DOMAIN used = Users
  BY <1>2, FilesFinite DEF QuotaHeld, Inv, TypeOK
<1>6. CASE u = owner /\ type = "file"
  <2> DEFINE F == FilesOf(rows, u)
  <2>1. FilesOf(rows', u) = F \cup {x} /\ x \notin F
    BY <1>2, <1>3, <1>4, <1>6 DEF FilesOf
  <2>2. IsFiniteSet(F) /\ F \subseteq Live /\ \A y \in F : SizesOf(rows)[y] \in Int
    BY <1>2, FilesFinite
  <2>3. \A y \in F \cup {x} : SizesOf(rows')[y] = IF y = x THEN size ELSE SizesOf(rows)[y]
    BY <1>2, <1>3, <1>4, <2>2 DEF SizesOf
  <2>4. SumFunctionOnSet(SizesOf(rows'), F \cup {x})
          = size + SumFunctionOnSet(SizesOf(rows'), F)
    <3>1. \A y \in F \cup {x} : SizesOf(rows')[y] \in Int
      BY <2>2, <2>3
    <3>2. SizesOf(rows')[x] = size
      BY <2>3
    <3> HIDE DEF F
    <3> QED BY <2>1, <2>2, <3>1, <3>2, SumAdd
  <2>5. SumFunctionOnSet(SizesOf(rows'), F) = HeldIn(rows, u)
    <3>1. \A y \in F : SizesOf(rows)[y] \in Int /\ SizesOf(rows)[y] = SizesOf(rows')[y]
      BY <2>1, <2>2, <2>3
    <3> QED BY <2>2, <3>1, SumSame DEF HeldIn
  <2>6. HeldIn(rows', u) = size + HeldIn(rows, u)
    BY <2>1, <2>4, <2>5 DEF HeldIn
  <2> QED BY <1>1, <1>5, <1>6, <2>6 DEF Charge
<1>7. CASE ~(u = owner /\ type = "file")
  <2>1. FilesOf(rows', u) = FilesOf(rows, u)
    BY <1>2, <1>3, <1>4, <1>7 DEF FilesOf
  <2>2. HeldIn(rows', u) = HeldIn(rows, u)
    BY <1>2, <1>3, <2>1, HeldSame DEF FilesOf
  <2>3. used'[u] = used[u]
    BY <1>1, <1>5, <1>7 DEF Charge
  <2> QED BY <1>5, <2>2, <2>3
<1> QED BY <1>6, <1>7

\* Moving, trashing and restoring touch neither owners, types nor sizes.
LEMMA SameFilesQuota ==
  ASSUME Inv, QuotaHeld, UNCHANGED used, DOMAIN rows' = Live,
         \A x \in Live : /\ rows'[x].owner = rows[x].owner
                         /\ rows'[x].type = rows[x].type
                         /\ rows'[x].size = rows[x].size
  PROVE  QuotaHeld'
<1> SUFFICES ASSUME NEW u \in Users PROVE used[u] = HeldIn(rows', u)
  BY DEF QuotaHeld
<1>1. FilesOf(rows', u) = FilesOf(rows, u)
  BY DEF FilesOf, Live
<1>2. HeldIn(rows', u) = HeldIn(rows, u)
  BY <1>1, TableFacts, HeldSame DEF FilesOf
<1> QED BY <1>2 DEF QuotaHeld

LEMMA ResizesQuota == ASSUME Inv, QuotaHeld, ResizesFile PROVE QuotaHeld'
<1>1. PICK x \in Live, size \in Nat :
        /\ ~IsFolder(x)
        /\ rows' = [rows EXCEPT ![x].size = size]
        /\ used' = Charge(rows[x].owner, size - rows[x].size)
  BY DEF ResizesFile, ResizeRow
<1>2. IsTable(rows) /\ DOMAIN rows = Live /\ rows[x] \in Row
  BY TableFacts, LiveFacts
<1>3. /\ DOMAIN rows' = Live
      /\ \A y \in Live : rows'[y] = IF y = x THEN [rows[x] EXCEPT !.size = size] ELSE rows[y]
  BY <1>1, <1>2
<1>4. \A y \in Live : /\ rows'[y].owner = rows[y].owner
                      /\ rows'[y].type = rows[y].type
                      /\ rows'[y].size = IF y = x THEN size ELSE rows[y].size
  BY <1>2, <1>3 DEF Row
<1> SUFFICES ASSUME NEW u \in Users PROVE used'[u] = HeldIn(rows', u)
  BY DEF QuotaHeld
<1> DEFINE F == FilesOf(rows, u)
<1>5. used[u] = HeldIn(rows, u) /\ used[u] \in Int /\ DOMAIN used = Users
  BY <1>2, FilesFinite DEF QuotaHeld, Inv, TypeOK
<1>6. FilesOf(rows', u) = F
  BY <1>2, <1>3, <1>4 DEF FilesOf
<1>7. CASE u # rows[x].owner
  <2>1. HeldIn(rows', u) = HeldIn(rows, u)
    BY <1>2, <1>3, <1>4, <1>6, <1>7, HeldSame DEF FilesOf
  <2> QED BY <1>1, <1>5, <1>7, <2>1 DEF Charge
<1>8. CASE u = rows[x].owner
  <2> DEFINE old == SizesOf(rows)
             new == SizesOf(rows')
  <2>1. IsFiniteSet(F) /\ F \subseteq Live /\ \A y \in F : old[y] \in Int
    BY <1>2, FilesFinite
  <2>2. x \in F
    BY <1>1, <1>2, <1>8 DEF FilesOf, IsFolder, Row
  <2>3. \A y \in F : new[y] \in Int /\ new[y] = IF y = x THEN size ELSE old[y]
    BY <1>2, <1>3, <1>4, <2>1 DEF SizesOf
  <2>4. old[x] = rows[x].size
    BY <1>2 DEF SizesOf
  <2>5. IsFiniteSet(F \ {x})
    BY <2>1, FS_Subset
  <2> HIDE DEF F, old, new
  <2>6. SumFunctionOnSet(old, F) = old[x] + SumFunctionOnSet(old, F \ {x})
    BY <2>1, <2>2, SumSplits
  <2>7. SumFunctionOnSet(new, F) = size + SumFunctionOnSet(new, F \ {x})
    BY <2>1, <2>2, <2>3, SumSplits
  <2>8. SumFunctionOnSet(new, F \ {x}) = SumFunctionOnSet(old, F \ {x})
    BY <2>1, <2>3, <2>5, SumSame
  <2>9. SumFunctionOnSet(old, F \ {x}) \in Int
    BY <2>1, <2>5, SumIsInt
  <2>10. used'[u] = used[u] + (size - rows[x].size)
    BY <1>1, <1>5, <1>8 DEF Charge
  <2>11. rows[x].size \in Int
    BY <1>2 DEF Row
  <2>12. used[u] = rows[x].size + SumFunctionOnSet(old, F \ {x})
    BY <1>5, <2>4, <2>6 DEF HeldIn, F, old
  <2>13. HeldIn(rows', u) = size + SumFunctionOnSet(old, F \ {x})
    BY <1>6, <2>7, <2>8 DEF HeldIn, new
  <2> QED BY <2>9, <2>10, <2>11, <2>12, <2>13
<1> QED BY <1>7, <1>8

LEMMA ErasesQuota == ASSUME Inv, QuotaHeld, ErasesTree PROVE QuotaHeld'
<1>1. PICK x \in Live, R \in SUBSET Live : EraseRows(x, R)
  BY DEF ErasesTree
<1> DEFINE G == FilesIn(R)
<1>3. \A y \in R : y \in Live /\ rows[y].owner = rows[x].owner
  <2>1. R \subseteq TrashedOf(rows[x].owner) \cup {x}
    BY <1>1, BelowInside DEF EraseRows
  <2> QED BY <2>1 DEF TrashedOf
<1>4. DOMAIN rows' = Live \ R /\ \A y \in Live \ R : rows'[y] = rows[y]
  BY <1>1 DEF EraseRows
<1>5. used' = Charge(rows[x].owner, -SizeOf(R))
  BY <1>1 DEF EraseRows
<1>6. IsTable(rows) /\ DOMAIN rows = Live
  BY TableFacts
<1> SUFFICES ASSUME NEW u \in Users PROVE used'[u] = HeldIn(rows', u)
  BY DEF QuotaHeld
<1> DEFINE F == FilesOf(rows, u)
           f == SizesOf(rows)
<1>7. used[u] = HeldIn(rows, u) /\ used[u] \in Int /\ DOMAIN used = Users
  BY <1>6, FilesFinite DEF QuotaHeld, Inv, TypeOK
<1>8. CASE u # rows[x].owner
  <2>1. FilesOf(rows', u) = F
    BY <1>3, <1>4, <1>6, <1>8 DEF FilesOf
  <2>2. HeldIn(rows', u) = HeldIn(rows, u)
    BY <1>4, <1>6, <2>1, HeldSame DEF FilesOf
  <2> QED BY <1>5, <1>7, <1>8, <2>2 DEF Charge
<1>9. CASE u = rows[x].owner
  <2>1. IsFiniteSet(F) /\ F \subseteq Live /\ \A y \in F : f[y] = rows[y].size /\ f[y] \in Int
    BY <1>6, FilesFinite
  <2>2. G \subseteq F /\ FilesOf(rows', u) = F \ G
    BY <1>3, <1>4, <1>6, <1>9 DEF FilesOf, FilesIn, CountsBytes
  <2>3. SumFunctionOnSet(f, F) = SumFunctionOnSet(f, F \ G) + SumFunctionOnSet(f, G)
    BY <2>1, <2>2, SumParts
  <2>4. SumFunctionOnSet(SizesOf(rows'), F \ G) = SumFunctionOnSet(f, F \ G)
    <3>1. \A y \in F \ G : f[y] \in Int /\ f[y] = SizesOf(rows')[y]
      BY <1>4, <2>1, <2>2 DEF SizesOf, FilesOf
    <3>2. IsFiniteSet(F \ G)
      BY <2>1, FS_Subset
    <3> QED BY <3>1, <3>2, SumSame
  <2>5. /\ SumFunctionOnSet(f, F \ G) \in Int
        /\ SumFunctionOnSet(f, G) \in Int
    <3>1. IsFiniteSet(F \ G) /\ IsFiniteSet(G)
      BY <2>1, <2>2, FS_Subset
    <3>2. (\A y \in F \ G : f[y] \in Int) /\ \A y \in G : f[y] \in Int
      BY <2>1, <2>2
    <3> QED BY <3>1, <3>2, SumIsInt
  <2>6. SizeOf(R) = SumFunctionOnSet(f, G)
    BY <1>3, SizeOfIsSum
  <2>7. used'[u] = used[u] - SumFunctionOnSet(f, G)
    BY <1>5, <1>7, <1>9, <2>5, <2>6 DEF Charge
  <2>8. used[u] = SumFunctionOnSet(f, F)
    BY <1>7 DEF HeldIn
  <2>9. HeldIn(rows', u) = SumFunctionOnSet(f, F \ G)
    BY <2>2, <2>4 DEF HeldIn
  <2> HIDE DEF f, F, G
  <2> QED BY <2>3, <2>5, <2>7, <2>8, <2>9
<1> QED BY <1>8, <1>9

\* The table with the copies' rows.
HasCopies(owner, x, p, final, done, new) ==
  /\ DOMAIN rows' = Live \cup {new[y] : y \in done}
  /\ \A z \in Live : rows'[z] = rows[z]
  /\ \A y \in done : new[y] \in Ids /\ new[y] \notin Live
  /\ \A y, z \in done : new[y] = new[z] => y = z
  /\ \A y \in done :
       /\ rows'[new[y]].owner = owner
       /\ rows'[new[y]].parent = IF y = x THEN p ELSE new[rows[y].parent]
       /\ rows'[new[y]].name = IF y = x THEN final ELSE rows[y].name
       /\ rows'[new[y]].type = rows[y].type
       /\ rows'[new[y]].size = rows[y].size
       /\ rows'[new[y]].target = Nil
       /\ rows'[new[y]].deleted = Nil

LEMMA CopiedRows ==
  ASSUME Inv, NEW x, NEW p, NEW final, NEW owner,
         NEW done \in SUBSET Live, NEW new \in Injection(done, Ids \ issued),
         CopyRows(x, owner, p, final, done, new)
  PROVE  HasCopies(owner, x, p, final, done, new)
<1> DEFINE Source(z) == CHOOSE y \in DOMAIN new : new[y] = z
           CopyOf(y) == NewRow(owner, CopyParent(y, x, p, new),
                               IF y = x THEN final ELSE rows[y].name,
                               rows[y].type, rows[y].size, Nil)
           copies == {new[y] : y \in done}
<1>1. /\ DOMAIN new = done
      /\ \A y \in done : new[y] \in Ids /\ new[y] \notin Live
      /\ \A y, z \in done : new[y] = new[z] => y = z
  BY DEF Injection, IsInjective, Inv, TypeOK, RowsOK, Live
<1>2. rows' = [z \in Live \cup copies |-> IF z \in Live THEN rows[z] ELSE CopyOf(Source(z))]
  BY <1>1 DEF CopyRows, Copied
<1>3. \A y \in done : Source(new[y]) = y
  BY <1>1
<1>4. \A y \in done : rows'[new[y]] = CopyOf(y)
  BY <1>1, <1>2, <1>3
<1>5. \A y \in done :
        /\ CopyOf(y).owner = owner
        /\ CopyOf(y).parent = IF y = x THEN p ELSE new[rows[y].parent]
        /\ CopyOf(y).name = IF y = x THEN final ELSE rows[y].name
        /\ CopyOf(y).type = rows[y].type
        /\ CopyOf(y).size = rows[y].size
        /\ CopyOf(y).target = Nil
        /\ CopyOf(y).deleted = Nil
  BY DEF NewRow, CopyParent
<1> HIDE DEF CopyOf, Source
<1> QED BY <1>1, <1>2, <1>4, <1>5 DEF HasCopies

LEMMA CopiesQuota == ASSUME Inv, QuotaHeld, CopiesTree PROVE QuotaHeld'
<1>1. PICK x \in Live, owner \in Users, p \in Live \cup {Nil}, final \in FullName,
           done \in SUBSET Live :
      \E new \in Injection(done, Ids \ issued) : CopyRows(x, owner, p, final, done, new)
  BY DEF CopiesTree
<1>2. PICK new \in Injection(done, Ids \ issued) : CopyRows(x, owner, p, final, done, new)
  BY <1>1
<1>4. /\ rows' = Copied(owner, x, p, final, new)
      /\ used' = Charge(owner, SizeOf(done))
  BY <1>2 DEF CopyRows
<1> DEFINE copies == {new[y] : y \in done}
           G == FilesIn(done)
           fresh == {new[y] : y \in G}
<1>6. /\ DOMAIN rows' = Live \cup copies
      /\ \A z \in Live : rows'[z] = rows[z]
      /\ \A y \in done : new[y] \in Ids /\ new[y] \notin Live
      /\ \A y, z \in done : new[y] = new[z] => y = z
      /\ \A y \in done : /\ rows'[new[y]].owner = owner
                         /\ rows'[new[y]].type = rows[y].type
                         /\ rows'[new[y]].size = rows[y].size
  <2>1. HasCopies(owner, x, p, final, done, new)
    BY <1>2, CopiedRows
  <2> QED BY <2>1 DEF HasCopies
<1>7. IsTable(rows) /\ DOMAIN rows = Live
  BY TableFacts
<1> SUFFICES ASSUME NEW u \in Users PROVE used'[u] = HeldIn(rows', u)
  BY DEF QuotaHeld
<1> DEFINE F == FilesOf(rows, u)
           f == SizesOf(rows)
           g == SizesOf(rows')
<1>8. used[u] = HeldIn(rows, u) /\ used[u] \in Int /\ DOMAIN used = Users
  BY <1>7, FilesFinite DEF QuotaHeld, Inv, TypeOK
<1>9. CASE u # owner
  <2>1. FilesOf(rows', u) = F
    BY <1>6, <1>7, <1>9 DEF FilesOf
  <2>2. HeldIn(rows', u) = HeldIn(rows, u)
    BY <1>6, <1>7, <2>1, HeldSame DEF FilesOf
  <2> QED BY <1>4, <1>8, <1>9, <2>2 DEF Charge
<1>10. CASE u = owner
  <2>1. IsFiniteSet(F) /\ F \subseteq Live /\ \A y \in F : f[y] = rows[y].size /\ f[y] \in Int
    BY <1>7, FilesFinite
  <2>2. G \subseteq done /\ FilesOf(rows', u) = F \cup fresh /\ F \cap fresh = {}
    BY <1>6, <1>7, <1>10, <2>1 DEF FilesOf, FilesIn, CountsBytes
  <2>3. IsFiniteSet(G) /\ IsFiniteSet(fresh)
    <3>1. IsFiniteSet(G)
      BY <1>7, <2>2, FS_Subset DEF IsTable
    <3> QED BY <3>1, ImageFinite
  <2>4. \A y \in G : f[y] = rows[y].size /\ f[y] \in Int /\ g[new[y]] = f[y]
    BY <1>6, <1>7, <2>2 DEF SizesOf, IsTable
  <2>5. \A y \in F : g[y] = f[y]
    BY <1>6, <1>7, <2>1 DEF SizesOf
  <2> HIDE DEF F, G, f, g
  <2>6. SumFunctionOnSet(g, fresh) = SumFunctionOnSet(f, G)
    <3>1. \A y, z \in G : new[y] = new[z] => y = z
      BY <1>6, <2>2
    <3> QED BY <2>3, <2>4, <3>1, SumOfImages
  <2>7. SumFunctionOnSet(g, F) = SumFunctionOnSet(f, F)
    BY <2>1, <2>5, SumSame
  <2>8. SumFunctionOnSet(g, F \cup fresh)
          = SumFunctionOnSet(g, (F \cup fresh) \ fresh) + SumFunctionOnSet(g, fresh)
    <3>1. IsFiniteSet(F \cup fresh)
      BY <2>1, <2>3, FS_Union
    <3>2. \A y \in F \cup fresh : g[y] \in Int
      BY <2>1, <2>4, <2>5
    <3> HIDE DEF fresh
    <3> QED BY <3>1, <3>2, SumParts
  <2>9. (F \cup fresh) \ fresh = F
    BY <2>2
  <2>10. SizeOf(done) = SumFunctionOnSet(f, G)
    BY SizeOfIsSum DEF f, G
  <2>11. SumFunctionOnSet(f, G) \in Int
    BY <2>3, <2>4, SumIsInt
  <2>12. used'[u] = used[u] + SumFunctionOnSet(f, G)
    BY <1>4, <1>8, <1>10, <2>10 DEF Charge
  <2>13. used[u] = SumFunctionOnSet(f, F)
    BY <1>8 DEF HeldIn, f, F
  <2>14. HeldIn(rows', u) = SumFunctionOnSet(g, F \cup fresh)
    BY <2>2 DEF HeldIn, g
  <2>15. HeldIn(rows', u) = SumFunctionOnSet(f, F) + SumFunctionOnSet(f, G)
    BY <2>6, <2>7, <2>8, <2>9, <2>14
  <2> QED BY <2>12, <2>13, <2>15
<1> QED BY <1>9, <1>10

LEMMA KindsQuota == ASSUME Inv, QuotaHeld, [Next]_vars PROVE QuotaHeld'
<1>1. CASE MovesItem
  <2>1. PICK x \in Live, p \in Live \cup {Nil}, final \in FullName :
          rows' = [rows EXCEPT ![x].name = final, ![x].parent = p]
    BY <1>1 DEF MovesItem, MoveRow
  <2>2. \A y \in Live : rows[y] \in Row
    BY LiveFacts
  <2>3. \A y \in Live : /\ rows'[y].owner = rows[y].owner
                        /\ rows'[y].type = rows[y].type
                        /\ rows'[y].size = rows[y].size
    BY <2>1, <2>2 DEF Row, Live
  <2>4. UNCHANGED used /\ DOMAIN rows' = Live
    BY <1>1, <2>1 DEF MovesItem, MoveRow, Live
  <2> QED BY <2>3, <2>4, SameFilesQuota
<1>2. CASE TrashesTree
  <2>1. PICK marked : rows' = [y \in Live |-> IF y \in marked
                               THEN [rows[y] EXCEPT !.deleted = now] ELSE rows[y]]
    BY <1>2 DEF TrashesTree, TrashRows
  <2>2. \A y \in Live : rows[y] \in Row
    BY LiveFacts
  <2>3. \A y \in Live : /\ rows'[y].owner = rows[y].owner
                        /\ rows'[y].type = rows[y].type
                        /\ rows'[y].size = rows[y].size
    BY <2>1, <2>2 DEF Row
  <2> QED BY <1>2, <2>1, <2>3, SameFilesQuota DEF TrashesTree, TrashRows
<1>3. CASE RestoresTree
  <2>1. PICK x, p, final, back : rows' = Cleared(x, p, final, back)
    BY <1>3 DEF RestoresTree, RestoreRows
  <2>2. \A y \in Live : rows[y] \in Row
    BY LiveFacts
  <2>3. \A y \in Live : /\ rows'[y].owner = rows[y].owner
                        /\ rows'[y].type = rows[y].type
                        /\ rows'[y].size = rows[y].size
    BY <2>1, <2>2 DEF Row, Cleared
  <2>4. UNCHANGED used /\ DOMAIN rows' = Live
    BY <1>3, <2>1 DEF RestoresTree, RestoreRows, Cleared
  <2> QED BY <2>3, <2>4, SameFilesQuota
<1>4. CASE KeepsTable
  BY <1>4, SameFilesQuota DEF KeepsTable, Live
<1> QED BY <1>1, <1>2, <1>3, <1>4, StepKinds, AddsQuota, ResizesQuota, ErasesQuota, CopiesQuota

LEMMA InitQuota == Init => QuotaHeld
<1> SUFFICES ASSUME Init, NEW u \in Users PROVE used[u] = HeldIn(rows, u)
  BY DEF QuotaHeld
<1>1. FilesOf(rows, u) = {}
  BY DEF Init, FilesOf
<1> QED BY <1>1, SumOfNone DEF Init, HeldIn

\* storage_used_bytes is the sum of the sizes of the owner's files, whatever
\* sequence of uploads, saves, copies that stop halfway and purges that stop
\* halfway led there, although every operation only adds or takes a delta.
THEOREM CountersAreExact == Spec => []QuotaIsSum
<1>1. Inv /\ QuotaHeld => QuotaIsSum
  BY QuotaNow
<1>2. Inv /\ QuotaHeld /\ [Next]_vars => QuotaHeld'
  BY KindsQuota
<1> QED BY <1>1, <1>2, InitInv, NextInv, InitQuota, PTL DEF Spec

-----------------------------------------------------------------------------
(* What an update by one of the kinds leaves of each row. *)

\* The rows that stay where they are keep owner, type and target.
LEMMA MovedRows ==
  ASSUME Inv, NEW x \in Live, NEW p, NEW asked, NEW final, MoveRow(x, p, asked, final)
  PROVE  /\ DOMAIN rows' = Live
         /\ \A y \in Live : /\ rows'[y].owner = rows[y].owner
                            /\ rows'[y].type = rows[y].type
                            /\ rows'[y].target = rows[y].target
                            /\ rows'[y].deleted = rows[y].deleted
                            /\ rows'[y].parent = IF y = x THEN p ELSE rows[y].parent
                            /\ rows'[y].name = IF y = x THEN final ELSE rows[y].name
<1>1. \A y \in Live : rows[y] \in Row
  BY LiveFacts
<1> QED BY <1>1 DEF MoveRow, Row, Live

LEMMA ResizedRows ==
  ASSUME Inv, NEW x \in Live, NEW size, ResizeRow(x, size)
  PROVE  /\ DOMAIN rows' = Live
         /\ \A y \in Live : /\ rows'[y].owner = rows[y].owner
                            /\ rows'[y].type = rows[y].type
                            /\ rows'[y].target = rows[y].target
                            /\ rows'[y].deleted = rows[y].deleted
                            /\ rows'[y].parent = rows[y].parent
                            /\ rows'[y].name = rows[y].name
<1>1. \A y \in Live : rows[y] \in Row
  BY LiveFacts
<1> QED BY <1>1 DEF ResizeRow, Row, Live

LEMMA TrashedRows ==
  ASSUME Inv, NEW x \in Live, TrashRows(x)
  PROVE  /\ DOMAIN rows' = Live
         /\ \A y \in Live : /\ rows'[y].owner = rows[y].owner
                            /\ rows'[y].type = rows[y].type
                            /\ rows'[y].target = rows[y].target
                            /\ rows'[y].parent = rows[y].parent
                            /\ rows'[y].name = rows[y].name
                            /\ rows'[y].deleted = IF y \in Below(x, ActiveOf(rows[x].owner))
                                                  THEN now ELSE rows[y].deleted
<1> DEFINE marked == Below(x, ActiveOf(rows[x].owner))
<1>1. \A y \in Live : rows[y] \in Row
  BY LiveFacts
<1>2. rows' = [y \in Live |-> IF y \in marked THEN [rows[y] EXCEPT !.deleted = now] ELSE rows[y]]
  BY DEF TrashRows
<1> HIDE DEF marked
<1>3. DOMAIN rows' = Live
  BY <1>2
<1>4. ASSUME NEW y \in Live
      PROVE /\ rows'[y].owner = rows[y].owner
            /\ rows'[y].type = rows[y].type
            /\ rows'[y].target = rows[y].target
            /\ rows'[y].parent = rows[y].parent
            /\ rows'[y].name = rows[y].name
            /\ rows'[y].deleted = IF y \in marked THEN now ELSE rows[y].deleted
  BY <1>1, <1>2 DEF Row
<1> QED BY <1>3, <1>4 DEF marked

LEMMA ClearedRows ==
  ASSUME Inv, NEW x \in Live, NEW final, NEW s, RestoreRows(x, final, s)
  PROVE  /\ DOMAIN rows' = Live
         /\ \A y \in Live :
              /\ rows'[y].owner = rows[y].owner
              /\ rows'[y].type = rows[y].type
              /\ rows'[y].target = rows[y].target
              /\ rows'[y].parent = IF y = x THEN ParentBack(x) ELSE rows[y].parent
              /\ rows'[y].name = IF y = x THEN final ELSE rows[y].name
              /\ rows'[y].deleted = IF y = x \/ y \in Completed(s, Clashing(s))
                                    THEN Nil ELSE rows[y].deleted
<1> DEFINE back == Completed(s, Clashing(s))
           p == ParentBack(x)
<1>1. \A y \in Live : rows[y] \in Row
  BY LiveFacts
<1>2. rows' = Cleared(x, p, final, back)
  BY DEF RestoreRows
<1> HIDE DEF back, p
<1>3. DOMAIN rows' = Live
  BY <1>2 DEF Cleared
<1>4. ASSUME NEW y \in Live
      PROVE  /\ rows'[y].owner = rows[y].owner
             /\ rows'[y].type = rows[y].type
             /\ rows'[y].target = rows[y].target
             /\ rows'[y].parent = IF y = x THEN p ELSE rows[y].parent
             /\ rows'[y].name = IF y = x THEN final ELSE rows[y].name
             /\ rows'[y].deleted = IF y = x \/ y \in back THEN Nil ELSE rows[y].deleted
  BY <1>1, <1>2 DEF Row, Cleared
<1> QED BY <1>3, <1>4 DEF back, p

LEMMA ErasedRows ==
  ASSUME NEW x, NEW R, EraseRows(x, R)
  PROVE  DOMAIN rows' = Live \ R /\ \A y \in Live \ R : rows'[y] = rows[y]
BY DEF EraseRows

LEMMA AddedRows ==
  ASSUME Inv, NEW x \in Ids \ issued, NEW owner, NEW p, NEW asked, NEW final, NEW type,
         NEW size, NEW target, AddRow(x, owner, p, asked, final, type, size, target)
  PROVE  /\ DOMAIN rows' = Live \cup {x} /\ x \notin Live
         /\ \A y \in Live : rows'[y] = rows[y]
         /\ rows'[x].owner = owner /\ rows'[x].parent = p /\ rows'[x].name = final
         /\ rows'[x].type = type /\ rows'[x].target = target /\ rows'[x].deleted = Nil
<1> DEFINE row == NewRow(owner, p, final, type, size, target)
<1>1. x \notin Live
  BY DEF Inv, TypeOK, RowsOK, Live
<1>2. rows' = Insert(x, row)
  BY DEF AddRow
<1>3. /\ row.owner = owner /\ row.parent = p /\ row.name = final
      /\ row.type = type /\ row.target = target /\ row.deleted = Nil
  BY DEF NewRow
<1> HIDE DEF row
<1>4. DOMAIN rows' = Live \cup {x} /\ rows'[x] = row /\ \A y \in Live : rows'[y] = rows[y]
  BY <1>1, <1>2 DEF Insert
<1> QED BY <1>1, <1>3, <1>4

-----------------------------------------------------------------------------
(* Shortcuts. *)

LEMMA FlatStep == ASSUME Inv, ShortcutsAreFlat, [Next]_vars PROVE ShortcutsAreFlat'
<1> DEFINE Goal == \A y \in DOMAIN rows' : rows'[y].target # Nil =>
                     /\ rows'[y].target \in DOMAIN rows'
                     /\ rows'[rows'[y].target].target = Nil
                     /\ rows'[y].type = rows'[rows'[y].target].type
<1>1. \A y \in Live : rows[y].target # Nil =>
        /\ rows[y].target \in Live
        /\ rows[rows[y].target].target = Nil
        /\ rows[y].type = rows[rows[y].target].type
  BY DEF ShortcutsAreFlat, IsReal
<1>2. SUFFICES Goal
  BY DEF ShortcutsAreFlat, IsReal, Live
<1>3. ASSUME DOMAIN rows' = Live,
             \A y \in Live : rows'[y].target = rows[y].target /\ rows'[y].type = rows[y].type
      PROVE  Goal
  BY <1>1, <1>3
<1>4. CASE AddsItem
  <2>1. PICK x \in Ids \ issued, owner \in Users, p \in Live \cup {Nil},
             asked \in FullName, final \in FullName,
             type \in {"file", "folder"}, size \in Nat, target \in Ids \cup {Nil} :
          AddRow(x, owner, p, asked, final, type, size, target)
    BY <1>4 DEF AddsItem
  <2>2. /\ DOMAIN rows' = Live \cup {x} /\ x \notin Live
        /\ \A y \in Live : rows'[y] = rows[y]
        /\ rows'[x].type = type /\ rows'[x].target = target
    BY <2>1, AddedRows
  <2>3. target # Nil => /\ target \in Live /\ type = rows[target].type
                        /\ rows[target].target = Nil
    BY <2>1, <1>1 DEF AddRow, Active, IsReal
  <2> QED BY <1>1, <2>2, <2>3
<1>5. CASE MovesItem
  BY <1>3, <1>5, MovedRows DEF MovesItem
<1>6. CASE ResizesFile
  BY <1>3, <1>6, ResizedRows DEF ResizesFile
<1>7. CASE TrashesTree
  BY <1>3, <1>7, TrashedRows DEF TrashesTree
<1>8. CASE RestoresTree
  <2>1. PICK x \in Live, final \in FullName : \E s : RestoreRows(x, final, s)
    BY <1>8 DEF RestoresTree
  <2>2. PICK s : RestoreRows(x, final, s)
    BY <2>1
  <2> QED BY <1>3, <2>2, ClearedRows
<1>9. CASE ErasesTree
  <2>1. PICK x \in Live, R \in SUBSET Live : EraseRows(x, R)
    BY <1>9 DEF ErasesTree
  <2>2. \A y \in Live \ R : rows[y].target \notin R
    BY <2>1 DEF EraseRows
  <2>3. DOMAIN rows' = Live \ R /\ \A y \in Live \ R : rows'[y] = rows[y]
    BY <2>1, ErasedRows
  <2> QED BY <1>1, <2>2, <2>3
<1>10. CASE CopiesTree
  <2>1. PICK x \in Live, owner \in Users, p \in Live \cup {Nil}, final \in FullName,
             done \in SUBSET Live :
        \E new \in Injection(done, Ids \ issued) : CopyRows(x, owner, p, final, done, new)
    BY <1>10 DEF CopiesTree
  <2>2. PICK new \in Injection(done, Ids \ issued) : CopyRows(x, owner, p, final, done, new)
    BY <2>1
  <2>3. HasCopies(owner, x, p, final, done, new)
    BY <2>2, CopiedRows
  <2>4. /\ DOMAIN rows' = Live \cup {new[y] : y \in done}
        /\ \A z \in Live : rows'[z] = rows[z]
        /\ \A y \in done : rows'[new[y]].target = Nil
    BY <2>3 DEF HasCopies
  <2> QED BY <1>1, <2>4
<1>11. CASE KeepsTable
  BY <1>3, <1>11 DEF KeepsTable, Live
<1> HIDE DEF Goal
<1> QED BY <1>4, <1>5, <1>6, <1>7, <1>8, <1>9, <1>10, <1>11, StepKinds

\* A shortcut's target stays in the table and is never itself a shortcut, also
\* when a target is moved, trashed or deleted for good, when a shortcut is
\* copied or made of a shortcut, and when a copy takes one for a plain file.
THEOREM FlatShortcuts == Spec => []ShortcutsAreFlat
<1>1. Init => ShortcutsAreFlat
  BY DEF Init, ShortcutsAreFlat, Live
<1>2. Inv /\ ShortcutsAreFlat /\ [Next]_vars => ShortcutsAreFlat'
  BY FlatStep
<1> QED BY <1>1, <1>2, InitInv, NextInv, PTL DEF Spec

-----------------------------------------------------------------------------
(* Names. *)

LEMMA NameIsFree ==
  ASSUME NEW u, NEW p, NEW asked, NEW except, NEW final \in UniqueName(u, p, asked, except),
         NEW y \in Live \ {except}, Active(y), rows[y].owner = u, rows[y].parent = p
  PROVE  rows[y].name # final
BY DEF UniqueName, NameExists

\* UniqueActiveNames of a table.
NamesUnique(r) ==
  \A y, z \in DOMAIN r :
    /\ r[y].deleted = Nil /\ r[z].deleted = Nil
    /\ r[y].owner = r[z].owner /\ r[y].parent = r[z].parent /\ r[y].name = r[z].name
    => y = z

LEMMA NamesNow == UniqueActiveNames <=> NamesUnique(rows)
BY DEF UniqueActiveNames, NamesUnique, Active, Live

\* An item that gets a name no other active item in its folder has.
LEMMA NameJoins ==
  ASSUME NEW r, NEW q, NEW x, NamesUnique(r), DOMAIN q \subseteq DOMAIN r \cup {x},
         \A y \in DOMAIN q \ {x} :
           /\ q[y].deleted = Nil => r[y].deleted = Nil
           /\ q[y].owner = r[y].owner /\ q[y].parent = r[y].parent /\ q[y].name = r[y].name
           /\ q[y].deleted = Nil /\ q[y].owner = q[x].owner /\ q[y].parent = q[x].parent
                => q[y].name # q[x].name
  PROVE  NamesUnique(q)
BY DEF NamesUnique

LEMMA AddsNames == ASSUME Inv, NamesUnique(rows), AddsItem PROVE NamesUnique(rows')
<1>1. PICK x \in Ids \ issued, owner \in Users, p \in Live \cup {Nil},
           asked \in FullName, final \in FullName,
           type \in {"file", "folder"}, size \in Nat, target \in Ids \cup {Nil} :
        AddRow(x, owner, p, asked, final, type, size, target)
  BY DEF AddsItem
<1>2. /\ DOMAIN rows' = Live \cup {x} /\ x \notin Live
      /\ \A y \in Live : rows'[y] = rows[y]
      /\ rows'[x].owner = owner /\ rows'[x].parent = p /\ rows'[x].name = final
  BY <1>1, AddedRows
<1>3. final \in UniqueName(owner, p, asked, Nil) /\ Nil \notin Live
  BY <1>1, LiveFacts, NilIsNoValue DEF AddRow
<1>4. \A y \in Live : rows[y].deleted = Nil /\ rows[y].owner = owner /\ rows[y].parent = p
        => rows[y].name # final
  BY <1>3, NameIsFree DEF Active
<1> QED BY <1>2, <1>4, NameJoins DEF Live

LEMMA MovesNames == ASSUME Inv, NamesUnique(rows), MovesItem PROVE NamesUnique(rows')
<1>1. PICK x \in Live, p \in Live \cup {Nil}, asked \in FullName, final \in FullName :
        MoveRow(x, p, asked, final)
  BY DEF MovesItem
<1>2. /\ DOMAIN rows' = Live
      /\ \A y \in Live : /\ rows'[y].owner = rows[y].owner
                         /\ rows'[y].deleted = rows[y].deleted
                         /\ rows'[y].parent = IF y = x THEN p ELSE rows[y].parent
                         /\ rows'[y].name = IF y = x THEN final ELSE rows[y].name
  BY <1>1, MovedRows
<1>3. final \in UniqueName(rows[x].owner, p, asked, x)
  BY <1>1 DEF MoveRow
<1>4. \A y \in Live \ {x} :
        rows[y].deleted = Nil /\ rows[y].owner = rows[x].owner /\ rows[y].parent = p
        => rows[y].name # final
  BY <1>3, NameIsFree DEF Active
<1> QED BY <1>2, <1>4, NameJoins DEF Live

\* The first item of a walk is the one it starts from.
LEMMA WalkStartsAtTop ==
  ASSUME NEW x \in Ids, NEW S, S \subseteq Ids, NEW s \in Preorders(x, S),
         NEW k \in DOMAIN s, s[k] # x
  PROVE  k \in 2..Len(s) /\ Len(s) \in Nat
<1> DEFINE D == Below(x, S)
<1>1. s \in Listings(D) /\ IsPreorder(s, S) /\ D \subseteq Ids
  BY BelowInside DEF Preorders
<1>2. Len(s) \in Nat /\ DOMAIN s = 1..Len(s) /\ \A l \in DOMAIN s : s[l] \in D
  BY <1>1, ListingFacts
<1>3. PICK j \in DOMAIN s : s[j] = x
  BY <1>1, BelowContains, ListingFacts
<1>4. k # 1
  <2> SUFFICES ASSUME k = 1 PROVE FALSE
    OBVIOUS
  <2> DEFINE sub == [z \in {s[l] : l \in DOMAIN s} |-> Below(z, S)]
  <2>1. s[j] \in {s[l] : l \in DOMAIN s}
    BY <1>3
  <2>2. sub[s[j]] = D
    BY <1>3, <2>1
  <2>3. k < j
    BY <1>2, <1>3
  <2>4. s[k] \notin sub[s[j]]
    BY <1>1, <1>3, <2>3 DEF IsPreorder
  <2> QED BY <1>2, <2>2, <2>4
<1> QED BY <1>2, <1>4

\* What a restore clears never clashes: with what is active, nor with what it
\* has cleared before.
LEMMA RestoresNames == ASSUME Inv, NamesUnique(rows), RestoresTree PROVE NamesUnique(rows')
<1>1. PICK x \in Live, final \in FullName : \E s : RestoreRows(x, final, s)
  BY DEF RestoresTree
<1>2. PICK s : RestoreRows(x, final, s)
  BY <1>1
<1> DEFINE back == Completed(s, Clashing(s))
           p == ParentBack(x)
           S == TrashedOf(rows[x].owner)
<1>3. /\ DOMAIN rows' = Live
      /\ \A y \in Live : /\ rows'[y].owner = rows[y].owner
                         /\ rows'[y].parent = IF y = x THEN p ELSE rows[y].parent
                         /\ rows'[y].name = IF y = x THEN final ELSE rows[y].name
                         /\ rows'[y].deleted = IF y = x \/ y \in back THEN Nil ELSE rows[y].deleted
  BY <1>2, ClearedRows
<1>4. /\ final \in UniqueName(rows[x].owner, p, rows[x].name, x)
      /\ s \in Preorders(x, S) /\ Trashed(x)
  BY <1>2 DEF RestoreRows
<1>5. x \in Ids /\ S \subseteq Ids /\ S \subseteq Live
  BY LiveFacts DEF TrashedOf
<1>6. back \subseteq S \cup {x} /\ \A y \in back : y # x => rows[y].parent \in back
  BY <1>4, <1>5, CompletedInside, CompletedParents
<1>7. p = Nil \/ Active(p)
  BY DEF ParentBack
<1>8. p \notin back
  <2>1. Nil \notin S \cup {x}
    BY <1>5, NilIsNoValue
  <2>2. Active(p) => p \notin S \cup {x}
    BY <1>4 DEF TrashedOf, Active, Trashed
  <2> QED BY <1>6, <1>7, <2>1, <2>2
\* Two items that are active then, one of them cleared later than the other.
<1>9. ASSUME NEW k \in DOMAIN s, \A j \in 1..k : j \notin Clashing(s), s[k] # x,
             NEW z \in Live, z # s[k], Active(z) \/ (\E j \in 2..(k - 1) : z = s[j]),
             rows[z].owner = rows[s[k]].owner, rows[z].parent = rows[s[k]].parent,
             rows[z].name = rows[s[k]].name
      PROVE  FALSE
  <2>1. k \in 2..Len(s) /\ Len(s) \in Nat /\ k \in 1..k
    BY <1>4, <1>5, <1>9, WalkStartsAtTop
  <2>2. ~Clashes(s[k], {s[j] : j \in 2..(k - 1)})
    BY <1>9, <2>1 DEF Clashing
  <2> QED BY <1>9, <2>2 DEF Clashes
<1>10. ASSUME NEW y \in back, y # x, NEW z \in Live, z # y,
              Active(z) \/ z \in back \/ z = x,
              rows'[z].owner = rows'[y].owner, rows'[z].parent = rows'[y].parent,
              rows'[z].name = rows'[y].name
       PROVE  FALSE
  <2>1. y \in Live /\ rows'[y].parent = rows[y].parent /\ rows[y].parent \in back
    BY <1>3, <1>5, <1>6, <1>10
  <2>2. z # x
    BY <1>3, <1>8, <1>10, <2>1
  <2>3. /\ rows[z].owner = rows[y].owner /\ rows[z].parent = rows[y].parent
        /\ rows[z].name = rows[y].name
    BY <1>3, <1>10, <2>1, <2>2
  <2>4. PICK k \in DOMAIN s : s[k] = y /\ \A j \in 1..k : j \notin Clashing(s)
    BY DEF Completed
  <2>5. CASE Active(z)
    BY <1>9, <1>10, <2>3, <2>4, <2>5
  <2>6. CASE z \in back
    <3>1. PICK l \in DOMAIN s : s[l] = z /\ \A j \in 1..l : j \notin Clashing(s)
      BY <2>6 DEF Completed
    <3>2. k \in 2..Len(s) /\ l \in 2..Len(s) /\ Len(s) \in Nat
      BY <1>4, <1>5, <1>10, <2>2, <2>4, <3>1, WalkStartsAtTop
    <3>3. CASE l < k
      <4>1. l \in 2..(k - 1)
        BY <3>2, <3>3
      <4> QED BY <1>9, <1>10, <2>3, <2>4, <3>1, <4>1
    <3>4. CASE k < l
      <4>1. k \in 2..(l - 1)
        BY <3>2, <3>4
      <4> QED BY <1>9, <1>10, <2>1, <2>2, <2>3, <2>4, <3>1, <4>1
    <3>5. k # l
      BY <1>10, <2>4, <3>1
    <3> QED BY <3>2, <3>3, <3>4, <3>5
  <2> QED BY <1>10, <2>2, <2>5, <2>6
<1>11. ASSUME NEW z \in Live \ {x}, Active(z), rows[z].owner = rows[x].owner,
              rows[z].parent = p
       PROVE  rows[z].name # final
  BY <1>4, <1>11, NameIsFree
<1> HIDE DEF back, p, S
<1> SUFFICES ASSUME NEW y \in Live, NEW z \in Live, y # z,
                    rows'[y].deleted = Nil, rows'[z].deleted = Nil,
                    rows'[y].owner = rows'[z].owner, rows'[y].parent = rows'[z].parent,
                    rows'[y].name = rows'[z].name
             PROVE  FALSE
  BY <1>3 DEF NamesUnique
<1>12. /\ Active(y) \/ y \in back \/ y = x
       /\ Active(z) \/ z \in back \/ z = x
  BY <1>3 DEF Active
<1>13. CASE y \in back /\ y # x
  BY <1>10, <1>12, <1>13
<1>14. CASE z \in back /\ z # x
  BY <1>10, <1>12, <1>14
<1>15. CASE y = x /\ Active(z)
  BY <1>3, <1>11, <1>15
<1>16. CASE z = x /\ Active(y)
  BY <1>3, <1>11, <1>16
<1>17. CASE Active(y) /\ Active(z) /\ y # x /\ z # x
  BY <1>3, <1>17 DEF NamesUnique, Active, Live
<1> QED BY <1>12, <1>13, <1>14, <1>15, <1>16, <1>17

LEMMA CopiesNames == ASSUME Inv, NamesUnique(rows), CopiesTree PROVE NamesUnique(rows')
<1>1. PICK x \in Live, owner \in Users, p \in Live \cup {Nil}, final \in FullName,
           done \in SUBSET Live :
      \E new \in Injection(done, Ids \ issued) : CopyRows(x, owner, p, final, done, new)
  BY DEF CopiesTree
<1>2. PICK new \in Injection(done, Ids \ issued) : CopyRows(x, owner, p, final, done, new)
  BY <1>1
<1>3. HasCopies(owner, x, p, final, done, new)
  BY <1>2, CopiedRows
<1>4. /\ DOMAIN rows' = Live \cup {new[y] : y \in done}
      /\ \A z \in Live : rows'[z] = rows[z]
      /\ \A y \in done : new[y] \in Ids /\ new[y] \notin Live
      /\ \A y, z \in done : new[y] = new[z] => y = z
      /\ \A y \in done :
           /\ rows'[new[y]].owner = owner
           /\ rows'[new[y]].parent = IF y = x THEN p ELSE new[rows[y].parent]
           /\ rows'[new[y]].name = IF y = x THEN final ELSE rows[y].name
  BY <1>3 DEF HasCopies
<1>5. /\ final \in UniqueName(owner, p, rows[x].name, Nil)
      /\ \A y \in done : /\ rows[y].deleted = Nil /\ rows[y].owner = rows[x].owner
                         /\ y # x => rows[y].parent \in done
  BY <1>2 DEF CopyRows, Active
<1>6. Nil \notin Live /\ \A z \in Live : rows[z].parent \in Live \cup {Nil}
  BY LiveFacts, NilIsNoValue DEF Inv, OneOwnerPerTree
<1>7. \A z \in Live : rows[z].deleted = Nil /\ rows[z].owner = owner /\ rows[z].parent = p
        => rows[z].name # final
  BY <1>5, <1>6, NameIsFree DEF Active
<1> SUFFICES ASSUME NEW y \in DOMAIN rows', NEW z \in DOMAIN rows', y # z,
                    rows'[y].deleted = Nil, rows'[z].deleted = Nil,
                    rows'[y].owner = rows'[z].owner, rows'[y].parent = rows'[z].parent,
                    rows'[y].name = rows'[z].name
             PROVE  FALSE
  BY DEF NamesUnique
\* The copy of an item below the top shares its folder with such copies only.
<1>8. ASSUME NEW a \in done, a # x
      PROVE  \A b \in DOMAIN rows' : rows'[b].parent = rows'[new[a]].parent =>
               \E c \in done : b = new[c] /\ c # x /\ rows[c].parent = rows[a].parent
  <2> SUFFICES ASSUME NEW b \in DOMAIN rows', rows'[b].parent = rows'[new[a]].parent
               PROVE  \E c \in done : b = new[c] /\ c # x /\ rows[c].parent = rows[a].parent
    OBVIOUS
  <2> DEFINE q == new[rows[a].parent]
  <2>1. rows[a].parent \in done /\ rows'[new[a]].parent = q
    BY <1>4, <1>5, <1>8
  <2>2. q \notin Live \cup {Nil}
    BY <1>4, <2>1, NilIsNoValue
  <2>3. b \notin Live
    BY <1>4, <1>6, <2>1, <2>2
  <2>4. PICK c \in done : b = new[c]
    BY <1>4, <2>3
  <2>5. c # x
    BY <1>4, <2>1, <2>2, <2>4
  <2>6. rows[c].parent \in done /\ new[rows[c].parent] = q
    BY <1>4, <1>5, <2>1, <2>4, <2>5
  <2> QED BY <1>4, <2>1, <2>4, <2>5, <2>6
<1>9. ASSUME NEW a \in done, a # x, NEW b \in DOMAIN rows', b # new[a],
             rows'[b].parent = rows'[new[a]].parent, rows'[b].name = rows'[new[a]].name
      PROVE  FALSE
  <2>1. PICK c \in done : b = new[c] /\ c # x /\ rows[c].parent = rows[a].parent
    BY <1>8, <1>9
  <2>2. rows[c].name = rows[a].name
    BY <1>4, <1>9, <2>1
  <2> QED BY <1>5, <1>9, <2>1, <2>2 DEF NamesUnique, Live
<1>10. CASE y \in Live /\ z \in Live
  BY <1>4, <1>10 DEF NamesUnique, Live
<1>11. CASE \E a \in done : a # x /\ (y = new[a] \/ z = new[a])
  BY <1>9, <1>11
<1>12. CASE x \in done /\ y = new[x] /\ z \in Live
  BY <1>4, <1>7, <1>12
<1>13. CASE x \in done /\ z = new[x] /\ y \in Live
  BY <1>4, <1>7, <1>13
<1> QED BY <1>4, <1>10, <1>11, <1>12, <1>13

LEMMA NamesStep == ASSUME Inv, NamesUnique(rows), [Next]_vars PROVE NamesUnique(rows')
<1>1. CASE ResizesFile
  <2>1. PICK x \in Live, size \in Nat : ResizeRow(x, size)
    BY <1>1 DEF ResizesFile
  <2>2. /\ DOMAIN rows' = Live
        /\ \A y \in Live : /\ rows'[y].owner = rows[y].owner
                           /\ rows'[y].deleted = rows[y].deleted
                           /\ rows'[y].parent = rows[y].parent
                           /\ rows'[y].name = rows[y].name
    BY <2>1, ResizedRows
  <2> QED BY <2>2 DEF NamesUnique, Live
<1>2. CASE TrashesTree
  <2>1. PICK x \in Live : TrashRows(x)
    BY <1>2 DEF TrashesTree
  <2>2. now # Nil
    BY LiveFacts, NilIsNoValue
  <2>3. /\ DOMAIN rows' = Live
        /\ \A y \in Live : /\ rows'[y].owner = rows[y].owner
                           /\ rows'[y].deleted = Nil => rows[y].deleted = Nil
                           /\ rows'[y].parent = rows[y].parent
                           /\ rows'[y].name = rows[y].name
    BY <2>1, <2>2, TrashedRows
  <2> QED BY <2>3 DEF NamesUnique, Live
<1>3. CASE ErasesTree
  <2>1. PICK x \in Live, R \in SUBSET Live : EraseRows(x, R)
    BY <1>3 DEF ErasesTree
  <2>2. DOMAIN rows' = Live \ R /\ \A y \in Live \ R : rows'[y] = rows[y]
    BY <2>1, ErasedRows
  <2> QED BY <2>2 DEF NamesUnique, Live
<1>4. CASE KeepsTable
  BY <1>4 DEF KeepsTable
<1> QED BY <1>1, <1>2, <1>3, <1>4, StepKinds, AddsNames, MovesNames, RestoresNames, CopiesNames

\* Two active items of one folder never have the same name, for any names that
\* are asked for and any restore that stops halfway: the unique index on the
\* table is never what an insert, a move or a restore of a top item runs into.
THEOREM ActiveNamesAreUnique == Spec => []UniqueActiveNames
<1>1. Init => NamesUnique(rows)
  BY DEF Init, NamesUnique
<1>2. Inv /\ NamesUnique(rows) /\ [Next]_vars => NamesUnique(rows)'
  BY NamesStep
<1>3. NamesUnique(rows) => UniqueActiveNames
  BY NamesNow
<1> QED BY <1>1, <1>2, <1>3, InitInv, NextInv, PTL DEF Spec

-----------------------------------------------------------------------------
(* Walks up the tree.  A set of rows each of whose parents is again in the *)
(* set is a loop; a table has none when the walks end.                     *)

NoLoop(r) == \A C \in SUBSET DOMAIN r : C # {} => \E y \in C : r[y].parent \notin C

\* No shortcut is anybody's parent: nothing but its own row moves with one.
ParentsAreReal == \A x \in Live : rows[x].parent # Nil => IsReal(rows[x].parent)

LEMMA AboveFacts ==
  ASSUME Inv, NEW x \in Live
  PROVE  /\ x \in Above(x) /\ Above(x) \subseteq Live
         /\ \A y \in Above(x) : rows[y].parent # Nil => rows[y].parent \in Above(x)
<1>1. x \in Above(x) /\ Above(x) \subseteq Live
  BY DEF Above
<1>2. ASSUME NEW y \in Above(x), rows[y].parent # Nil PROVE rows[y].parent \in Above(x)
  <2>1. rows[y].parent \in Live
    BY <1>1, <1>2 DEF Inv, OneOwnerPerTree
  <2> QED BY <1>2, <2>1 DEF Above, ClosedUp
<1> QED BY <1>1, <1>2

LEMMA WalksEndNow == ASSUME Inv, NoLoop(rows) PROVE TreeIsAcyclic
<1> SUFFICES ASSUME NEW x \in Live PROVE \E z \in Above(x) : rows[z].parent = Nil
  BY DEF TreeIsAcyclic, Rooted
<1>1. Above(x) \in SUBSET DOMAIN rows /\ Above(x) # {}
  BY AboveFacts DEF Live
<1>2. PICK y \in Above(x) : rows[y].parent \notin Above(x)
  BY <1>1 DEF NoLoop
<1> QED BY <1>2, AboveFacts

\* A loop of the next table has no row in it whose parent is what it was.
LEMMA OldLoop ==
  ASSUME NoLoop(rows), NEW D \in SUBSET Live, \A y \in D : rows[y].parent \in D
  PROVE  D = {}
BY DEF NoLoop, Live

LEMMA MovesLoop == ASSUME Inv, ParentsAreReal, NoLoop(rows), MovesItem,
                          "shortcut_parent" \notin Untidy
                   PROVE  NoLoop(rows')
<1>1. PICK x \in Live, p \in Live \cup {Nil}, asked \in FullName, final \in FullName :
        MoveRow(x, p, asked, final)
  BY DEF MovesItem
<1>2. /\ DOMAIN rows' = Live
      /\ \A y \in Live : rows'[y].parent = IF y = x THEN p ELSE rows[y].parent
  BY <1>1, MovedRows
<1>3. /\ p # Nil /\ IsFolder(x) /\ IsReal(x) => x \notin Above(p)
      /\ p # Nil => IsFolder(p) /\ IsReal(p)
  BY <1>1 DEF MoveRow, CheckNotSelfOrDescendant, CanHold, TidyParent
<1> SUFFICES ASSUME NEW C \in SUBSET Live, \A y \in C : rows'[y].parent \in C PROVE C = {}
  BY <1>2 DEF NoLoop
<1>4. Nil \notin Live
  BY LiveFacts, NilIsNoValue
<1>5. CASE x \notin C
  BY <1>2, <1>5, OldLoop
<1>6. CASE x \in C
  <2>1. p \in C /\ p # Nil
    BY <1>2, <1>4, <1>6
  <2>2. CASE IsFolder(x) /\ IsReal(x)
    <3> DEFINE D == C \cap Above(p)
    <3>1. p \in D /\ x \notin D
      BY <1>3, <2>1, <2>2, AboveFacts
    <3>2. ASSUME NEW y \in D PROVE rows[y].parent \in D
      <4>1. rows[y].parent \in C
        BY <1>2, <3>1
      <4> QED BY <1>4, <2>1, <4>1, AboveFacts
    <3> QED BY <3>1, <3>2, OldLoop
  <2>3. CASE ~(IsFolder(x) /\ IsReal(x))
    <3>1. \A y \in Live : rows[y].parent # x
      BY <1>4, <2>3 DEF ParentsAreReal, Inv, OneOwnerPerTree
    <3>2. p # x
      BY <1>3, <2>1, <2>3
    <3>3. \A y \in C \ {x} : rows[y].parent \in C \ {x}
      BY <1>2, <3>1
    <3> QED BY <2>1, <3>2, <3>3, OldLoop
  <2> QED BY <2>2, <2>3
<1> QED BY <1>5, <1>6

LEMMA CopiesLoop == ASSUME Inv, NoLoop(rows), CopiesTree PROVE NoLoop(rows')
<1>1. PICK x \in Live, owner \in Users, p \in Live \cup {Nil}, final \in FullName,
           done \in SUBSET Live :
      \E new \in Injection(done, Ids \ issued) : CopyRows(x, owner, p, final, done, new)
  BY DEF CopiesTree
<1>2. PICK new \in Injection(done, Ids \ issued) : CopyRows(x, owner, p, final, done, new)
  BY <1>1
<1>3. HasCopies(owner, x, p, final, done, new)
  BY <1>2, CopiedRows
<1>4. /\ DOMAIN rows' = Live \cup {new[y] : y \in done}
      /\ \A z \in Live : rows'[z] = rows[z]
      /\ \A y \in done : new[y] \in Ids /\ new[y] \notin Live
      /\ \A y, z \in done : new[y] = new[z] => y = z
      /\ \A y \in done : rows'[new[y]].parent = IF y = x THEN p ELSE new[rows[y].parent]
  BY <1>3 DEF HasCopies
<1>5. \A y \in done : y # x => rows[y].parent \in done
  BY <1>2 DEF CopyRows
<1>6. Nil \notin Ids /\ Nil \notin Live
  BY LiveFacts, NilIsNoValue
<1> SUFFICES ASSUME NEW C \in SUBSET DOMAIN rows', \A y \in C : rows'[y].parent \in C
             PROVE  C = {}
  BY DEF NoLoop
<1>7. C \cap Live = {}
  <2>1. \A y \in C \cap Live : rows[y].parent \in C \cap Live
    BY <1>4, <1>6 DEF Inv, OneOwnerPerTree
  <2> QED BY <2>1, OldLoop
<1>8. \A y \in C : \E z \in done : y = new[z]
  BY <1>4, <1>7
<1> DEFINE E == {y \in done : new[y] \in C}
<1>9. ASSUME NEW y \in E PROVE rows[y].parent \in E
  <2>1. y # x
    BY <1>4, <1>6, <1>7, <1>8
  <2>2. rows[y].parent \in done /\ new[rows[y].parent] \in C
    BY <1>4, <1>5, <2>1
  <2> QED BY <2>2
<1>10. E = {}
  BY <1>9, OldLoop
<1> QED BY <1>8, <1>10

LEMMA LoopStep ==
  ASSUME Inv, ParentsAreReal, NoLoop(rows), [Next]_vars, "shortcut_parent" \notin Untidy
  PROVE  NoLoop(rows')
<1>0. Nil \notin Live /\ \A y \in Live : rows[y].parent \in Live \cup {Nil}
  BY LiveFacts, NilIsNoValue DEF Inv, OneOwnerPerTree
\* Where parents stay, or an item goes to the root, no loop comes up.
<1>1. ASSUME DOMAIN rows' \subseteq Live,
             \A y \in DOMAIN rows' : rows'[y].parent = rows[y].parent \/ rows'[y].parent = Nil
      PROVE  NoLoop(rows')
  <2> SUFFICES ASSUME NEW C \in SUBSET DOMAIN rows', \A y \in C : rows'[y].parent \in C
               PROVE  C = {}
    BY DEF NoLoop
  <2>1. \A y \in C : rows[y].parent \in C
    BY <1>0, <1>1
  <2> QED BY <1>1, <2>1, OldLoop
<1>2. CASE AddsItem
  <2>1. PICK x \in Ids \ issued, owner \in Users, p \in Live \cup {Nil},
             asked \in FullName, final \in FullName,
             type \in {"file", "folder"}, size \in Nat, target \in Ids \cup {Nil} :
          AddRow(x, owner, p, asked, final, type, size, target)
    BY <1>2 DEF AddsItem
  <2>2. /\ DOMAIN rows' = Live \cup {x} /\ x \notin Live
        /\ \A y \in Live : rows'[y] = rows[y]
        /\ rows'[x].owner = owner /\ rows'[x].parent = p /\ rows'[x].name = final
        /\ rows'[x].type = type /\ rows'[x].target = target /\ rows'[x].deleted = Nil
    BY ONLY Inv, <2>1, AddedRows
  <2>3. x # Nil
    BY <2>1, NilIsNoValue
  <2> SUFFICES ASSUME NEW C \in SUBSET DOMAIN rows', \A y \in C : rows'[y].parent \in C
               PROVE  C = {}
    BY DEF NoLoop
  <2>4. \A y \in C \ {x} : rows[y].parent \in C \ {x}
    BY <1>0, <2>2, <2>3
  <2>5. C \ {x} = {}
    BY <2>2, <2>4, OldLoop
  <2>6. x \in C => p \in C /\ p # x
    BY <2>2, <2>3
  <2> QED BY <2>5, <2>6
<1>3. CASE RestoresTree
  <2>1. PICK x \in Live, final \in FullName : \E s : RestoreRows(x, final, s)
    BY <1>3 DEF RestoresTree
  <2>2. /\ DOMAIN rows' = Live
        /\ \A y \in Live : rows'[y].parent = IF y = x THEN ParentBack(x) ELSE rows[y].parent
    BY <2>1, ClearedRows
  <2> QED BY <1>1, <2>2 DEF ParentBack
<1>4. CASE ErasesTree
  <2>1. PICK x \in Live, R \in SUBSET Live : EraseRows(x, R)
    BY <1>4 DEF ErasesTree
  <2>2. DOMAIN rows' = Live \ R /\ \A y \in Live \ R : rows'[y] = rows[y]
    BY <2>1, ErasedRows
  <2> QED BY <1>1, <2>2
<1>5. CASE ResizesFile
  BY <1>1, <1>5, ResizedRows DEF ResizesFile
<1>6. CASE TrashesTree
  BY <1>1, <1>6, TrashedRows DEF TrashesTree
<1>7. CASE KeepsTable
  BY <1>7 DEF KeepsTable
<1> QED BY <1>2, <1>3, <1>4, <1>5, <1>6, <1>7, StepKinds, MovesLoop, CopiesLoop

LEMMA RealStep ==
  ASSUME Inv, ParentsAreReal, [Next]_vars, "shortcut_parent" \notin Untidy
  PROVE  ParentsAreReal'
<1> DEFINE Goal == \A y \in DOMAIN rows' : rows'[y].parent # Nil =>
                     rows'[rows'[y].parent].target = Nil
<1> SUFFICES Goal
  BY DEF ParentsAreReal, IsReal, Live
<1>0. \A y \in Live : rows[y].parent # Nil => /\ rows[y].parent \in Live
                                              /\ rows[rows[y].parent].target = Nil
  BY DEF Inv, OneOwnerPerTree, ParentsAreReal, IsReal
<1>1. ASSUME DOMAIN rows' = Live, \A y \in Live : rows'[y].target = rows[y].target,
             \A y \in Live : \/ rows'[y].parent = rows[y].parent
                             \/ /\ rows'[y].parent \in Live
                                /\ rows[rows'[y].parent].target = Nil
                             \/ rows'[y].parent = Nil
      PROVE  Goal
  BY <1>0, <1>1
<1>2. CASE AddsItem
  <2>1. PICK x \in Ids \ issued, owner \in Users, p \in Live \cup {Nil},
             asked \in FullName, final \in FullName,
             type \in {"file", "folder"}, size \in Nat, target \in Ids \cup {Nil} :
          AddRow(x, owner, p, asked, final, type, size, target)
    BY <1>2 DEF AddsItem
  <2>2. /\ DOMAIN rows' = Live \cup {x} /\ x \notin Live
        /\ \A y \in Live : rows'[y] = rows[y]
        /\ rows'[x].parent = p
    BY <2>1, AddedRows
  <2>3. p # Nil => p \in Live /\ rows[p].target = Nil
    BY <2>1 DEF AddRow, TidyParent, IsReal
  <2> QED BY <1>0, <2>2, <2>3
<1>3. CASE MovesItem
  <2>1. PICK x \in Live, p \in Live \cup {Nil}, asked \in FullName, final \in FullName :
          MoveRow(x, p, asked, final)
    BY <1>3 DEF MovesItem
  <2>2. p # Nil => p \in Live /\ rows[p].target = Nil
    BY <2>1 DEF MoveRow, TidyParent, IsReal
  <2> QED BY <1>1, <2>1, <2>2, MovedRows
<1>4. CASE RestoresTree
  <2>1. PICK x \in Live, final \in FullName : \E s : RestoreRows(x, final, s)
    BY <1>4 DEF RestoresTree
  <2>2. PICK s : RestoreRows(x, final, s)
    BY <2>1
  <2>3. /\ DOMAIN rows' = Live
        /\ \A y \in Live :
             /\ rows'[y].target = rows[y].target
             /\ rows'[y].parent = IF y = x THEN ParentBack(x) ELSE rows[y].parent
    BY <2>2, ClearedRows
  <2> QED BY <1>1, <2>3 DEF ParentBack
<1>5. CASE ErasesTree
  <2>1. PICK x \in Live, R \in SUBSET Live : EraseRows(x, R)
    BY <1>5 DEF ErasesTree
  <2>2. DOMAIN rows' = Live \ R /\ \A y \in Live \ R : rows'[y] = rows[y]
    BY <2>1, ErasedRows
  <2>3. \A y \in Live \ R : rows[y].parent \notin R
    BY <2>1 DEF EraseRows
  <2> QED BY <1>0, <2>2, <2>3
<1>6. CASE CopiesTree
  <2>1. PICK x \in Live, owner \in Users, p \in Live \cup {Nil}, final \in FullName,
             done \in SUBSET Live :
        \E new \in Injection(done, Ids \ issued) : CopyRows(x, owner, p, final, done, new)
    BY <1>6 DEF CopiesTree
  <2>2. PICK new \in Injection(done, Ids \ issued) : CopyRows(x, owner, p, final, done, new)
    BY <2>1
  <2>3. HasCopies(owner, x, p, final, done, new)
    BY <2>2, CopiedRows
  <2>4. /\ DOMAIN rows' = Live \cup {new[y] : y \in done}
        /\ \A z \in Live : rows'[z] = rows[z]
        /\ \A y \in done : /\ rows'[new[y]].parent = IF y = x THEN p ELSE new[rows[y].parent]
                           /\ rows'[new[y]].target = Nil
    BY <2>3 DEF HasCopies
  <2>5. /\ \A y \in done : y # x => rows[y].parent \in done
        /\ p # Nil => p \in Live /\ rows[p].target = Nil
    BY <2>2 DEF CopyRows, TidyParent, IsReal
  <2> QED BY <1>0, <2>4, <2>5
<1>7. CASE ResizesFile
  BY <1>1, <1>7, ResizedRows DEF ResizesFile
<1>8. CASE TrashesTree
  BY <1>1, <1>8, TrashedRows DEF TrashesTree
<1>9. CASE KeepsTable
  BY <1>1, <1>9 DEF KeepsTable, Live
<1> HIDE DEF Goal
<1> QED BY <1>2, <1>3, <1>4, <1>5, <1>6, <1>7, <1>8, <1>9, StepKinds

\* Every walk up parent_id ends at the owner's root, as long as no client gives
\* a folder shortcut's id for a parent: no order of moves and copies, of whole
\* subtrees into one another, makes a cycle that pathOf would run round.
THEOREM WalksEnd ==
  ASSUME "shortcut_parent" \notin Untidy
  PROVE  Spec => []TreeIsAcyclic
<1>1. Init => ParentsAreReal /\ NoLoop(rows)
  BY DEF Init, ParentsAreReal, NoLoop, Live
<1>2. Inv /\ ParentsAreReal /\ NoLoop(rows) /\ [Next]_vars => ParentsAreReal' /\ NoLoop(rows)'
  BY LoopStep, RealStep
<1>3. Inv /\ NoLoop(rows) => TreeIsAcyclic
  BY WalksEndNow
<1> QED BY <1>1, <1>2, <1>3, InitInv, NextInv, PTL DEF Spec

-----------------------------------------------------------------------------
(* The scheduled purge.  An item in trash was deleted no later than the     *)
(* folder in trash it is in, and what the purge has on its list is still in *)
(* trash as it was listed, or gone.                                         *)

Aged ==
  \A x \in Live : Trashed(x) =>
    /\ rows[x].deleted <= now
    /\ rows[x].parent # Nil /\ Trashed(rows[x].parent) =>
         rows[x].deleted <= rows[rows[x].parent].deleted

Listed ==
  /\ DOMAIN sweep \subseteq issued
  /\ \A x \in DOMAIN sweep :
       /\ sweep[x] < now - Retention
       /\ x \in Live => Trashed(x) /\ rows[x].deleted = sweep[x]

\* The clock goes on, and the list only changes where a purge begins or goes on.
ShortensList == DOMAIN sweep' \subseteq DOMAIN sweep /\ \A x \in DOMAIN sweep' : sweep'[x] = sweep[x]

LEMMA CreateClock == ASSUME NEW x, Create(x) PROVE UNCHANGED <<sweep, now>>
<1>1. ASSUME NEW u, NEW p, NEW name, CreateFolder(u, p, name, x) PROVE UNCHANGED <<sweep, now>>
  BY <1>1 DEF CreateFolder
<1>2. ASSUME NEW u, NEW p, NEW t, CreateShortcut(u, t, p, x) PROVE UNCHANGED <<sweep, now>>
  BY <1>2 DEF CreateShortcut
<1>3. ASSUME NEW u, NEW p, NEW t, CopyFile(u, t, p, x) PROVE UNCHANGED <<sweep, now>>
  BY <1>3 DEF CopyFile
<1>4. ASSUME NEW u, NEW p, NEW name, NEW size, FinalizeUpload(u, p, name, size, x)
      PROVE  UNCHANGED <<sweep, now>>
  BY <1>4 DEF FinalizeUpload, AddFile
<1>5. ASSUME NEW u, NEW p, NEW name, NEW size, CreateBlankDocument(u, p, name, size, x)
      PROVE  UNCHANGED <<sweep, now>>
  BY <1>5 DEF CreateBlankDocument, AddFile
<1>6. ASSUME NEW u, NEW p, NEW t, CopyShortcut(u, t, p, x) PROVE UNCHANGED <<sweep, now>>
  BY <1>2, <1>6 DEF CopyShortcut
<1> QED BY <1>1, <1>2, <1>3, <1>4, <1>5, <1>6 DEF Create

LEMMA ChangeClock == ASSUME NEW x \in Live, Change(x) PROVE UNCHANGED now /\ ShortensList
<1>1. ASSUME NEW size, ReplaceContent(x, size) PROVE UNCHANGED <<sweep, now>>
  BY <1>1 DEF ReplaceContent
<1>2. ASSUME NEW name, NEW p, Move(x, name, p) PROVE UNCHANGED <<sweep, now>>
  BY <1>2 DEF Move
<1>3. ASSUME NEW u, NEW p, CopyFolder(u, x, p) PROVE UNCHANGED <<sweep, now>>
  BY <1>3 DEF CopyFolder
<1>4. ASSUME Delete(x) PROVE UNCHANGED <<sweep, now>>
  BY <1>4 DEF Delete
<1>5. ASSUME Restore(x) PROVE UNCHANGED <<sweep, now>>
  BY <1>5 DEF Restore
<1>6. ASSUME PermanentlyDelete(x) PROVE UNCHANGED <<sweep, now>>
  BY <1>6 DEF PermanentlyDelete
<1>7. ASSUME PurgeItem(x) PROVE Unlist(x) /\ UNCHANGED now
  BY <1>7 DEF PurgeItem
<1>8. UNCHANGED now /\ (UNCHANGED sweep \/ Unlist(x))
  BY <1>1, <1>2, <1>3, <1>4, <1>5, <1>6, <1>7 DEF Change
<1> QED BY <1>8 DEF ShortensList, Unlist

LEMMA ClockStep ==
  ASSUME Inv, [Next]_vars
  PROVE  /\ now \in Nat /\ now' \in Nat /\ now <= now'
         /\ ShortensList \/ PurgeBegin
<1>1. CASE UNCHANGED <<sweep, now>> \/ (UNCHANGED now /\ ShortensList)
  BY <1>1, NumbersAreNat DEF Inv, TypeOK, ShortensList
<1>2. CASE PurgeBegin
  BY <1>2, NumbersAreNat DEF Inv, TypeOK, PurgeBegin
<1>3. CASE Restart \/ Tick
  BY <1>3, NumbersAreNat DEF Inv, TypeOK, Restart, Tick, ShortensList
<1>4. ASSUME NEW y \in DOMAIN sweep, PurgeSkip(y) PROVE UNCHANGED now /\ ShortensList
  BY <1>4 DEF PurgeSkip, Unlist, ShortensList
<1>5. CASE \E x \in Live : CreateShare(x) \/ RevokeShare(x)
  BY <1>1, <1>5 DEF CreateShare, RevokeShare
<1>6. CASE UNCHANGED vars
  BY <1>1, <1>6 DEF vars
<1> QED BY <1>1, <1>2, <1>3, <1>4, <1>5, <1>6, CreateClock, ChangeClock DEF Next

\* A deletion is never after that of a trashed folder further up.
LEMMA AgedBelow ==
  ASSUME Inv, Aged, NEW x \in Live, Trashed(x), NEW u, NEW y \in Below(x, TrashedOf(u))
  PROVE  /\ y \in Live /\ Trashed(y)
         /\ rows[y].deleted <= rows[x].deleted
<1> DEFINE S == TrashedOf(u)
           C == {z \in S \cup {x} : rows[z].deleted <= rows[x].deleted}
<1>1. S \cup {x} \subseteq Live /\ \A z \in S \cup {x} : Trashed(z)
  BY DEF TrashedOf
<1>2. \A z \in S \cup {x} : rows[z].deleted \in Nat
  BY <1>1, LiveFacts DEF Row, Trashed
<1>3. x \in C
  BY <1>2
<1>4. ClosedDown(C, S)
  <2> SUFFICES ASSUME NEW z \in S, rows[z].parent \in C PROVE z \in C
    BY DEF ClosedDown
  <2>1. rows[z].parent \in Live /\ Trashed(rows[z].parent) /\ Trashed(z) /\ z \in Live
    BY <1>1
  <2>2. rows[z].parent # Nil
    BY <2>1, LiveFacts, NilIsNoValue
  <2>3. rows[z].deleted <= rows[rows[z].parent].deleted
    BY <2>1, <2>2 DEF Aged
  <2>4. rows[rows[z].parent].deleted <= rows[x].deleted
    OBVIOUS
  <2>5. /\ rows[z].deleted \in Nat /\ rows[rows[z].parent].deleted \in Nat
        /\ rows[x].deleted \in Nat
    BY <1>2
  <2> HIDE DEF S
  <2> QED BY <2>3, <2>4, <2>5
<1>5. y \in C
  BY <1>3, <1>4 DEF Below
<1> QED BY <1>1, <1>5

LEMMA BelowGrows ==
  ASSUME NEW x, NEW S, NEW T, S \subseteq T
  PROVE  Below(x, S) \subseteq Below(x, T)
<1> SUFFICES ASSUME NEW z \in Below(x, S), NEW C \in SUBSET (T \cup {x}),
                    x \in C, ClosedDown(C, T)
             PROVE  z \in C
  BY DEF Below
<1>1. C \cap (S \cup {x}) \in SUBSET (S \cup {x}) /\ x \in C \cap (S \cup {x})
  OBVIOUS
<1>2. ClosedDown(C \cap (S \cup {x}), S)
  BY DEF ClosedDown
<1> QED BY <1>1, <1>2 DEF Below

LEMMA AgedStep == ASSUME Inv, Aged, [Next]_vars PROVE Aged'
<1> DEFINE OldEnough(y) ==
             rows'[y].deleted # Nil =>
               /\ rows'[y].deleted <= now'
               /\ rows'[y].parent \in DOMAIN rows' /\ rows'[rows'[y].parent].deleted # Nil =>
                    rows'[y].deleted <= rows'[rows'[y].parent].deleted
<1> SUFFICES ASSUME NEW y \in DOMAIN rows' PROVE OldEnough(y)
  BY DEF Aged, Trashed, Live
<1>0. /\ now \in Nat /\ now' \in Nat /\ now <= now'
      /\ Nil \notin Nat
      /\ \A z \in Live : rows[z].deleted # Nil =>
           /\ rows[z].deleted \in Nat
           /\ rows[z].deleted <= now
           /\ rows[z].parent # Nil => rows[z].parent \in Live
           /\ rows[z].parent \in Live /\ rows[rows[z].parent].deleted # Nil =>
                rows[z].deleted <= rows[rows[z].parent].deleted
  <2>1. ASSUME NEW z \in Live, rows[z].deleted # Nil
        PROVE  /\ rows[z].deleted \in Nat
               /\ rows[z].deleted <= now
               /\ rows[z].parent # Nil => rows[z].parent \in Live
               /\ rows[z].parent \in Live /\ rows[rows[z].parent].deleted # Nil =>
                    rows[z].deleted <= rows[rows[z].parent].deleted
    BY <2>1, LiveFacts, NilIsNoValue DEF Row, Aged, Trashed, Inv, OneOwnerPerTree
  <2>2. Nil \notin Nat
    BY NilIsNoValue
  <2> QED BY <2>1, <2>2, ClockStep
\* Where every row in trash is one that was, with the parent it had.
<1>1. ASSUME DOMAIN rows' \subseteq Live,
             \A z \in DOMAIN rows' : rows'[z].deleted # Nil =>
               rows'[z].deleted = rows[z].deleted /\ rows'[z].parent = rows[z].parent
      PROVE  OldEnough(y)
  BY <1>0, <1>1
<1>2. CASE AddsItem
  <2>1. PICK x \in Ids \ issued, owner \in Users, p \in Live \cup {Nil},
             asked \in FullName, final \in FullName,
             type \in {"file", "folder"}, size \in Nat, target \in Ids \cup {Nil} :
          AddRow(x, owner, p, asked, final, type, size, target)
    BY <1>2 DEF AddsItem
  <2>2. /\ DOMAIN rows' = Live \cup {x} /\ x \notin Live
        /\ \A z \in Live : rows'[z] = rows[z]
        /\ rows'[x].owner = owner /\ rows'[x].parent = p /\ rows'[x].name = final
        /\ rows'[x].type = type /\ rows'[x].target = target /\ rows'[x].deleted = Nil
    BY ONLY Inv, <2>1, AddedRows
  <2> QED BY <1>0, <2>2
<1>3. CASE MovesItem
  <2>1. PICK x \in Live, p \in Live \cup {Nil}, asked \in FullName, final \in FullName :
          MoveRow(x, p, asked, final)
    BY <1>3 DEF MovesItem
  <2>2. rows[x].deleted = Nil
    BY <2>1 DEF MoveRow, Active
  <2>3. /\ DOMAIN rows' = Live
        /\ \A z \in Live : /\ rows'[z].deleted = rows[z].deleted
                           /\ rows'[z].parent = IF z = x THEN p ELSE rows[z].parent
    BY <2>1, MovedRows
  <2> QED BY <1>1, <2>2, <2>3
<1>4. CASE ResizesFile
  <2>1. PICK x \in Live, size \in Nat : ResizeRow(x, size)
    BY <1>4 DEF ResizesFile
  <2>2. /\ DOMAIN rows' = Live
        /\ \A z \in Live : /\ rows'[z].deleted = rows[z].deleted
                           /\ rows'[z].parent = rows[z].parent
    BY <2>1, ResizedRows
  <2> QED BY <1>1, <2>2
<1>5. CASE TrashesTree
  <2>1. PICK x \in Live : TrashRows(x)
    BY <1>5 DEF TrashesTree
  <2> DEFINE marked == Below(x, ActiveOf(rows[x].owner))
  <2>2. /\ DOMAIN rows' = Live
        /\ \A z \in Live : /\ rows'[z].parent = rows[z].parent
                           /\ rows'[z].deleted = IF z \in marked THEN now ELSE rows[z].deleted
    BY <2>1, TrashedRows
  <2>3. marked \subseteq Live /\ \A z \in marked : rows[z].deleted = Nil
    BY <2>1, BelowInside DEF TrashRows, ActiveOf, Active
  <2>4. \A z \in Live : rows[z].deleted = Nil /\ rows[z].parent # Nil =>
          rows[z].parent \in Live /\ rows[rows[z].parent].deleted = Nil
    BY DEF Inv, NoActiveUnderTrash, Active
  <2>5. \A z \in Live : rows[z].deleted = Nil /\ rows[z].parent \in marked => z \in marked
    <3> SUFFICES ASSUME NEW z \in Live, rows[z].deleted = Nil, rows[z].parent \in marked
                 PROVE  z \in marked
      OBVIOUS
    <3>1. rows[z].parent # Nil
      BY <2>3, LiveFacts, NilIsNoValue
    <3>2. rows[z].owner = rows[rows[z].parent].owner
      BY <3>1 DEF Inv, OneOwnerPerTree
    <3>3. rows[rows[z].parent].owner = rows[x].owner
      BY BelowInside DEF ActiveOf
    <3>4. z \in ActiveOf(rows[x].owner)
      BY <3>2, <3>3 DEF ActiveOf, Active
    <3> QED BY <3>4, BelowClosed
  <2> HIDE DEF marked
  <2>6. Nil \notin Live
    BY LiveFacts, NilIsNoValue
  <2> QED BY <1>0, <2>2, <2>3, <2>4, <2>5, <2>6
<1>6. CASE RestoresTree
  <2>1. PICK x \in Live, final \in FullName : \E s : RestoreRows(x, final, s)
    BY <1>6 DEF RestoresTree
  <2>2. PICK s : RestoreRows(x, final, s)
    BY <2>1
  <2>3. /\ DOMAIN rows' = Live
        /\ \A z \in Live :
             /\ rows'[z].parent = IF z = x THEN ParentBack(x) ELSE rows[z].parent
             /\ rows'[z].deleted = IF z = x \/ z \in Completed(s, Clashing(s))
                                   THEN Nil ELSE rows[z].deleted
    BY <2>2, ClearedRows
  <2> QED BY <1>1, <2>3
<1>7. CASE ErasesTree
  <2>1. PICK x \in Live, R \in SUBSET Live : EraseRows(x, R)
    BY <1>7 DEF ErasesTree
  <2>2. DOMAIN rows' = Live \ R /\ \A z \in Live \ R : rows'[z] = rows[z]
    BY <2>1, ErasedRows
  <2> QED BY <1>1, <2>2
<1>8. CASE CopiesTree
  <2>1. PICK x \in Live, owner \in Users, p \in Live \cup {Nil}, final \in FullName,
             done \in SUBSET Live :
        \E new \in Injection(done, Ids \ issued) : CopyRows(x, owner, p, final, done, new)
    BY <1>8 DEF CopiesTree
  <2>2. PICK new \in Injection(done, Ids \ issued) : CopyRows(x, owner, p, final, done, new)
    BY <2>1
  <2>3. HasCopies(owner, x, p, final, done, new)
    BY <2>2, CopiedRows
  <2>4. /\ DOMAIN rows' = Live \cup {new[z] : z \in done}
        /\ \A z \in Live : rows'[z] = rows[z]
        /\ \A z \in done : rows'[new[z]].deleted = Nil
    BY <2>3 DEF HasCopies
  <2> QED BY <1>0, <2>4
<1>9. CASE KeepsTable
  BY <1>1, <1>9 DEF KeepsTable, Live
<1> HIDE DEF OldEnough
<1> QED BY <1>2, <1>3, <1>4, <1>5, <1>6, <1>7, <1>8, <1>9, StepKinds

LEMMA ListedStep ==
  ASSUME Inv, Listed, [Next]_vars, "restore_listed" \notin Untidy
  PROVE  Listed'
<1>0. /\ now \in Nat /\ now' \in Nat /\ now <= now' /\ Retention \in Nat
      /\ Live \subseteq issued
      /\ \A x \in DOMAIN sweep : sweep[x] \in Nat
  BY ClockStep, NumbersAreNat DEF Inv, TypeOK, RowsOK, SweepOK, Live
<1>1. CASE PurgeBegin
  <2>1. /\ sweep' = [x \in Batch |-> rows[x].deleted]
        /\ UNCHANGED <<rows, issued, now>>
    BY <1>1 DEF PurgeBegin
  <2>2. \A x \in Batch : x \in Live /\ Trashed(x) /\ rows[x].deleted < now - Retention
    BY DEF Batch, Expired
  <2> QED BY <1>0, <2>1, <2>2 DEF Listed, Trashed, Live
\* A row on the list that stays keeps its deleted_at.
<1>2. ASSUME ShortensList, issued \subseteq issued',
             \A x \in DOMAIN sweep : x \in DOMAIN rows' =>
               x \in Live /\ rows'[x].deleted = rows[x].deleted
      PROVE  Listed'
  <2>1. \A x \in DOMAIN sweep' : /\ x \in issued' /\ sweep'[x] < now' - Retention
                                 /\ x \in DOMAIN rows' => /\ rows'[x].deleted # Nil
                                                          /\ rows'[x].deleted = sweep'[x]
    BY <1>0, <1>2 DEF Listed, ShortensList, Trashed
  <2> QED BY <2>1 DEF Listed, Trashed, Live
<1>3. ASSUME ShortensList, AddsItem PROVE Listed'
  <2>1. PICK x \in Ids \ issued, owner \in Users, p \in Live \cup {Nil},
             asked \in FullName, final \in FullName,
             type \in {"file", "folder"}, size \in Nat, target \in Ids \cup {Nil} :
          AddRow(x, owner, p, asked, final, type, size, target)
    BY <1>3 DEF AddsItem
  <2>2. /\ DOMAIN rows' = Live \cup {x} /\ x \notin Live
        /\ \A z \in Live : rows'[z] = rows[z]
        /\ rows'[x].owner = owner /\ rows'[x].parent = p /\ rows'[x].name = final
        /\ rows'[x].type = type /\ rows'[x].target = target /\ rows'[x].deleted = Nil
    BY ONLY Inv, <2>1, AddedRows
  <2>3. issued' = issued \cup {x}
    BY <2>1 DEF AddRow
  <2> QED BY <1>2, <1>3, <2>2, <2>3 DEF Listed
<1>4. ASSUME ShortensList, MovesItem PROVE Listed'
  <2>1. PICK x \in Live, p \in Live \cup {Nil}, asked \in FullName, final \in FullName :
          MoveRow(x, p, asked, final)
    BY <1>4 DEF MovesItem
  <2>2. DOMAIN rows' = Live /\ \A z \in Live : rows'[z].deleted = rows[z].deleted
    BY <2>1, MovedRows
  <2>3. issued' = issued
    BY <2>1 DEF MoveRow
  <2> QED BY <1>2, <1>4, <2>2, <2>3
<1>5. ASSUME ShortensList, ResizesFile PROVE Listed'
  <2>1. PICK x \in Live, size \in Nat : ResizeRow(x, size)
    BY <1>5 DEF ResizesFile
  <2>2. DOMAIN rows' = Live /\ \A z \in Live : rows'[z].deleted = rows[z].deleted
    BY <2>1, ResizedRows
  <2>3. issued' = issued
    BY <2>1 DEF ResizeRow
  <2> QED BY <1>2, <1>5, <2>2, <2>3
<1>6. ASSUME ShortensList, TrashesTree PROVE Listed'
  <2>1. PICK x \in Live : TrashRows(x)
    BY <1>6 DEF TrashesTree
  <2> DEFINE marked == Below(x, ActiveOf(rows[x].owner))
  <2>2. /\ DOMAIN rows' = Live
        /\ \A z \in Live : rows'[z].deleted = IF z \in marked THEN now ELSE rows[z].deleted
    BY <2>1, TrashedRows
  <2>3. \A z \in marked : z \in Live /\ rows[z].deleted = Nil
    BY <2>1, BelowInside DEF TrashRows, ActiveOf, Active
  <2>4. issued' = issued
    BY <2>1 DEF TrashRows
  <2>5. \A z \in DOMAIN sweep : z \in Live => z \notin marked
    BY <2>3 DEF Listed, Trashed
  <2> HIDE DEF marked
  <2> QED BY <1>2, <1>6, <2>2, <2>4, <2>5
<1>7. ASSUME ShortensList, RestoresTree PROVE Listed'
  <2>1. PICK x \in Live, final \in FullName : \E s : RestoreRows(x, final, s)
    BY <1>7 DEF RestoresTree
  <2>2. PICK s : RestoreRows(x, final, s)
    BY <2>1
  <2> DEFINE back == Completed(s, Clashing(s))
             S == TrashedOf(rows[x].owner)
  <2>3. DOMAIN rows' = Live /\ \A z \in Live : rows'[z].deleted = IF z = x \/ z \in back
                                                                 THEN Nil ELSE rows[z].deleted
    BY <2>2, ClearedRows
  <2>4. back \subseteq Below(x, S) /\ S \subseteq Live
    <3>1. x \in Ids /\ S \subseteq Ids /\ S \subseteq Live
      BY LiveFacts DEF TrashedOf
    <3>2. s \in Preorders(x, S)
      BY <2>2 DEF RestoreRows
    <3> QED BY <3>1, <3>2, CompletedBelow
  <2>5. back \cup {x} \subseteq Below(x, Live)
    BY <2>4, BelowGrows, BelowContains
  <2>6. DOMAIN sweep \cap Below(x, Live) = {}
    BY <2>2 DEF RestoreRows, TidyRestore
  <2>7. issued' = issued
    BY <2>2 DEF RestoreRows
  <2> HIDE DEF back
  <2>8. \A z \in DOMAIN sweep : z # x /\ z \notin back
    BY <2>5, <2>6
  <2> QED BY <1>2, <1>7, <2>3, <2>7, <2>8
<1>8. ASSUME ShortensList, ErasesTree PROVE Listed'
  <2>1. PICK x \in Live, R \in SUBSET Live : EraseRows(x, R)
    BY <1>8 DEF ErasesTree
  <2>2. DOMAIN rows' = Live \ R /\ \A z \in Live \ R : rows'[z] = rows[z]
    BY <2>1, ErasedRows
  <2>3. issued' = issued
    BY <2>1 DEF EraseRows
  <2> QED BY <1>2, <1>8, <2>2, <2>3
<1>9. ASSUME ShortensList, CopiesTree PROVE Listed'
  <2>1. PICK x \in Live, owner \in Users, p \in Live \cup {Nil}, final \in FullName,
             done \in SUBSET Live :
        \E new \in Injection(done, Ids \ issued) : CopyRows(x, owner, p, final, done, new)
    BY <1>9 DEF CopiesTree
  <2>2. PICK new \in Injection(done, Ids \ issued) : CopyRows(x, owner, p, final, done, new)
    BY <2>1
  <2>3. HasCopies(owner, x, p, final, done, new)
    BY <2>2, CopiedRows
  <2>4. /\ DOMAIN rows' = Live \cup {new[z] : z \in done}
        /\ \A z \in Live : rows'[z] = rows[z]
    BY <2>3 DEF HasCopies
  <2>5. \A z \in done : new[z] \notin issued
    BY <2>2 DEF Injection, IsInjective
  <2>6. issued \subseteq issued'
    BY <2>2 DEF CopyRows
  <2> QED BY <1>2, <1>9, <2>4, <2>5, <2>6 DEF Listed
<1>10. ASSUME ShortensList, KeepsTable PROVE Listed'
  BY <1>2, <1>10 DEF KeepsTable, Listed, Live
<1> QED BY <1>1, <1>3, <1>4, <1>5, <1>6, <1>7, <1>8, <1>9, <1>10, StepKinds, ClockStep

LEMMA PurgesOld ==
  ASSUME Inv, Aged, Listed, [Next]_vars, sweep # sweep',
         NEW y \in Live \ DOMAIN rows'
  PROVE  Trashed(y) /\ now - rows[y].deleted > Retention
<1>0. /\ now \in Nat /\ Retention \in Nat
      /\ \A z \in Live : rows[z].deleted # Nil => rows[z].deleted \in Nat
  BY ClockStep, LiveFacts, NumbersAreNat DEF Row
<1>1. CASE ErasesTree
  <2>1. PICK x \in Live, R \in SUBSET Live : EraseRows(x, R)
    BY <1>1 DEF ErasesTree
  <2>2. y \in R
    BY <2>1, ErasedRows
  <2>3. /\ x \in DOMAIN sweep /\ Trashed(x)
        /\ y \in Below(x, TrashedOf(rows[x].owner))
    BY <2>1, <2>2 DEF EraseRows
  <2>4. Trashed(y) /\ rows[y].deleted <= rows[x].deleted
    BY <2>3, AgedBelow
  <2>5. rows[x].deleted < now - Retention
    BY <2>3 DEF Listed
  <2>6. rows[x].deleted \in Nat /\ rows[y].deleted \in Nat
    BY <1>0, <2>3, <2>4 DEF Trashed
  <2> QED BY <1>0, <2>4, <2>5, <2>6
<1>2. CASE AddsItem
  <2>1. PICK x \in Ids \ issued, owner \in Users, p \in Live \cup {Nil},
             asked \in FullName, final \in FullName,
             type \in {"file", "folder"}, size \in Nat, target \in Ids \cup {Nil} :
          AddRow(x, owner, p, asked, final, type, size, target)
    BY <1>2 DEF AddsItem
  <2>2. /\ DOMAIN rows' = Live \cup {x} /\ x \notin Live
        /\ \A z \in Live : rows'[z] = rows[z]
        /\ rows'[x].owner = owner /\ rows'[x].parent = p /\ rows'[x].name = final
        /\ rows'[x].type = type /\ rows'[x].target = target /\ rows'[x].deleted = Nil
    BY ONLY Inv, <2>1, AddedRows
  <2> QED BY <2>2
<1>3. CASE MovesItem
  BY <1>3, MovedRows DEF MovesItem
<1>4. CASE ResizesFile
  BY <1>4, ResizedRows DEF ResizesFile
<1>5. CASE TrashesTree
  BY <1>5, TrashedRows DEF TrashesTree
<1>6. CASE RestoresTree
  BY <1>6, ClearedRows DEF RestoresTree
<1>7. CASE CopiesTree
  <2>1. PICK x \in Live, owner \in Users, p \in Live \cup {Nil}, final \in FullName,
             done \in SUBSET Live :
        \E new \in Injection(done, Ids \ issued) : CopyRows(x, owner, p, final, done, new)
    BY <1>7 DEF CopiesTree
  <2>2. PICK new \in Injection(done, Ids \ issued) : CopyRows(x, owner, p, final, done, new)
    BY <2>1
  <2>3. HasCopies(owner, x, p, final, done, new)
    BY <2>2, CopiedRows
  <2>4. DOMAIN rows' = Live \cup {new[z] : z \in done}
    BY <2>3 DEF HasCopies
  <2> QED BY <2>4
<1>8. CASE KeepsTable
  BY <1>8 DEF KeepsTable, Live
<1> QED BY <1>1, <1>2, <1>3, <1>4, <1>5, <1>6, <1>7, <1>8, StepKinds

\* The scheduled purge removes nothing that has not been in trash for longer
\* than the retention: neither the items on its list, which it does not look up
\* again before it deletes them, nor what is in trash below them.  That holds
\* as long as nobody restores an item while a purge has it on its list.
THEOREM PurgesOnlyExpired ==
  ASSUME "restore_listed" \notin Untidy
  PROVE  Spec => PurgeRespectsRetention
<1>1. Init => Aged /\ Listed
  BY DEF Init, Aged, Listed, Live
<1>2. Inv /\ Aged /\ Listed /\ [Next]_vars => Aged' /\ Listed'
  BY AgedStep, ListedStep
<1>3. Inv /\ Aged /\ Listed /\ [Next]_vars =>
        [sweep # sweep' => \A x \in Live \ DOMAIN rows' :
           Trashed(x) /\ now - rows[x].deleted > Retention]_vars
  BY PurgesOld
<1> QED BY <1>1, <1>2, <1>3, InitInv, NextInv, PTL DEF Spec, PurgeRespectsRetention

-----------------------------------------------------------------------------
(* A whole restore.  As long as no folder goes to trash over something in   *)
(* trash already, what is in one folder in the trash has distinct names.    *)

DistinctInTrash(r) ==
  \A y, z \in DOMAIN r :
    /\ r[y].deleted # Nil /\ r[z].deleted # Nil
    /\ r[y].parent = r[z].parent /\ r[y].name = r[z].name
    /\ r[y].parent \in DOMAIN r /\ r[r[y].parent].deleted # Nil
    => y = z

\* What is below x has x above it.
LEMMA BelowAbove ==
  ASSUME Inv, NEW x \in Live, NEW S \in SUBSET Live, NEW y \in Below(x, S)
  PROVE  x \in Above(y)
<1> DEFINE C == {z \in S \cup {x} : x \in Above(z)}
<1>1. x \in C
  BY AboveFacts
<1>2. ClosedDown(C, S)
  <2> SUFFICES ASSUME NEW z \in S, rows[z].parent \in C PROVE x \in Above(z)
    BY DEF ClosedDown
  <2>1. rows[z].parent \in Live /\ rows[z].parent # Nil /\ x \in Above(rows[z].parent)
    BY LiveFacts, NilIsNoValue
  <2> SUFFICES ASSUME NEW D \in SUBSET Live, z \in D, ClosedUp(D) PROVE x \in D
    BY DEF Above
  <2>2. rows[z].parent \in D
    BY <2>1 DEF ClosedUp
  <2> QED BY <2>1, <2>2 DEF Above
<1>3. y \in C
  BY <1>1, <1>2 DEF Below
<1> QED BY <1>3

LEMMA TrashesDistinct ==
  ASSUME Inv, NamesUnique(rows), DistinctInTrash(rows), TrashesTree, "over_trash" \notin Untidy
  PROVE  DistinctInTrash(rows')
<1>1. PICK x \in Live : TrashRows(x)
  BY DEF TrashesTree
<1> DEFINE marked == Below(x, ActiveOf(rows[x].owner))
<1>2. /\ DOMAIN rows' = Live
      /\ \A z \in Live : /\ rows'[z].parent = rows[z].parent
                         /\ rows'[z].name = rows[z].name
                         /\ rows'[z].deleted = IF z \in marked THEN now ELSE rows[z].deleted
  BY <1>1, TrashedRows
<1>3. Nil \notin Live /\ \A z \in marked : z \in Live /\ rows[z].deleted = Nil
  BY <1>1, BelowInside, LiveFacts, NilIsNoValue DEF TrashRows, ActiveOf, Active
<1>4. \A z \in Live : rows[z].deleted # Nil => x \notin Above(z)
  BY <1>1 DEF TrashRows, TidyDelete, Trashed
<1>5. ASSUME NEW z \in Live, rows[z].parent \in marked PROVE rows[z].deleted = Nil
  <2>1. x \in Above(rows[z].parent) /\ rows[z].parent \in Live
    BY <1>3, <1>5, BelowAbove DEF ActiveOf
  <2>2. x \in Above(z)
    BY <1>3, <2>1 DEF Above, ClosedUp
  <2> QED BY <1>4, <2>2
<1>6. ASSUME NEW z \in Live, rows[z].deleted = Nil, rows[z].parent \in Live
      PROVE  rows[rows[z].parent].deleted = Nil /\ rows[z].owner = rows[rows[z].parent].owner
  BY <1>3, <1>6 DEF Inv, NoActiveUnderTrash, OneOwnerPerTree, Active
<1> HIDE DEF marked
<1> SUFFICES ASSUME NEW y \in Live, NEW z \in Live,
                    rows'[y].deleted # Nil, rows'[z].deleted # Nil,
                    rows[y].parent = rows[z].parent, rows[y].name = rows[z].name,
                    rows[y].parent \in Live, rows'[rows[y].parent].deleted # Nil
             PROVE  y = z
  BY <1>2 DEF DistinctInTrash
<1>7. CASE rows[y].parent \in marked
  <2>1. rows[y].deleted = Nil /\ rows[z].deleted = Nil
    BY <1>5, <1>7
  <2>2. rows[y].owner = rows[z].owner
    BY <1>6, <2>1
  <2> QED BY <2>1, <2>2 DEF NamesUnique, Live
<1>8. CASE rows[y].parent \notin marked
  <2>1. rows[rows[y].parent].deleted # Nil
    BY <1>2, <1>8
  <2>2. rows[y].deleted # Nil /\ rows[z].deleted # Nil
    BY <1>6, <2>1
  <2> QED BY <2>1, <2>2 DEF DistinctInTrash, Live
<1> QED BY <1>7, <1>8

LEMMA DistinctStep ==
  ASSUME Inv, NamesUnique(rows), DistinctInTrash(rows), [Next]_vars, "over_trash" \notin Untidy
  PROVE  DistinctInTrash(rows')
<1>0. /\ Nil \notin Live
      /\ \A z \in Live : rows[z].parent \in Live \cup {Nil}
  BY LiveFacts, NilIsNoValue DEF Inv, OneOwnerPerTree
\* Where every row in trash is one that was, in the folder it was in.
<1>1. ASSUME NEW D, DOMAIN rows' = D,
             \A z \in D : rows'[z].deleted # Nil =>
               /\ z \in Live
               /\ rows'[z].deleted = rows[z].deleted
               /\ rows'[z].parent = rows[z].parent
               /\ rows'[z].name = rows[z].name
      PROVE  DistinctInTrash(rows')
  <2> SUFFICES ASSUME NEW y \in D, NEW z \in D,
                      rows'[y].deleted # Nil, rows'[z].deleted # Nil,
                      rows'[y].parent = rows'[z].parent, rows'[y].name = rows'[z].name,
                      rows'[y].parent \in D, rows'[rows'[y].parent].deleted # Nil
               PROVE  y = z
    BY <1>1 DEF DistinctInTrash
  <2>1. /\ y \in Live /\ z \in Live /\ rows[y].deleted # Nil /\ rows[z].deleted # Nil
        /\ rows[y].parent = rows[z].parent /\ rows[y].name = rows[z].name
    BY <1>1
  <2>2. rows[y].parent \in Live /\ rows[rows[y].parent].deleted # Nil
    BY <1>1
  <2> QED BY <2>1, <2>2 DEF DistinctInTrash, Live
<1>2. CASE AddsItem
  <2>1. PICK x \in Ids \ issued, owner \in Users, p \in Live \cup {Nil},
             asked \in FullName, final \in FullName,
             type \in {"file", "folder"}, size \in Nat, target \in Ids \cup {Nil} :
          AddRow(x, owner, p, asked, final, type, size, target)
    BY <1>2 DEF AddsItem
  <2>2. /\ DOMAIN rows' = Live \cup {x} /\ x \notin Live
        /\ \A z \in Live : rows'[z] = rows[z]
        /\ rows'[x].owner = owner /\ rows'[x].parent = p /\ rows'[x].name = final
        /\ rows'[x].type = type /\ rows'[x].target = target /\ rows'[x].deleted = Nil
    BY ONLY Inv, <2>1, AddedRows
  <2> QED BY <1>1, <2>2
<1>3. CASE MovesItem
  <2>1. PICK x \in Live, p \in Live \cup {Nil}, asked \in FullName, final \in FullName :
          MoveRow(x, p, asked, final)
    BY <1>3 DEF MovesItem
  <2>2. rows[x].deleted = Nil
    BY <2>1 DEF MoveRow, Active
  <2>3. /\ DOMAIN rows' = Live
        /\ \A z \in Live : /\ rows'[z].deleted = rows[z].deleted
                           /\ rows'[z].parent = IF z = x THEN p ELSE rows[z].parent
                           /\ rows'[z].name = IF z = x THEN final ELSE rows[z].name
    BY <2>1, MovedRows
  <2> QED BY <1>1, <2>2, <2>3
<1>4. CASE ResizesFile
  <2>1. PICK x \in Live, size \in Nat : ResizeRow(x, size)
    BY <1>4 DEF ResizesFile
  <2>2. /\ DOMAIN rows' = Live
        /\ \A z \in Live : /\ rows'[z].deleted = rows[z].deleted
                           /\ rows'[z].parent = rows[z].parent
                           /\ rows'[z].name = rows[z].name
    BY <2>1, ResizedRows
  <2> QED BY <1>1, <2>2
<1>5. CASE RestoresTree
  <2>1. PICK x \in Live, final \in FullName : \E s : RestoreRows(x, final, s)
    BY <1>5 DEF RestoresTree
  <2>2. PICK s : RestoreRows(x, final, s)
    BY <2>1
  <2>3. /\ DOMAIN rows' = Live
        /\ \A z \in Live :
             /\ rows'[z].parent = IF z = x THEN ParentBack(x) ELSE rows[z].parent
             /\ rows'[z].name = IF z = x THEN final ELSE rows[z].name
             /\ rows'[z].deleted = IF z = x \/ z \in Completed(s, Clashing(s))
                                   THEN Nil ELSE rows[z].deleted
    BY <2>2, ClearedRows
  <2> QED BY <1>1, <2>3
<1>6. CASE ErasesTree
  <2>1. PICK x \in Live, R \in SUBSET Live : EraseRows(x, R)
    BY <1>6 DEF ErasesTree
  <2>2. DOMAIN rows' = Live \ R /\ \A z \in Live \ R : rows'[z] = rows[z]
    BY <2>1, ErasedRows
  <2> QED BY <1>1, <2>2
<1>7. CASE CopiesTree
  <2>1. PICK x \in Live, owner \in Users, p \in Live \cup {Nil}, final \in FullName,
             done \in SUBSET Live :
        \E new \in Injection(done, Ids \ issued) : CopyRows(x, owner, p, final, done, new)
    BY <1>7 DEF CopiesTree
  <2>2. PICK new \in Injection(done, Ids \ issued) : CopyRows(x, owner, p, final, done, new)
    BY <2>1
  <2>3. HasCopies(owner, x, p, final, done, new)
    BY <2>2, CopiedRows
  <2>4. /\ DOMAIN rows' = Live \cup {new[z] : z \in done}
        /\ \A z \in Live : rows'[z] = rows[z]
        /\ \A z \in done : rows'[new[z]].deleted = Nil
    BY <2>3 DEF HasCopies
  <2>5. ASSUME NEW y \in DOMAIN rows', rows'[y].deleted # Nil
        PROVE  y \in Live /\ rows'[y] = rows[y]
    BY <2>4, <2>5
  <2> QED BY <1>1, <2>5
<1>8. CASE KeepsTable
  BY <1>8 DEF KeepsTable
<1> QED BY <1>2, <1>3, <1>4, <1>5, <1>6, <1>7, <1>8, StepKinds, TrashesDistinct

\* Nothing stops the walk down what was restored.
LEMMA NoneClashes ==
  ASSUME Inv, DistinctInTrash(rows), NEW x \in Live, NEW s,
         s \in Preorders(x, TrashedOf(rows[x].owner)), Trashed(x)
  PROVE  Clashing(s) = {}
<1> DEFINE S == TrashedOf(rows[x].owner)
           D == Below(x, S)
<1>1. D \subseteq Live /\ D \subseteq Ids /\ \A z \in D : rows[z].deleted # Nil
  <2>1. D \subseteq S \cup {x} /\ S \cup {x} \subseteq Live /\ \A z \in S \cup {x} : Trashed(z)
    BY BelowInside DEF TrashedOf
  <2> QED BY <2>1, LiveFacts DEF Trashed
<1>2. /\ Len(s) \in Nat /\ DOMAIN s = 1..Len(s)
      /\ \A k \in DOMAIN s : s[k] \in D
  BY <1>1, ListingFacts DEF Preorders
<1> SUFFICES ASSUME NEW k \in 2..Len(s), Clashes(s[k], {s[j] : j \in 2..(k - 1)})
             PROVE  FALSE
  BY DEF Clashing
<1> DEFINE y == s[k]
<1>3. k \in DOMAIN s /\ y \in D /\ y # x
  <2> DEFINE sub == [z \in {s[l] : l \in DOMAIN s} |-> Below(z, S)]
  <2>1. k \in DOMAIN s /\ 1 \in DOMAIN s /\ 1 < k
    BY <1>2
  <2>2. s[1] \notin sub[y]
    BY <2>1 DEF Preorders, IsPreorder
  <2>3. sub[y] = Below(y, S)
    BY <2>1
  <2> QED BY <1>2, <2>1, <2>2, <2>3
<1>4. rows[y].parent \in D
  BY <1>3, BelowParents
<1>5. PICK z \in Live \ {y} :
        /\ Active(z) \/ z \in {s[j] : j \in 2..(k - 1)}
        /\ rows[z].parent = rows[y].parent /\ rows[z].name = rows[y].name
  BY DEF Clashes
<1>6. rows[y].parent # Nil /\ rows[rows[y].parent].deleted # Nil /\ rows[y].parent \in Live
  BY <1>1, <1>4, LiveFacts, NilIsNoValue
<1>7. CASE Active(z)
  BY <1>5, <1>6, <1>7 DEF Inv, NoActiveUnderTrash, Active
<1>8. CASE z \in {s[j] : j \in 2..(k - 1)}
  <2>1. PICK j \in 2..(k - 1) : z = s[j]
    BY <1>8
  <2>2. j \in DOMAIN s
    BY <1>2
  <2>3. rows[z].deleted # Nil /\ rows[y].deleted # Nil /\ y \in Live
    BY <1>1, <1>2, <1>3, <2>1, <2>2
  <2> QED BY <1>5, <1>6, <2>3 DEF DistinctInTrash, Live
<1> QED BY <1>5, <1>7, <1>8

\* Below a trashed item the trash of its owner is all the trash there is.
LEMMA BelowOneOwner ==
  ASSUME Inv, NEW x \in Live
  PROVE  Below(x, {z \in Live : Trashed(z)}) \subseteq Below(x, TrashedOf(rows[x].owner))
<1> DEFINE S == TrashedOf(rows[x].owner)
           T == {z \in Live : Trashed(z)}
           C == Below(x, S)
<1>1. /\ S \subseteq T /\ x \in C /\ C \subseteq S \cup {x} /\ C \subseteq T \cup {x}
      /\ S \cup {x} \subseteq Live
      /\ \A z \in C : rows[z].owner = rows[x].owner
  BY BelowContains, BelowInside DEF TrashedOf
<1>2. ClosedDown(C, T)
  <2> SUFFICES ASSUME NEW z \in T, rows[z].parent \in C PROVE z \in C
    BY DEF ClosedDown
  <2>1. rows[z].parent # Nil
    BY <1>1, LiveFacts, NilIsNoValue
  <2>2. rows[z].owner = rows[x].owner
    BY <1>1, <2>1 DEF Inv, OneOwnerPerTree
  <2>3. z \in S
    BY <2>2 DEF TrashedOf
  <2> QED BY <2>3, BelowClosed
<1>3. ASSUME NEW z \in Below(x, T) PROVE z \in C
  <2>1. \A E \in SUBSET (T \cup {x}) : x \in E /\ ClosedDown(E, T) => z \in E
    BY DEF Below
  <2> HIDE DEF C, T
  <2> QED BY <1>1, <1>2, <2>1
<1> QED BY <1>3

LEMMA RestoresAll ==
  ASSUME Inv, DistinctInTrash(rows), [Next]_vars, NEW x \in Live,
         TopOfTrash(x), x \in DOMAIN rows', rows'[x].deleted = Nil
  PROVE  \A y \in Below(x, {z \in Live : Trashed(z)}) : rows'[y].deleted = Nil
<1> DEFINE Goal == \A y \in Below(x, {z \in Live : Trashed(z)}) : rows'[y].deleted = Nil
<1> SUFFICES Goal
  OBVIOUS
<1>0. /\ rows[x].deleted # Nil
      /\ rows[x].parent # Nil => rows[x].parent \in Live /\ rows[rows[x].parent].deleted = Nil
  BY DEF TopOfTrash, Trashed, Inv, OneOwnerPerTree
<1>1. CASE RestoresTree
  <2>1. PICK v \in Live, final \in FullName : \E s : RestoreRows(v, final, s)
    BY <1>1 DEF RestoresTree
  <2>2. PICK s : RestoreRows(v, final, s)
    BY <2>1
  <2> DEFINE S == TrashedOf(rows[v].owner)
             D == Below(v, S)
  <2>3. s \in Preorders(v, S) /\ Trashed(v)
    BY <2>2 DEF RestoreRows
  <2>4. D \subseteq S \cup {v} /\ S \cup {v} \subseteq Live /\ \A z \in D : rows[z].deleted # Nil
    BY <2>3, BelowInside DEF TrashedOf, Trashed
  <2>5. D \subseteq Ids /\ v \in Ids /\ S \subseteq Ids
    BY <2>4, LiveFacts
  <2>6. /\ DOMAIN rows' = Live
        /\ \A z \in Live : rows'[z].deleted = IF z = v \/ z \in Completed(s, Clashing(s))
                                              THEN Nil ELSE rows[z].deleted
    BY <2>2, ClearedRows
  <2>7. x = v
    <3>1. x = v \/ x \in Completed(s, Clashing(s))
      BY <1>0, <2>6
    <3>2. x \in D
      BY <2>3, <2>5, <3>1, CompletedBelow, BelowContains
    <3> SUFFICES ASSUME x # v PROVE FALSE
      OBVIOUS
    <3>3. rows[x].parent \in D
      BY <3>2, BelowParents
    <3>4. rows[x].parent \in Live /\ rows[rows[x].parent].deleted # Nil
      BY <2>4, <3>3
    <3>5. rows[x].parent # Nil
      BY <3>4, LiveFacts, NilIsNoValue
    <3> HIDE DEF D
    <3> QED BY <1>0, <3>4, <3>5
  <2>8. Clashing(s) = {}
    BY <2>3, NoneClashes
  <2>9. \A z \in D : z \in Completed(s, {})
    <3>1. \A z \in D : \E k \in DOMAIN s : z = s[k]
      BY <2>3, <2>5, ListingFacts DEF Preorders
    <3> QED BY <3>1 DEF Completed
  <2>10. \A z \in D : rows'[z].deleted = Nil
    BY <2>4, <2>6, <2>8, <2>9
  <2> QED BY <2>7, <2>10, BelowOneOwner
\* No other step makes an item in trash active.
<1>2. ASSUME NEW y \in Live, y \in DOMAIN rows' => rows'[y].deleted = rows[y].deleted, y = x
      PROVE  Goal
  BY <1>0, <1>2
<1>3. CASE AddsItem
  <2>1. PICK v \in Ids \ issued, owner \in Users, p \in Live \cup {Nil},
             asked \in FullName, final \in FullName,
             type \in {"file", "folder"}, size \in Nat, target \in Ids \cup {Nil} :
          AddRow(v, owner, p, asked, final, type, size, target)
    BY <1>3 DEF AddsItem
  <2>2. /\ DOMAIN rows' = Live \cup {v} /\ v \notin Live
        /\ \A z \in Live : rows'[z] = rows[z]
        /\ rows'[v].owner = owner /\ rows'[v].parent = p /\ rows'[v].name = final
        /\ rows'[v].type = type /\ rows'[v].target = target /\ rows'[v].deleted = Nil
    BY ONLY Inv, <2>1, AddedRows
  <2> QED BY <1>2, <2>2
<1>4. CASE MovesItem
  <2>1. PICK v \in Live, p \in Live \cup {Nil}, asked \in FullName, final \in FullName :
          MoveRow(v, p, asked, final)
    BY <1>4 DEF MovesItem
  <2>2. \A z \in Live : rows'[z].deleted = rows[z].deleted
    BY <2>1, MovedRows
  <2> QED BY <1>2, <2>2
<1>5. CASE ResizesFile
  <2>1. PICK v \in Live, size \in Nat : ResizeRow(v, size)
    BY <1>5 DEF ResizesFile
  <2>2. \A z \in Live : rows'[z].deleted = rows[z].deleted
    BY <2>1, ResizedRows
  <2> QED BY <1>2, <2>2
<1>6. CASE TrashesTree
  <2>1. PICK v \in Live : TrashRows(v)
    BY <1>6 DEF TrashesTree
  <2>2. \A z \in Live : rows'[z].deleted = now \/ rows'[z].deleted = rows[z].deleted
    BY <2>1, TrashedRows
  <2>3. now # Nil
    BY LiveFacts, NilIsNoValue
  <2> QED BY <1>0, <2>2, <2>3
<1>7. CASE ErasesTree
  <2>1. PICK v \in Live, R \in SUBSET Live : EraseRows(v, R)
    BY <1>7 DEF ErasesTree
  <2>2. DOMAIN rows' = Live \ R /\ \A z \in Live \ R : rows'[z] = rows[z]
    BY <2>1, ErasedRows
  <2> QED BY <1>2, <2>2
<1>8. CASE CopiesTree
  <2>1. PICK v \in Live, owner \in Users, p \in Live \cup {Nil}, final \in FullName,
             done \in SUBSET Live :
        \E new \in Injection(done, Ids \ issued) : CopyRows(v, owner, p, final, done, new)
    BY <1>8 DEF CopiesTree
  <2>2. PICK new \in Injection(done, Ids \ issued) : CopyRows(v, owner, p, final, done, new)
    BY <2>1
  <2>3. HasCopies(owner, v, p, final, done, new)
    BY <2>2, CopiedRows
  <2>4. \A z \in Live : rows'[z] = rows[z]
    BY <2>3 DEF HasCopies
  <2> QED BY <1>2, <2>4
<1>9. CASE KeepsTable
  <2>1. \A z \in Live : rows'[z].deleted = rows[z].deleted
    BY <1>9 DEF KeepsTable
  <2> QED BY <1>2, <2>1
<1> HIDE DEF Goal
<1> QED BY <1>1, <1>3, <1>4, <1>5, <1>6, <1>7, <1>8, <1>9, StepKinds

\* Restoring the top of something in trash brings back all that is in trash
\* below it: the unique index stops no walk, for any names and any depth, as
\* long as no folder is deleted over an item that is in trash already.
THEOREM RestoresWhole ==
  ASSUME "over_trash" \notin Untidy
  PROVE  Spec => RestoreIsWhole
<1>1. Init => NamesUnique(rows) /\ DistinctInTrash(rows)
  BY DEF Init, NamesUnique, DistinctInTrash
<1>2. Inv /\ NamesUnique(rows) /\ DistinctInTrash(rows) /\ [Next]_vars =>
        NamesUnique(rows)' /\ DistinctInTrash(rows)'
  BY NamesStep, DistinctStep
<1>3. Inv /\ DistinctInTrash(rows) /\ [Next]_vars =>
        [\A x \in Live :
           TopOfTrash(x) /\ x \in DOMAIN rows' /\ rows'[x].deleted = Nil =>
             \A y \in Below(x, {z \in Live : Trashed(z)}) : rows'[y].deleted = Nil]_vars
  BY RestoresAll
<1> QED BY <1>1, <1>2, <1>3, InitInv, NextInv, PTL DEF Spec, RestoreIsWhole
=============================================================================
