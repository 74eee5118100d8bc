---------------------------- MODULE DriveProofs ----------------------------
EXTENDS Drive, TLAPS, FiniteSetTheorems

LEMMA BelowContains == ASSUME NEW x, NEW S PROVE x \in Below(x, S)
  BY DEF Below

LEMMA BelowInside == ASSUME NEW x, NEW S PROVE Below(x, S) \subseteq S \cup {x}
  BY DEF Below

LEMMA BelowClosed ==
  ASSUME NEW x, NEW S, NEW y \in S, rows[y].parent \in Below(x, S)
  PROVE  y \in Below(x, S)
  BY DEF Below, ClosedDown

LEMMA BelowParents ==
  ASSUME NEW x, NEW S, NEW y \in Below(x, S), y # x
  PROVE  rows[y].parent \in Below(x, S)
<1> DEFINE D == Below(x, S)
           C == {z \in D : z = x \/ rows[z].parent \in D}
<1>1. C \in SUBSET (S \cup {x}) /\ x \in C
  BY BelowInside, BelowContains
<1>2. ClosedDown(C, S)
  BY BelowClosed DEF ClosedDown
<1>3. y \in C
  BY <1>1, <1>2 DEF Below
<1> QED BY <1>3

-----------------------------------------------------------------------------
(* The disk operators keep what the disk maps to. *)

LEMMA MkdirOK ==
  ASSUME NEW d, DiskOK(d), NEW path
  PROVE  DiskOK(MkdirAll(d, path))
  BY DEF DiskOK, MkdirAll

LEMMA RenameOK ==
  ASSUME NEW d, DiskOK(d), NEW old, NEW new
  PROVE  DiskOK(Rename(d, old, new))
<1> DEFINE e == MkParents(d, new)
           moved == {Rebase(q, old, new) : q \in Under(e, old)}
           Origin(q) == CHOOSE o \in Under(e, old) : Rebase(o, old, new) = q
<1>1. DiskOK(e)
  BY MkdirOK DEF MkParents
<1>2. ASSUME NEW q \in moved PROVE e[Origin(q)] \in Ids \cup {Dir}
  <2>1. Origin(q) \in Under(e, old)
    OBVIOUS
  <2> QED BY <1>1, <2>1 DEF DiskOK, Under
<1>3. DiskOK([q \in (DOMAIN e \ Under(e, old)) \cup moved |->
                IF q \in moved THEN e[Origin(q)] ELSE e[q]])
  BY <1>1, <1>2 DEF DiskOK
<1> QED BY <1>1, <1>3 DEF Rename

LEMMA PutOK ==
  ASSUME NEW d, DiskOK(d), NEW path, NEW x \in Ids
  PROVE  DiskOK(Put(d, path, x))
  BY DEF DiskOK, Put

LEMMA PlaceOK ==
  ASSUME NEW d, DiskOK(d), NEW path, NEW x \in Ids
  PROVE  DiskOK(Place(d, path, x)) /\ DiskOK(WriteFile(d, path, x))
  BY MkdirOK, PutOK DEF Place, WriteFile, MkParents

LEMMA RemoveOK ==
  ASSUME NEW d, DiskOK(d), NEW path
  PROVE  DiskOK(RemoveAll(d, path))
  BY DEF DiskOK, RemoveAll

-----------------------------------------------------------------------------
(* Names. *)

LEMMA UniqueNameIsName ==
  ASSUME NEW u, NEW p, NEW name \in FullName, NEW except,
         NEW final \in UniqueName(u, p, name, except)
  PROVE  final \in FullName
<1>1. PICK k \in 0..(AttemptLimit - 1) : final = Suffixed(name, k)
  BY DEF UniqueName
<1>2. k \in Nat
  BY <1>1, NumbersAreNat
<1>3. name[1] \in Names /\ Append(name[2], k) \in Seq(Nat)
  BY <1>2 DEF FullName
<1>4. <<name[1], Append(name[2], k)>> \in FullName
  BY <1>3 DEF FullName
<1> QED BY <1>1, <1>4 DEF Suffixed

-----------------------------------------------------------------------------
(* How each kind of update of the table keeps the tree. *)

RowsInv == RowsOK /\ OneOwnerPerTree /\ NoActiveUnderTrash

Inv == TypeOK /\ OneOwnerPerTree /\ NoActiveUnderTrash

CanHold(p, owner) ==
  p # Nil => Active(p) /\ IsFolder(p) /\ rows[p].owner = owner

LEMMA InsertInv ==
  ASSUME RowsInv, NEW x \in Ids, x \notin issued, NEW row \in Row,
         CanHold(row.parent, row.owner),
         rows' = Insert(x, row), issued' = issued \cup {x}
  PROVE  RowsInv'
<1>1. x \notin Live
  BY DEF RowsInv, RowsOK, Live
<1>2. DOMAIN rows' = Live \cup {x} /\ rows'[x] = row
  BY DEF Insert
<1>3. \A y \in Live : rows'[y] = rows[y]
  BY <1>1 DEF Insert
<1>4. RowsOK'
  <2>1. rows' = [y \in DOMAIN rows' |-> rows'[y]]
    BY DEF Insert
  <2> QED BY <1>2, <1>3, <2>1 DEF RowsInv, RowsOK, Live, Row
<1>5. OneOwnerPerTree'
  BY <1>1, <1>2, <1>3 DEF OneOwnerPerTree, Live, RowsInv, CanHold, Active, IsFolder
<1>6. NoActiveUnderTrash'
  BY <1>1, <1>2, <1>3 DEF OneOwnerPerTree, NoActiveUnderTrash, Live, RowsInv, CanHold, Active
<1> QED BY <1>4, <1>5, <1>6 DEF RowsInv

LEMMA MoveInv ==
  ASSUME RowsInv, NEW x \in Live, NEW p \in Ids \cup {Nil}, NEW final \in FullName,
         Active(x), CanHold(p, rows[x].owner), UNCHANGED issued,
         rows' = [rows EXCEPT ![x].name = final, ![x].parent = p]
  PROVE  RowsInv'
<1>1. DOMAIN rows' = Live
  BY DEF Live
<1>2. rows[x] \in Row
  BY DEF RowsInv, RowsOK, Live
<1>3. \A y \in Live : rows'[y] = IF y = x THEN [rows[x] EXCEPT !.name = final, !.parent = p]
                                 ELSE rows[y]
  BY <1>2 DEF Live, Row
<1>4. RowsOK'
  <2>1. \A y \in Live : rows'[y] \in Row
    BY <1>2, <1>3 DEF RowsInv, RowsOK, Live, Row
  <2> QED BY <1>1, <2>1 DEF RowsInv, RowsOK, Live
<1>5. OneOwnerPerTree'
  BY <1>1, <1>2, <1>3 DEF OneOwnerPerTree, Live, RowsInv, RowsOK, CanHold, Active, IsFolder, Row
<1>6. NoActiveUnderTrash'
  BY <1>1, <1>2, <1>3
     DEF OneOwnerPerTree, NoActiveUnderTrash, Live, RowsInv, RowsOK, CanHold, Active, Row
<1> QED BY <1>4, <1>5, <1>6 DEF RowsInv

LEMMA SizeInv ==
  ASSUME RowsInv, NEW x \in Live, NEW size \in Nat, UNCHANGED issued,
         rows' = [rows EXCEPT ![x].size = size]
  PROVE  RowsInv'
<1>1. DOMAIN rows' = Live
  BY DEF Live
<1>2. rows[x] \in Row
  BY DEF RowsInv, RowsOK, Live
<1>3. \A y \in Live : rows'[y] = IF y = x THEN [rows[x] EXCEPT !.size = size] ELSE rows[y]
  BY <1>2 DEF Live, Row
<1>4. RowsOK'
  <2>1. [rows[x] EXCEPT !.size = size] \in Row
    BY <1>2 DEF Row
  <2>2. \A y \in Live : rows'[y] \in Row
    BY <1>3, <2>1 DEF RowsInv, RowsOK, Live
  <2> QED BY <1>1, <2>2 DEF RowsInv, RowsOK, Live
<1>5. OneOwnerPerTree' /\ NoActiveUnderTrash'
  BY <1>1, <1>2, <1>3
     DEF OneOwnerPerTree, NoActiveUnderTrash, Live, RowsInv, RowsOK, Active, IsFolder, Row
<1> QED BY <1>4, <1>5 DEF RowsInv

LEMMA DeleteInv ==
  ASSUME RowsInv, NEW x \in Live, Active(x), now \in Nat, UNCHANGED issued,
         NEW marked, marked = Below(x, ActiveOf(rows[x].owner)),
         rows' = [y \in Live |-> IF y \in marked THEN [rows[y] EXCEPT !.deleted = now]
                                 ELSE rows[y]]
  PROVE  RowsInv'
<1>1. /\ DOMAIN rows' = Live
      /\ \A y \in Live : rows[y] \in Row
      /\ \A y \in Live : rows'[y] = IF y \in marked THEN [rows[y] EXCEPT !.deleted = now]
                                    ELSE rows[y]
  BY DEF RowsInv, RowsOK, Live
<1>2. RowsOK'
  <2>1. \A y \in Live : rows'[y] \in Row
    BY <1>1 DEF Row
  <2>2. rows' = [y \in DOMAIN rows' |-> rows'[y]]
    OBVIOUS
  <2> QED BY <1>1, <2>1, <2>2 DEF RowsInv, RowsOK, Live
<1>3. OneOwnerPerTree'
  BY <1>1 DEF OneOwnerPerTree, Live, RowsInv, IsFolder, Row
<1>4. \A y \in marked : rows[y].owner = rows[x].owner
  BY BelowInside DEF ActiveOf
<1>5. NoActiveUnderTrash'
  <2> SUFFICES ASSUME NEW y \in Live', Active(y)', rows'[y].parent # Nil
               PROVE  Active(rows[y].parent)'
    BY DEF NoActiveUnderTrash
  <2>0. y \in Live
    BY <1>1 DEF Live
  <2> DEFINE q == rows[y].parent
  <2>1. y \notin marked /\ rows'[y] = rows[y] /\ Active(y)
    BY <2>0, <1>1, NilIsNoValue DEF Active, Live, Row
  <2>2. q \in Live /\ Active(q) /\ rows[y].owner = rows[q].owner
    BY <2>0, <2>1 DEF RowsInv, NoActiveUnderTrash, OneOwnerPerTree, Live
  <2>3. q \notin marked
    BY <1>4, <2>0, <2>1, <2>2, BelowClosed DEF ActiveOf
  <2>4. q \in DOMAIN rows' /\ rows'[q] = rows[q]
    BY <1>1, <2>2, <2>3
  <2>5. rows'[y].parent = q /\ rows'[q].deleted = Nil
    BY <2>1, <2>2, <2>4 DEF Active
  <2> QED BY <2>4, <2>5 DEF Active, Live
<1> QED BY <1>2, <1>3, <1>5 DEF RowsInv

(***************************************************************************)
(* What the walks over a subtree go through.                               *)
(***************************************************************************)
LEMMA ListingFacts ==
  ASSUME NEW S, S \subseteq Ids, NEW s \in Listings(S)
  PROVE  /\ Len(s) \in Nat /\ DOMAIN s = 1..Len(s)
         /\ \A k \in DOMAIN s : s[k] \in S
         /\ \A y \in S : \E k \in DOMAIN s : y = s[k]
<1>1. Cardinality(S) \in Nat
  BY IdsFinite, FS_Subset, FS_CardinalityType
<1>2. s \in [1..Cardinality(S) -> S] /\ S = {s[k] : k \in DOMAIN s}
  BY DEF Listings
<1>3. s \in Seq(S)
  BY <1>1, <1>2
<1> QED BY <1>2, <1>3

LEMMA CompletedPrefix ==
  ASSUME NEW s, NEW bad, NEW k \in DOMAIN s, \A j \in 1..k : j \notin bad,
         NEW j \in 1..k, j \in DOMAIN s, k \in Nat
  PROVE  s[j] \in Completed(s, bad)
  BY DEF Completed

\* In a preorder walk a completed item's parent was completed before it.
LEMMA CompletedParents ==
  ASSUME NEW x \in Ids, NEW S, S \subseteq Ids, NEW s \in Preorders(x, S), NEW bad,
         NEW y \in Completed(s, bad), y # x
  PROVE  rows[y].parent \in Completed(s, bad)
<1> DEFINE D == Below(x, S)
<1>1. s \in Listings(D) /\ IsPreorder(s, S) /\ D \subseteq Ids
  BY BelowInside DEF Preorders
<1>2. PICK k \in DOMAIN s : s[k] = y /\ \A j \in 1..k : j \notin bad
  BY DEF Completed
<1>3. y \in D /\ y \in S
  BY <1>1, <1>2, ListingFacts, BelowInside
<1>4. rows[y].parent \in D
  BY <1>3, BelowParents
<1>5. PICK j \in DOMAIN s : s[j] = rows[y].parent
  BY <1>1, <1>4, ListingFacts
<1>6. y \in Below(s[j], S)
  BY <1>3, <1>5, BelowClosed, BelowContains
<1>7. ~(k < j)
  <2> DEFINE sub == [z \in {s[l] : l \in DOMAIN s} |-> Below(z, S)]
  <2>1. s[j] \in {s[l] : l \in DOMAIN s}
    BY <1>5
  <2>2. sub[s[j]] = Below(s[j], S)
    BY <2>1
  <2>3. k < j => s[k] \notin sub[s[j]]
    BY <1>1, <1>2, <1>5 DEF IsPreorder
  <2> QED BY <1>2, <1>6, <2>2, <2>3
<1>8. j \in 1..k /\ k \in Nat
  BY <1>1, <1>7, ListingFacts
<1> QED BY <1>2, <1>5, <1>8, CompletedPrefix

LEMMA CompletedBelow ==
  ASSUME NEW x \in Ids, NEW S, S \subseteq Ids,
         NEW s, s \in Preorders(x, S) \/ s \in Postorders(x, S), NEW bad
  PROVE  Completed(s, bad) \subseteq Below(x, S)
<1> DEFINE D == Below(x, S)
<1>1. D \subseteq Ids
  BY BelowInside
<1>2. PICK t \in Preorders(x, S) : s = t \/ s = Reverse(t)
  BY DEF Postorders
<1>3. \A k \in DOMAIN t : t[k] \in D
  BY <1>1, <1>2, ListingFacts DEF Preorders
<1>4. Len(t) \in Nat /\ DOMAIN t = 1..Len(t)
  BY <1>1, <1>2, ListingFacts DEF Preorders
<1>5. \A k \in DOMAIN s : s[k] \in D
  BY <1>2, <1>3, <1>4 DEF Reverse
<1> QED BY <1>5 DEF Completed

LEMMA CompletedInside ==
  ASSUME NEW x \in Ids, NEW S, S \subseteq Ids,
         NEW s, s \in Preorders(x, S) \/ s \in Postorders(x, S), NEW bad
  PROVE  Completed(s, bad) \subseteq S \cup {x}
BY CompletedBelow, BelowInside

-----------------------------------------------------------------------------
(* The three operations that change many rows at once. *)

\* A restore clears the top item under a folder that can hold it and, with
\* each further row, has cleared that row's parent.
LEMMA RestoreInv ==
  ASSUME RowsInv, NEW x \in Live, Trashed(x), NEW p \in Ids \cup {Nil},
         NEW final \in FullName, CanHold(p, rows[x].owner), UNCHANGED issued,
         NEW back, \A y \in back : y # x => rows[y].parent \in back,
         rows' = Cleared(x, p, final, back)
  PROVE  RowsInv'
<1>1. /\ DOMAIN rows' = Live
      /\ rows' = [y \in Live |-> rows'[y]]
      /\ \A y \in Live : rows[y] \in Row
      /\ rows'[x] = [rows[x] EXCEPT !.deleted = Nil, !.name = final, !.parent = p]
      /\ \A y \in Live \ {x} :
           rows'[y] = IF y \in back THEN [rows[y] EXCEPT !.deleted = Nil] ELSE rows[y]
  BY DEF RowsInv, RowsOK, Live, Cleared
<1>a. /\ rows'[x] \in Row
      /\ rows'[x].type = rows[x].type
      /\ rows'[x].owner = rows[x].owner
      /\ rows'[x].parent = p
      /\ rows'[x].deleted = Nil
  <2> DEFINE row == [rows[x] EXCEPT !.deleted = Nil, !.name = final, !.parent = p]
  <2>1. rows[x] \in Row
    BY <1>1
  <2>2. row \in Row
    BY <2>1 DEF Row
  <2>3. row.type = rows[x].type /\ row.owner = rows[x].owner /\ row.parent = p /\ row.deleted = Nil
    BY <2>1 DEF Row
  <2> HIDE DEF row
  <2>4. rows'[x] = row
    BY <1>1 DEF row
  <2> QED BY <2>2, <2>3, <2>4
<1>b. ASSUME NEW y \in Live \ {x}
      PROVE  /\ rows'[y] \in Row
             /\ rows'[y].type = rows[y].type
             /\ rows'[y].owner = rows[y].owner
             /\ rows'[y].parent = rows[y].parent
             /\ rows'[y].deleted = IF y \in back THEN Nil ELSE rows[y].deleted
  BY <1>1 DEF Row
<1>2. RowsOK'
  <2>1. \A y \in Live : rows'[y] \in Row
    BY <1>a, <1>b
  <2> QED BY <1>1, <2>1 DEF RowsInv, RowsOK, Live
<1>3. OneOwnerPerTree'
  <2>1. \A y \in Live : /\ rows'[y].type = rows[y].type
                        /\ rows'[y].owner = rows[y].owner
                        /\ rows'[y].parent = IF y = x THEN p ELSE rows[y].parent
    BY <1>a, <1>b
  <2> SUFFICES ASSUME NEW y \in Live, rows'[y].parent # Nil
               PROVE  /\ rows'[y].parent \in Live
                      /\ rows'[rows'[y].parent].type = "folder"
                      /\ rows'[y].owner = rows'[rows'[y].parent].owner
    BY <1>1 DEF OneOwnerPerTree, Live, IsFolder
  <2>2. CASE y = x
    <3>1. p \in Live /\ rows[p].type = "folder" /\ rows[p].owner = rows[x].owner
      BY <2>1, <2>2 DEF CanHold, Active, IsFolder
    <3> QED BY <2>1, <2>2, <3>1
  <2>3. CASE y # x
    <3> DEFINE q == rows[y].parent
    <3>1. q \in Live /\ rows[q].type = "folder" /\ rows[q].owner = rows[y].owner
      BY <2>1, <2>3 DEF RowsInv, OneOwnerPerTree, IsFolder
    <3> QED BY <2>1, <2>3, <3>1
  <2> QED BY <2>2, <2>3
<1>4. NoActiveUnderTrash'
  <2>1. \A y \in Live : /\ y = x \/ y \in back \/ Active(y) => rows'[y].deleted = Nil
                        /\ rows'[y].deleted = Nil => y = x \/ y \in back \/ Active(y)
    BY <1>a, <1>b DEF Active
  <2> SUFFICES ASSUME NEW y \in Live', Active(y)', rows'[y].parent # Nil
               PROVE  Active(rows[y].parent)'
    BY DEF NoActiveUnderTrash
  <2> DEFINE q == rows'[y].parent
  <2>2. y \in Live /\ (y = x \/ y \in back \/ Active(y))
    BY <1>1, <2>1 DEF Active, Live
  <2>3. CASE y = x
    <3>1. q = p /\ Active(p)
      BY <1>a, <2>3 DEF CanHold
    <3> QED BY <1>1, <2>1, <3>1 DEF Active, Live
  <2>4. CASE y # x
    <3>1. q = rows[y].parent /\ q \in Live
      BY <1>b, <2>2, <2>4 DEF RowsInv, OneOwnerPerTree
    <3>2. q \in back \/ Active(q)
      BY <2>2, <2>4, <3>1 DEF RowsInv, NoActiveUnderTrash, Live
    <3> QED BY <1>1, <2>1, <3>1, <3>2 DEF Active, Live
  <2> QED BY <2>3, <2>4
<1> QED BY <1>2, <1>3, <1>4 DEF RowsInv

\* A row is only removed once nothing in the table references it.
LEMMA RemovedUnreferenced ==
  ASSUME RowsInv, NEW x \in Live,
         NEW s \in Postorders(x, TrashedOf(rows[x].owner)), NEW y \in Live \ Removed(s)
  PROVE  rows[y].parent \notin Removed(s) /\ rows[y].target \notin Removed(s)
<1> DEFINE bad == {k \in DOMAIN s : Referenced(s[k], {s[j] : j \in 1..(k - 1)})}
           removed == Removed(s)
<1>1. DOMAIN s \subseteq Nat \ {0} /\ \A k \in DOMAIN s : 1..k \subseteq DOMAIN s
  <2>1. PICK t \in Preorders(x, TrashedOf(rows[x].owner)) : s = Reverse(t)
    BY DEF Postorders
  <2>2. Below(x, TrashedOf(rows[x].owner)) \subseteq Ids
    BY BelowInside DEF TrashedOf, RowsInv, RowsOK, Live
  <2>3. Len(t) \in Nat /\ DOMAIN t = 1..Len(t)
    BY <2>1, <2>2, ListingFacts DEF Preorders
  <2>4. DOMAIN s = 1..Len(t)
    BY <2>1, <2>3 DEF Reverse
  <2> QED BY <2>3, <2>4
<1>2. removed = {s[k] : k \in {k \in DOMAIN s : \A j \in 1..k : j \notin bad}}
  BY DEF Completed, Removed
<1> SUFFICES ASSUME NEW z \in removed, rows[y].parent = z \/ rows[y].target = z PROVE FALSE
  OBVIOUS
<1>3. PICK k \in DOMAIN s : s[k] = z /\ \A j \in 1..k : j \notin bad
  <2> HIDE DEF bad, removed
  <2> QED BY <1>2
<1>4. k \in 1..k /\ k \in Nat
  BY <1>1, <1>3
<1>5. ~Referenced(s[k], {s[j] : j \in 1..(k - 1)})
  BY <1>3, <1>4
<1>6. y # s[k]
  BY <1>3
<1>7. PICK j \in 1..(k - 1) : y = s[j]
  BY <1>3, <1>5, <1>6 DEF Referenced
<1>8. j \in 1..k /\ j \in DOMAIN s
  BY <1>1, <1>3, <1>4, <1>7
<1>9. y \in removed
  <2> HIDE DEF bad, removed
  <2> QED BY <1>2, <1>3, <1>4, <1>7, <1>8
<1> QED BY <1>9

\* No row that stays loses its parent.
LEMMA EraseInv ==
  ASSUME RowsInv, UNCHANGED issued, NEW x \in Live,
         NEW s \in Postorders(x, TrashedOf(rows[x].owner)),
         NEW removed, removed = Removed(s), rows' = [y \in Live \ removed |-> rows[y]]
  PROVE  RowsInv'
<1>2. ASSUME NEW y \in Live, y \notin removed, rows[y].parent \in removed PROVE FALSE
  BY <1>2, RemovedUnreferenced
<1>3. DOMAIN rows' = Live \ removed /\ \A y \in Live \ removed : rows'[y] = rows[y]
  OBVIOUS
<1>4. RowsOK'
  BY <1>3 DEF RowsInv, RowsOK, Live
<1>5. OneOwnerPerTree' /\ NoActiveUnderTrash'
  BY <1>2, <1>3 DEF RowsInv, OneOwnerPerTree, NoActiveUnderTrash, Live, Active, IsFolder
<1> QED BY <1>4, <1>5 DEF RowsInv

\* A copy of a subtree gets fresh ids and, below its top, the copies of the
\* originals' parents as parents.
LEMMA CopyInv ==
  ASSUME RowsInv, NEW x \in Live, NEW p \in Ids \cup {Nil}, NEW final \in FullName,
         NEW owner \in Users, CanHold(p, owner),
         NEW done \in SUBSET Live, \A y \in done : y # x => rows[y].parent \in done,
         NEW new \in Injection(done, Ids \ issued),
         rows' = Copied(owner, x, p, final, new),
         issued' = issued \cup {new[y] : y \in done}
  PROVE  RowsInv'
<1> DEFINE Source(z) == CHOOSE y \in DOMAIN new : new[y] = z
           CopyOf(y) == NewRow(owner,
                               IF y = x THEN p ELSE new[rows[y].parent],
                               IF y = x THEN final ELSE rows[y].name,
                               rows[y].type, rows[y].size, Nil)
           copies == {new[y] : y \in done}
<1>1. /\ DOMAIN new = done
      /\ \A y \in done : new[y] \in Ids /\ new[y] \notin issued /\ new[y] \notin Live
      /\ \A y, z \in done : new[y] = new[z] => y = z
  BY DEF Injection, IsInjective, RowsInv, RowsOK, Live
<1>2. \A y \in done : Source(new[y]) = y
  BY <1>1
<1>3. rows' = [z \in Live \cup copies |-> IF z \in Live THEN rows[z] ELSE CopyOf(Source(z))]
  BY <1>1 DEF Copied, CopyParent
<1>4. /\ DOMAIN rows' = Live \cup copies
      /\ rows' = [z \in DOMAIN rows' |-> rows'[z]]
      /\ \A z \in Live : rows'[z] = rows[z]
  BY <1>3
<1>5. ASSUME NEW y \in done PROVE rows'[new[y]] = CopyOf(y)
  BY <1>1, <1>2, <1>3
<1>6. \A y \in Live : rows[y] \in Row
  BY DEF RowsInv, RowsOK, Live
<1>7. ASSUME NEW y \in done
      PROVE  /\ rows'[new[y]].parent = IF y = x THEN p ELSE new[rows[y].parent]
             /\ rows'[new[y]].owner = owner
             /\ rows'[new[y]].type = rows[y].type
             /\ rows'[new[y]].deleted = Nil
             /\ rows'[new[y]] \in Row
  <2>1. (IF y = x THEN p ELSE new[rows[y].parent]) \in Ids \cup {Nil}
    BY <1>1
  <2>2. (IF y = x THEN final ELSE rows[y].name) \in FullName
    BY <1>6 DEF Row
  <2>3. rows[y].type \in {"file", "folder"} /\ rows[y].size \in Nat
    BY <1>6 DEF Row
  <2>4. CopyOf(y) \in Row
    BY <2>1, <2>2, <2>3 DEF NewRow, Row
  <2>5. rows'[new[y]] \in Row
    BY <1>5, <2>4
  <2>6. /\ CopyOf(y).parent = IF y = x THEN p ELSE new[rows[y].parent]
        /\ CopyOf(y).owner = owner
        /\ CopyOf(y).type = rows[y].type
        /\ CopyOf(y).deleted = Nil
    BY DEF NewRow
  <2> HIDE DEF CopyOf
  <2> QED BY <1>5, <2>5, <2>6
<1>8. RowsOK'
  <2>1. \A z \in Live \cup copies : rows'[z] \in Row
    BY <1>4, <1>6, <1>7
  <2>2. Live \cup copies \subseteq issued \cup copies /\ issued \cup copies \subseteq Ids
    BY <1>1 DEF RowsInv, RowsOK, Live
  <2> QED BY <1>4, <2>1, <2>2 DEF RowsOK
<1>9. ASSUME NEW z \in Live \cup copies, rows'[z].parent # Nil
      PROVE  /\ rows'[z].parent \in Live \cup copies
             /\ rows'[rows'[z].parent].type = "folder"
             /\ rows'[z].owner = rows'[rows'[z].parent].owner
             /\ rows'[z].deleted = Nil => rows'[rows'[z].parent].deleted = Nil
  <2>1. CASE z \in Live
    BY <1>4, <1>9, <2>1
       DEF RowsInv, OneOwnerPerTree, NoActiveUnderTrash, Active, IsFolder, Live
  <2>2. CASE z = new[x] /\ x \in done
    BY <1>4, <1>7, <1>9, <2>2 DEF CanHold, Active, IsFolder
  <2>3. ASSUME NEW y \in done, y # x, z = new[y]
        PROVE  /\ rows'[z].parent \in copies
               /\ rows'[rows'[z].parent].type = "folder"
               /\ rows'[z].owner = rows'[rows'[z].parent].owner
               /\ rows'[rows'[z].parent].deleted = Nil
    <3> DEFINE q == rows[y].parent
    <3>1. q \in done /\ rows'[z].parent = new[q]
      BY <1>7, <2>3
    <3>2. rows[q].type = "folder"
      BY <3>1, <2>3, NilIsNoValue DEF RowsInv, RowsOK, OneOwnerPerTree, IsFolder, Live
    <3> QED BY <1>7, <2>3, <3>1, <3>2
  <2> QED BY <2>1, <2>2, <2>3
<1>10. OneOwnerPerTree' /\ NoActiveUnderTrash'
  BY <1>4, <1>9 DEF OneOwnerPerTree, NoActiveUnderTrash, Active, IsFolder, Live
<1> QED BY <1>8, <1>10 DEF RowsInv

-----------------------------------------------------------------------------
(* One lemma per action: it keeps Inv. *)

Rest ==
  /\ used = [u \in Users |-> used[u]]
  /\ links \subseteq Ids
  /\ SweepOK
  /\ now \in 0..MaxNow

LEMMA InvParts == Inv <=> RowsInv /\ DiskOK(disk) /\ Rest
  BY DEF Inv, RowsInv, TypeOK, Rest

LEMMA InvNext == ASSUME RowsInv', DiskOK(disk'), Rest' PROVE Inv'
  BY DEF Inv, RowsInv, TypeOK, Rest

LEMMA SameRows == ASSUME RowsInv, UNCHANGED <<rows, issued>> PROVE RowsInv'
  BY DEF RowsInv, RowsOK, OneOwnerPerTree, NoActiveUnderTrash, Live, Active, IsFolder

LEMMA SameRest ==
  ASSUME Rest, UNCHANGED <<links, sweep, now>>, used' = [u \in Users |-> used'[u]]
  PROVE  Rest'
  BY DEF Rest, SweepOK

LEMMA LiveFacts ==
  ASSUME Inv
  PROVE  /\ Live \subseteq Ids
         /\ \A x \in Live : rows[x] \in Row
         /\ now \in Nat
  BY NumbersAreNat DEF Inv, TypeOK, RowsOK, Live

LEMMA HoldFacts ==
  ASSUME Inv, NEW u \in Users, NEW p \in Live \cup {Nil}, ValidFolder(p)
  PROVE  CanHold(p, OwnerAt(u, p)) /\ OwnerAt(u, p) \in Users
  BY LiveFacts DEF ValidFolder, CanHold, OwnerAt, Row

LEMMA NewRowInv ==
  ASSUME RowsInv, NEW x \in Ids, x \notin issued,
         NEW owner \in Users, NEW p \in Ids \cup {Nil}, CanHold(p, owner),
         NEW name \in FullName, NEW type \in {"file", "folder"}, NEW size \in Nat,
         NEW target \in Ids \cup {Nil},
         rows' = Insert(x, NewRow(owner, p, name, type, size, target)),
         issued' = issued \cup {x}
  PROVE  RowsInv'
<1> DEFINE row == NewRow(owner, p, name, type, size, target)
<1>1. row \in Row /\ row.parent = p /\ row.owner = owner
  BY DEF NewRow, Row
<1>2. rows' = Insert(x, row) /\ CanHold(row.parent, row.owner)
  BY <1>1
<1> HIDE DEF row
<1> QED BY <1>1, <1>2, InsertInv

LEMMA CreateFolderStep ==
  ASSUME Inv, NEW x \in Ids, NEW u \in Users, NEW p \in Live \cup {Nil},
         NEW name \in Requests, CreateFolder(u, p, name, x)
  PROVE  Inv'
<1> DEFINE owner == OwnerAt(u, p)
<1>1. PICK final \in UniqueName(owner, p, name, Nil) :
        /\ disk' = MkdirAll(disk, Append(FolderPath(owner, p), final))
        /\ rows' = Insert(x, NewRow(owner, p, final, "folder", 0, Nil))
        /\ issued' = issued \cup {x}
  BY DEF CreateFolder
<1>2. final \in FullName /\ CanHold(p, owner) /\ owner \in Users /\ p \in Ids \cup {Nil}
  BY HoldFacts, LiveFacts, UniqueNameIsName, RequestsAreNames DEF CreateFolder
<1>3. RowsInv'
  BY <1>1, <1>2, NewRowInv, InvParts DEF CreateFolder
<1>4. DiskOK(disk')
  BY <1>1, MkdirOK, InvParts
<1>5. Rest'
  BY InvParts DEF CreateFolder, Rest, SweepOK
<1> QED BY <1>3, <1>4, <1>5, InvNext

LEMMA CreateShortcutStep ==
  ASSUME Inv, NEW x \in Ids, NEW u \in Users, NEW p \in Live \cup {Nil}, NEW t \in Live,
         CreateShortcut(u, t, p, x)
  PROVE  Inv'
<1> DEFINE target == IF IsReal(t) THEN t ELSE rows[t].target
           owner == OwnerAt(u, p)
<1>1. PICK final \in UniqueName(owner, p, rows[target].name, Nil) :
        rows' = Insert(x, NewRow(owner, p, final, rows[target].type, 0, target))
  BY DEF CreateShortcut
<1>2. target \in Ids /\ rows[target] \in Row
  BY LiveFacts DEF CreateShortcut, Active
<1>3. final \in FullName /\ rows[target].type \in {"file", "folder"}
  BY <1>2, UniqueNameIsName DEF Row
<1>4. CanHold(p, owner) /\ owner \in Users /\ p \in Ids \cup {Nil}
  BY HoldFacts, LiveFacts DEF CreateShortcut
<1>5. x \notin issued /\ issued' = issued \cup {x}
  BY DEF CreateShortcut
<1>6. RowsInv'
  <2> HIDE DEF target, owner
  <2> QED BY <1>1, <1>2, <1>3, <1>4, <1>5, NewRowInv, InvParts
<1>7. DiskOK(disk') /\ Rest'
  BY InvParts DEF CreateShortcut, Rest, SweepOK
<1> QED BY <1>6, <1>7, InvNext

LEMMA CopyShortcutStep ==
  ASSUME Inv, NEW x \in Ids, NEW u \in Users, NEW p \in Live \cup {Nil}, NEW t \in Live,
         CopyShortcut(u, t, p, x)
  PROVE  Inv'
<1>1. CreateShortcut(u, rows[t].target, p, x) /\ rows[t].target \in Live
  BY DEF CopyShortcut, CreateShortcut, Active
<1> QED BY <1>1, CreateShortcutStep

LEMMA AddedFile ==
  ASSUME Inv, NEW x \in Ids, NEW u \in Users, NEW p \in Live \cup {Nil},
         NEW name \in FullName, NEW size \in Nat, ValidFolder(p),
         UNCHANGED <<links, sweep, now>>,
         NEW final \in UniqueName(OwnerAt(u, p), p, name, Nil),
         DiskOK(disk'),
         \/ /\ x \notin issued
            /\ rows' = Insert(x, NewRow(OwnerAt(u, p), p, final, "file", size, Nil))
            /\ issued' = issued \cup {x}
            /\ used' = Charge(OwnerAt(u, p), size)
         \/ UNCHANGED <<rows, used, issued>>
  PROVE  Inv'
<1> DEFINE owner == OwnerAt(u, p)
<1>1. final \in FullName /\ CanHold(p, owner) /\ owner \in Users /\ p \in Ids \cup {Nil}
  BY HoldFacts, LiveFacts, UniqueNameIsName
<1>2. RowsInv'
  <2>1. CASE UNCHANGED <<rows, used, issued>>
    BY <2>1, SameRows, InvParts
  <2>2. CASE /\ x \notin issued
             /\ rows' = Insert(x, NewRow(owner, p, final, "file", size, Nil))
             /\ issued' = issued \cup {x}
    BY <1>1, <2>2, NewRowInv, InvParts
  <2> QED BY <2>1, <2>2
<1>3. Rest'
  BY InvParts DEF Rest, SweepOK, Charge
<1> QED BY <1>2, <1>3, InvNext

LEMMA FinalizeUploadStep ==
  ASSUME Inv, NEW x \in Ids, NEW u \in Users, NEW p \in Live \cup {Nil},
         NEW name \in Requests, NEW size \in Sizes, FinalizeUpload(u, p, name, size, x)
  PROVE  Inv'
<1>1. PICK final \in UniqueName(OwnerAt(u, p), p, name, Nil) :
        LET owner == OwnerAt(u, p)
            target == Append(FolderPath(owner, p), final) IN
        /\ disk' = Place(disk, target, x)
        /\ IF CanPlace(disk, target)
           THEN /\ rows' = Insert(x, NewRow(owner, p, final, "file", size, Nil))
                /\ used' = Charge(owner, size)
                /\ issued' = issued \cup {x}
           ELSE UNCHANGED <<rows, used, issued>>
  BY DEF FinalizeUpload, AddFile
<1>2. /\ x \notin issued /\ ValidFolder(p) /\ UNCHANGED <<links, sweep, now>>
      /\ name \in FullName /\ size \in Nat
  BY RequestsAreNames, SizesAreNat DEF FinalizeUpload, AddFile
<1>3. DiskOK(disk')
  BY <1>1, PlaceOK, InvParts
<1> QED BY <1>1, <1>2, <1>3, AddedFile

LEMMA CreateBlankDocumentStep ==
  ASSUME Inv, NEW x \in Ids, NEW u \in Users, NEW p \in Live \cup {Nil},
         NEW name \in Requests, NEW size \in Sizes,
         CreateBlankDocument(u, p, name, size, x)
  PROVE  Inv'
<1>1. PICK final \in UniqueName(OwnerAt(u, p), p, name, Nil) :
        LET owner == OwnerAt(u, p)
            target == Append(FolderPath(owner, p), final) IN
        /\ disk' = WriteFile(disk, target, x)
        /\ IF CanWrite(disk, target)
           THEN /\ rows' = Insert(x, NewRow(owner, p, final, "file", size, Nil))
                /\ used' = Charge(owner, size)
                /\ issued' = issued \cup {x}
           ELSE UNCHANGED <<rows, used, issued>>
  BY DEF CreateBlankDocument, AddFile
<1>2. /\ x \notin issued /\ ValidFolder(p) /\ UNCHANGED <<links, sweep, now>>
      /\ name \in FullName /\ size \in Nat
  BY RequestsAreNames, SizesAreNat DEF CreateBlankDocument, AddFile
<1>3. DiskOK(disk')
  BY <1>1, PlaceOK, InvParts
<1> QED BY <1>1, <1>2, <1>3, AddedFile

LEMMA ReplaceContentStep ==
  ASSUME Inv, NEW x \in Live, NEW size \in Sizes, ReplaceContent(x, size)
  PROVE  Inv'
<1> DEFINE target == PathOf(rows[x].owner, x)
<1>1. DiskOK(disk')
  <2>1. disk' = Place(disk, target, x)
    BY DEF ReplaceContent
  <2> QED BY <2>1, LiveFacts, PlaceOK, InvParts
<1>2. /\ \/ rows' = [rows EXCEPT ![x].size = size]
         \/ UNCHANGED rows
      /\ used' = [u \in Users |-> used'[u]]
      /\ UNCHANGED <<links, issued, sweep, now>>
  BY InvParts DEF ReplaceContent, Rest, Charge
<1>3. RowsInv'
  BY <1>2, SizeInv, SameRows, SizesAreNat, InvParts
<1>4. Rest'
  BY <1>2, InvParts DEF Rest, SweepOK
<1> QED BY <1>1, <1>3, <1>4, InvNext

LEMMA MoveStep ==
  ASSUME Inv, NEW x \in Live, NEW p \in Live \cup {Nil}, NEW name \in Requests,
         Move(x, name, p)
  PROVE  Inv'
<1> DEFINE owner == rows[x].owner
<1>1. PICK final \in UniqueName(owner, p, name, x) :
        /\ \/ rows' = [rows EXCEPT ![x].name = final, ![x].parent = p]
           \/ UNCHANGED rows
        /\ \/ UNCHANGED disk
           \/ disk' = Rename(disk, PathOf(owner, x), Append(FolderPath(owner, p), final))
  BY DEF Move
<1>2. owner \in Users /\ p \in Ids \cup {Nil} /\ CanHold(p, owner)
  BY HoldFacts, LiveFacts DEF Move, Row
<1>3. final \in FullName /\ Active(x) /\ UNCHANGED <<used, links, issued, sweep, now>>
  BY UniqueNameIsName, RequestsAreNames DEF Move
<1>4. RowsInv'
  BY <1>1, <1>2, <1>3, MoveInv, SameRows, InvParts
<1>5. DiskOK(disk')
  BY <1>1, RenameOK, InvParts
<1>6. Rest'
  BY <1>3, InvParts DEF Rest, SweepOK
<1> QED BY <1>4, <1>5, <1>6, InvNext

LEMMA CopyFileStep ==
  ASSUME Inv, NEW y \in Ids, NEW u \in Users, NEW p \in Live \cup {Nil}, NEW x \in Live,
         CopyFile(u, x, p, y)
  PROVE  Inv'
<1> DEFINE owner == OwnerAt(u, p)
<1>1. PICK final \in UniqueName(owner, p, rows[x].name, Nil) :
        LET source == PathOf(rows[x].owner, x)
            target == Append(FolderPath(owner, p), final) IN
        \/ /\ disk' = WriteFile(disk, target, y)
           /\ rows' = Insert(y, NewRow(owner, p, final, "file", rows[x].size, Nil))
           /\ used' = Charge(owner, rows[x].size)
           /\ issued' = issued \cup {y}
        \/ /\ disk' = MkParents(disk, target)
           /\ UNCHANGED <<rows, used, issued>>
  BY DEF CopyFile
<1>2. /\ y \notin issued /\ ValidFolder(p) /\ UNCHANGED <<links, sweep, now>>
      /\ rows[x].name \in FullName /\ rows[x].size \in Nat
  BY LiveFacts DEF CopyFile, Row
<1>3. DiskOK(disk')
  BY <1>1, PlaceOK, MkdirOK, InvParts DEF MkParents
<1> QED BY <1>1, <1>2, <1>3, AddedFile

LEMMA OverlayOK ==
  ASSUME NEW d, DiskOK(d), NEW tree, DiskOK(tree)
  PROVE  DiskOK(Overlay(d, tree))
  BY DEF DiskOK, Overlay

\* What a copy of a folder writes and changes once it has been through done.
CopyTree(done, target, new) ==
  LET At(q) == CHOOSE y \in done : target[y] = q
  IN  [q \in {target[y] : y \in done} |-> IF IsFolder(At(q)) THEN Dir ELSE new[At(q)]]

CopyResult(owner, x, p, final, done, base, target, new) ==
  /\ disk' = IF done = {} THEN disk
             ELSE Overlay(MkdirAll(disk, base), CopyTree(done, target, new))
  /\ rows' = Copied(owner, x, p, final, new)
  /\ used' = Charge(owner, SizeOf(done))
  /\ issued' = issued \cup {new[y] : y \in done}

CopyTargets(s, x, base) == [y \in {s[k] : k \in DOMAIN s} |-> Rerooted(y, x, base)]

LEMMA CopyFolderShape ==
  ASSUME NEW x, NEW u, NEW p, CopyFolder(u, x, p)
  PROVE  \E final \in UniqueName(OwnerAt(u, p), p, rows[x].name, Nil), s \in CopyOrders(x) :
         \E bad :
         \E new \in Injection(Completed(s, bad), Ids \ issued) :
           LET base == Append(FolderPath(OwnerAt(u, p), p), final) IN
           CopyResult(OwnerAt(u, p), x, p, final, Completed(s, bad),
                      base, CopyTargets(s, x, base), new)
<1> DEFINE owner == OwnerAt(u, p)
           Base(final) == Append(FolderPath(owner, p), final)
           Target(s, base) == [y \in {s[k] : k \in DOMAIN s} |-> Rerooted(y, x, base)]
           Bad(s, target) ==
             {k \in DOMAIN s :
                IF IsFolder(s[k]) THEN ~CanMkdir(disk, target[s[k]])
                ELSE \/ ~CheckQuota(owner, SizeOf({s[j] : j \in 1..k}))
                     \/ ~IsFile(disk, PathOf(rows[x].owner, s[k]))
                     \/ ~CanWrite(disk, target[s[k]])}
<1>1. PICK final \in UniqueName(owner, p, rows[x].name, Nil), s \in CopyOrders(x) :
        LET base == Base(final)
            target == Target(s, base)
            bad == Bad(s, target) IN
        \E new \in Injection(Completed(s, bad), Ids \ issued) :
          CopyResult(owner, x, p, final, Completed(s, bad), base, target, new)
  BY DEF CopyFolder, CopyResult, CopyTree
<1> DEFINE base == Base(final)
           target == Target(s, base)
           bad == Bad(s, target)
<1>2. PICK new \in Injection(Completed(s, bad), Ids \ issued) :
        CopyResult(owner, x, p, final, Completed(s, bad), base, target, new)
  BY <1>1
<1>3. CopyResult(owner, x, p, final, Completed(s, bad), base, CopyTargets(s, x, base), new)
  BY <1>2 DEF CopyTargets
<1> HIDE DEF bad
<1> QED BY <1>1, <1>2, <1>3

LEMMA CopyFolderStep ==
  ASSUME Inv, NEW x \in Live, NEW u \in Users, NEW p \in Live \cup {Nil}, CopyFolder(u, x, p)
  PROVE  Inv'
<1> DEFINE owner == OwnerAt(u, p)
           S == ActiveOf(rows[x].owner)
<1>a. PICK final \in UniqueName(owner, p, rows[x].name, Nil), s \in CopyOrders(x) :
        \E bad, base, target : \E new \in Injection(Completed(s, bad), Ids \ issued) :
          CopyResult(owner, x, p, final, Completed(s, bad), base, target, new)
  BY CopyFolderShape
<1>b. PICK bad, base, target : \E new \in Injection(Completed(s, bad), Ids \ issued) :
        CopyResult(owner, x, p, final, Completed(s, bad), base, target, new)
  BY <1>a
<1> DEFINE done == Completed(s, bad)
<1>c. PICK new \in Injection(done, Ids \ issued) :
        CopyResult(owner, x, p, final, done, base, target, new)
  BY <1>b
<1> DEFINE tree == CopyTree(done, target, new)
<1>1. /\ disk' = IF done = {} THEN disk ELSE Overlay(MkdirAll(disk, base), tree)
      /\ rows' = Copied(owner, x, p, final, new)
      /\ used' = Charge(owner, SizeOf(done))
      /\ issued' = issued \cup {new[y] : y \in done}
      /\ new \in Injection(done, Ids \ issued)
  BY <1>c DEF CopyResult
<1>2. x \in Ids /\ S \subseteq Ids /\ S \subseteq Live
  BY LiveFacts DEF ActiveOf
<1>3. s \in Preorders(x, S)
  BY <1>1 DEF CopyOrders
<1>4. done \subseteq Live
  BY <1>2, <1>3, CompletedInside
<1>5. \A y \in done : y # x => rows[y].parent \in done
  BY <1>2, <1>3, CompletedParents
<1>6. final \in FullName /\ CanHold(p, owner) /\ owner \in Users /\ p \in Ids \cup {Nil}
  BY HoldFacts, LiveFacts, UniqueNameIsName DEF CopyFolder, Row
<1>7. RowsInv'
  <2>1. rows' = Copied(owner, x, p, final, new) /\ issued' = issued \cup {new[y] : y \in done}
    BY <1>1
  <2>2. new \in Injection(done, Ids \ issued) /\ done \in SUBSET Live
    BY <1>1, <1>4
  <2> HIDE DEF done, owner
  <2> QED BY <1>5, <1>6, <2>1, <2>2, CopyInv, InvParts
<1>8. DiskOK(disk')
  <2>1. disk' = disk \/ disk' = Overlay(MkdirAll(disk, base), tree)
    BY <1>1
  <2>2. \A y \in done : new[y] \in Ids
    BY <1>1 DEF Injection
  <2>3. ASSUME NEW q \in DOMAIN tree PROVE tree[q] \in Ids \cup {Dir}
    <3> DEFINE At == CHOOSE y \in done : target[y] = q
    <3>1. q \in {target[y] : y \in done}
      BY DEF CopyTree
    <3>2. At \in done
      BY <3>1
    <3>3. new[At] \in Ids
      BY <2>2, <3>2
    <3>4. tree[q] = IF IsFolder(At) THEN Dir ELSE new[At]
      BY <3>1 DEF CopyTree
    <3> QED BY <3>3, <3>4
  <2>4. DiskOK(tree)
    BY <2>3 DEF DiskOK
  <2> HIDE DEF tree
  <2> QED BY <2>1, <2>4, MkdirOK, OverlayOK, InvParts
<1>9. Rest'
  <2>1. used' = [v \in Users |-> used'[v]]
    BY <1>1, InvParts DEF Rest, Charge
  <2> QED BY <2>1, InvParts DEF CopyFolder, Rest, SweepOK
<1> QED BY <1>7, <1>8, <1>9, InvNext

LEMMA DeleteStep ==
  ASSUME Inv, NEW x \in Live, Delete(x)
  PROVE  Inv'
<1> DEFINE marked == Below(x, ActiveOf(rows[x].owner))
<1>1. /\ \/ rows' = [y \in Live |-> IF y \in marked THEN [rows[y] EXCEPT !.deleted = now]
                                     ELSE rows[y]]
         \/ UNCHANGED rows
      /\ \/ UNCHANGED disk
         \/ disk' = Rename(disk, PathOf(rows[x].owner, x),
                           TrashPath(rows[x].owner, x, rows[x].name))
      /\ Active(x) /\ UNCHANGED <<used, links, issued, sweep, now>>
  BY DEF Delete
<1>2. RowsInv'
  <2> HIDE DEF marked
  <2>1. marked = Below(x, ActiveOf(rows[x].owner))
    BY DEF marked
  <2> QED BY <1>1, <2>1, DeleteInv, SameRows, LiveFacts, InvParts
<1>3. DiskOK(disk')
  BY <1>1, RenameOK, InvParts
<1>4. Rest'
  BY <1>1, InvParts DEF Rest, SweepOK
<1> QED BY <1>2, <1>3, <1>4, InvNext

LEMMA RestoreStep ==
  ASSUME Inv, NEW x \in Live, Restore(x)
  PROVE  Inv'
<1> DEFINE owner == rows[x].owner
           S == TrashedOf(owner)
           p == IF rows[x].parent # Nil /\ Active(rows[x].parent) THEN rows[x].parent ELSE Nil
<1>0. PICK final \in UniqueName(owner, p, rows[x].name, x), s \in Preorders(x, S) :
        \E bad :
        /\ \/ rows' = Cleared(x, p, final, Completed(s, bad))
           \/ UNCHANGED rows
        /\ \/ UNCHANGED disk
           \/ disk' = Rename(disk, TrashPath(owner, x, rows[x].name),
                             Append(FolderPath(owner, p), final))
  BY DEF Restore
<1>1. PICK bad :
        /\ \/ rows' = Cleared(x, p, final, Completed(s, bad))
           \/ UNCHANGED rows
        /\ \/ UNCHANGED disk
           \/ disk' = Rename(disk, TrashPath(owner, x, rows[x].name),
                             Append(FolderPath(owner, p), final))
  BY <1>0
<1>2. Trashed(x) /\ UNCHANGED <<used, links, issued, sweep, now>>
  BY DEF Restore
<1>3. x \in Ids /\ S \subseteq Ids
  BY LiveFacts DEF TrashedOf
<1>4. final \in FullName
  BY LiveFacts, UniqueNameIsName DEF Row
<1>5. p \in Ids \cup {Nil} /\ CanHold(p, owner)
  BY LiveFacts DEF CanHold, Inv, OneOwnerPerTree, Active
<1>6. RowsInv'
  <2>1. \A y \in Completed(s, bad) : y # x => rows[y].parent \in Completed(s, bad)
    BY <1>3, CompletedParents
  <2> HIDE DEF p
  <2> QED BY <1>1, <1>2, <1>4, <1>5, <2>1, RestoreInv, SameRows, InvParts
<1>7. DiskOK(disk')
  BY <1>1, RenameOK, InvParts
<1>8. Rest'
  BY <1>2, InvParts DEF Rest, SweepOK
<1> QED BY <1>6, <1>7, <1>8, InvNext

LEMMA EraseStep ==
  ASSUME Inv, NEW x \in Live, Erase(x), UNCHANGED <<links, issued, now>>,
         sweep' = sweep \/ Unlist(x)
  PROVE  Inv'
<1>1. PICK s \in Postorders(x, TrashedOf(rows[x].owner)) :
        /\ rows' = [y \in Live \ Removed(s) |-> rows[y]]
        /\ used' = Charge(rows[x].owner, -SizeOf(Removed(s)))
  BY DEF Erase
<1>2. RowsInv'
  BY <1>1, EraseInv, InvParts
<1>3. DiskOK(disk')
  <2>1. disk' = disk \/ disk' = RemoveAll(disk, TrashPath(rows[x].owner, x, rows[x].name))
    BY DEF Erase
  <2> QED BY <2>1, RemoveOK, InvParts
<1>4. Rest'
  <2>1. used' = [u \in Users |-> used'[u]]
    BY <1>1, InvParts DEF Rest, Charge
  <2>2. SweepOK'
    BY InvParts DEF Rest, SweepOK, Unlist
  <2> QED BY <2>1, <2>2, InvParts DEF Rest
<1> QED BY <1>2, <1>3, <1>4, InvNext

\* The purge's bookkeeping, share links, the clock and stuttering.
LEMMA OtherStep ==
  ASSUME Inv,
         \/ PurgeBegin \/ Restart \/ Tick \/ UNCHANGED vars
         \/ \E x \in DOMAIN sweep : PurgeSkip(x)
         \/ \E x \in Live : CreateShare(x) \/ RevokeShare(x)
  PROVE  Inv'
<1> USE DEF SweepOK, Rest
<1>1. UNCHANGED <<rows, disk, issued>>
  BY DEF PurgeBegin, Restart, Tick, PurgeSkip, CreateShare, RevokeShare, vars
<1>2. RowsInv' /\ DiskOK(disk')
  BY <1>1, SameRows, InvParts
<1>3. CASE PurgeBegin
  <2>1. \A x \in Batch : x \in Live /\ rows[x].deleted # Nil
    BY DEF Batch, Expired, Trashed
  <2>2. \A x \in Batch : x \in Ids /\ rows[x].deleted \in Nat
    BY <2>1, LiveFacts DEF Row
  <2>3. sweep' = [x \in Batch |-> rows[x].deleted]
    BY <1>3 DEF PurgeBegin
  <2>4. SweepOK'
    BY <2>2, <2>3
  <2>5. UNCHANGED <<used, links, now>>
    BY <1>3 DEF PurgeBegin
  <2> QED BY <1>2, <2>4, <2>5, InvParts, InvNext
<1>4. CASE \E x \in DOMAIN sweep : PurgeSkip(x)
  BY <1>2, <1>4, InvParts, InvNext DEF PurgeSkip, Unlist
<1>5. CASE Restart \/ UNCHANGED vars
  BY <1>2, <1>5, InvParts, InvNext DEF Restart, vars
<1>6. CASE Tick
  BY <1>2, <1>6, NumbersAreNat, InvParts, InvNext DEF Tick
<1>7. CASE \E x \in Live : CreateShare(x) \/ RevokeShare(x)
  BY <1>2, <1>7, LiveFacts, InvParts, InvNext DEF CreateShare, RevokeShare
<1> QED BY <1>3, <1>4, <1>5, <1>6, <1>7

LEMMA InitInv == Init => Inv
  BY NumbersAreNat
     DEF Init, Inv, TypeOK, RowsOK, DiskOK, SweepOK, OneOwnerPerTree, NoActiveUnderTrash, Live

\* Inv is inductive.
LEMMA NextInv == Inv /\ [Next]_vars => Inv'
<1> SUFFICES ASSUME Inv, [Next]_vars PROVE Inv'
  OBVIOUS
<1>1. ASSUME NEW x \in Ids, Create(x) PROVE Inv'
  BY <1>1, CreateFolderStep, FinalizeUploadStep, CreateBlankDocumentStep,
     CreateShortcutStep, CopyFileStep, CopyShortcutStep DEF Create
<1>2. ASSUME NEW x \in Live, Change(x) PROVE Inv'
  BY <1>2, ReplaceContentStep, MoveStep, CopyFolderStep, DeleteStep, RestoreStep, EraseStep
     DEF Change, PermanentlyDelete, PurgeItem
<1> QED BY <1>1, <1>2, OtherStep DEF Next

-----------------------------------------------------------------------------
(* The theorems. *)

\* Every variable keeps to its type, for any number of users, items and names
\* and any habits of the callers.
THEOREM TypeCorrect == Spec => []TypeOK
<1>1. Inv => TypeOK
  BY DEF Inv
<1> QED BY <1>1, InitInv, NextInv, PTL DEF Spec

\* What is active hangs under active folders only, up to the owner's root,
\* whatever sequence of creates, moves, copies, deletes, restores (partial
\* ones too) and purges led there.
THEOREM ActiveTree == Spec => []NoActiveUnderTrash
<1>1. Inv => NoActiveUnderTrash
  BY DEF Inv
<1> QED BY <1>1, InitInv, NextInv, PTL DEF Spec

\* Parents are folders of the same owner that are still in the table: no purge
\* leaves an orphan row, and no shared folder ever mixes two owners' rows.
THEOREM OwnedTree == Spec => []OneOwnerPerTree
<1>1. Inv => OneOwnerPerTree
  BY DEF Inv
<1> QED BY <1>1, InitInv, NextInv, PTL DEF Spec

\* Only an erased subtree leaves the table.
LEMMA RowsStay ==
  ASSUME Inv, [Next]_vars, NEW y \in Live, y \notin DOMAIN rows'
  PROVE  Trashed(y)
<1>1. ASSUME NEW x \in Ids, Create(x) PROVE FALSE
  <2> DEFINE Inserts == UNCHANGED rows \/ \E row : rows' = Insert(x, row)
  <2>1. Inserts
    <3>1. PICK u \in Users, p \in Live \cup {Nil} :
             \/ \E name \in Requests :
                  \/ CreateFolder(u, p, name, x)
                  \/ \E size \in Sizes : \/ FinalizeUpload(u, p, name, size, x)
                                         \/ CreateBlankDocument(u, p, name, size, x)
             \/ \E t \in Live : \/ CreateShortcut(u, t, p, x)
                                \/ CopyShortcut(u, t, p, x)
                                \/ CopyFile(u, t, p, x)
      BY <1>1 DEF Create
    <3>2. ASSUME NEW name, CreateFolder(u, p, name, x) PROVE Inserts
      BY <3>2 DEF CreateFolder
    <3>3. ASSUME NEW name, NEW size, FinalizeUpload(u, p, name, size, x) PROVE Inserts
      BY <3>3 DEF FinalizeUpload, AddFile
    <3>4. ASSUME NEW name, NEW size, CreateBlankDocument(u, p, name, size, x) PROVE Inserts
      BY <3>4 DEF CreateBlankDocument, AddFile
    <3>5. ASSUME NEW t, CreateShortcut(u, t, p, x) PROVE Inserts
      BY <3>5 DEF CreateShortcut
    <3>6. ASSUME NEW t, CopyShortcut(u, t, p, x) PROVE Inserts
      BY <3>6, <3>5 DEF CopyShortcut
    <3>7. ASSUME NEW t, CopyFile(u, t, p, x) PROVE Inserts
      BY <3>7 DEF CopyFile
    <3> HIDE DEF Inserts
    <3> QED BY <3>1, <3>2, <3>3, <3>4, <3>5, <3>6, <3>7
  <2> QED BY <2>1 DEF Insert, Live
<1>2. ASSUME NEW x \in Live, Erase(x), Trashed(x) PROVE Trashed(y)
  <2>1. PICK s \in Postorders(x, TrashedOf(rows[x].owner)) :
          rows' = [z \in Live \ Removed(s) |-> rows[z]]
    BY <1>2 DEF Erase
  <2>2. y \in Removed(s)
    BY <2>1
  <2>3. x \in Ids /\ TrashedOf(rows[x].owner) \subseteq Ids
    BY LiveFacts DEF TrashedOf
  <2>4. Removed(s) \subseteq TrashedOf(rows[x].owner) \cup {x}
    BY <2>3, CompletedInside DEF Removed
  <2> QED BY <1>2, <2>2, <2>4 DEF TrashedOf
<1>3. ASSUME NEW x \in Live, Change(x) PROVE Trashed(y)
  <2>1. CASE PermanentlyDelete(x) \/ PurgeItem(x)
    BY <1>2, <2>1 DEF PermanentlyDelete, PurgeItem
  <2>2. CASE \E p \in Live \cup {Nil}, u \in Users : CopyFolder(u, x, p)
    <3>1. \E owner, p, final, new : rows' = Copied(owner, x, p, final, new)
      BY <2>2 DEF CopyFolder
    <3> QED BY <3>1 DEF Copied
  <2>3. CASE Restore(x)
    <3>1. UNCHANGED rows \/ \E p, final, back : rows' = Cleared(x, p, final, back)
      BY <2>3 DEF Restore
    <3> QED BY <3>1 DEF Cleared, Live
  <2>4. CASE Delete(x)
    BY <2>4 DEF Delete, Live
  <2>5. CASE \/ \E size \in Sizes : ReplaceContent(x, size)
             \/ \E p \in Live \cup {Nil}, name \in Requests : Move(x, name, p)
    <3>1. DOMAIN rows' = Live
      BY <2>5 DEF ReplaceContent, Move, Live
    <3> QED BY <3>1
  <2> QED BY <1>3, <2>1, <2>2, <2>3, <2>4, <2>5 DEF Change
<1>4. CASE UNCHANGED rows
  BY <1>4 DEF Live
<1>5. CASE UNCHANGED vars \/ PurgeBegin \/ Restart \/ Tick
  BY <1>4, <1>5 DEF vars, PurgeBegin, Restart, Tick
<1>6. CASE \/ \E x \in DOMAIN sweep : PurgeSkip(x)
           \/ \E x \in Live : CreateShare(x) \/ RevokeShare(x)
  BY <1>4, <1>6 DEF PurgeSkip, CreateShare, RevokeShare
<1> QED BY <1>1, <1>3, <1>5, <1>6 DEF Next

\* A row leaves the table out of the trash only, whichever subtree a permanent
\* delete or a purge takes and wherever it stops.
THEOREM NothingActiveIsLost == Spec => RowsLeaveViaTrash
<1>1. Inv /\ [Next]_vars => [\A x \in Live : x \notin DOMAIN rows' => Trashed(x)]_vars
  BY RowsStay
<1> QED BY <1>1, InitInv, NextInv, PTL DEF Spec, RowsLeaveViaTrash
=============================================================================
