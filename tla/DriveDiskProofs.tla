--------------------------- MODULE DriveDiskProofs ---------------------------
(* Disk and table agree.  The first part is about paths, the second about    *)
(* tables, the place of each row's bytes and a disk that has them there; the *)
(* third shows that each action of Drive keeps it so.                        *)
EXTENDS DriveTreeProofs, SequenceTheorems

-----------------------------------------------------------------------------
(* Paths. *)

LEMMA PrefixMeans ==
  ASSUME NEW S, NEW p \in Seq(S), NEW q \in Seq(S)
  PROVE  IsPrefix(p, q) <=> Len(p) <= Len(q) /\ \A i \in 1..Len(p) : p[i] = q[i]
<1>0. /\ Len(p) \in Nat /\ Len(q) \in Nat
      /\ \A i \in 1..Len(p) : p[i] \in S
      /\ \A i \in 1..Len(q) : q[i] \in S
  BY LenProperties, ElementOfSeq
<1>1. SubSeq(p, 1, Len(p)) = p
  BY SubSeqFull
<1> SUFFICES ASSUME Len(p) <= Len(q)
             PROVE  p = SubSeq(q, 1, Len(p)) <=> \A i \in 1..Len(p) : p[i] = q[i]
  BY <1>1 DEF IsPrefix
<1>2. \A i \in 1..Len(p) : q[i] \in S
  BY <1>0
<1>3. /\ SubSeq(q, 1, Len(p)) \in Seq(S)
      /\ Len(SubSeq(q, 1, Len(p))) = IF 1 <= Len(p) THEN Len(p) - 1 + 1 ELSE 0
      /\ \A i \in 1..(Len(p) - 1 + 1) : SubSeq(q, 1, Len(p))[i] = q[1 + i - 1]
  BY <1>0, <1>2, SubSeqProperties
<1> DEFINE s == SubSeq(q, 1, Len(p))
<1>4. s \in Seq(S) /\ Len(s) = Len(p) /\ \A i \in 1..Len(p) : s[i] = q[i]
  BY <1>0, <1>3
<1> HIDE DEF s
<1>5. p = s => \A i \in 1..Len(p) : p[i] = q[i]
  BY <1>4
<1>6. (\A i \in 1..Len(p) : p[i] = q[i]) => p = s
  BY <1>4, SeqEqual
<1> QED BY <1>5, <1>6 DEF s

LEMMA PrefixSelf == ASSUME NEW S, NEW p \in Seq(S) PROVE IsPrefix(p, p)
  BY PrefixMeans, LenProperties

LEMMA PrefixSameLength ==
  ASSUME NEW S, NEW p \in Seq(S), NEW q \in Seq(S), IsPrefix(p, q), Len(q) <= Len(p)
  PROVE  p = q
<1>1. Len(p) \in Nat /\ Len(q) \in Nat
  BY LenProperties
<1>2. Len(p) = Len(q) /\ \A i \in 1..Len(p) : p[i] = q[i]
  BY <1>1, PrefixMeans
<1> QED BY <1>2, SeqEqual

LEMMA PrefixAppend ==
  ASSUME NEW S, NEW p \in Seq(S), NEW q \in Seq(S), NEW e \in S
  PROVE  IsPrefix(p, Append(q, e)) <=> IsPrefix(p, q) \/ p = Append(q, e)
<1> DEFINE a == Append(q, e)
<1>1. /\ a \in Seq(S) /\ Len(a) = Len(q) + 1 /\ \A i \in 1..Len(q) : a[i] = q[i]
      /\ Len(p) \in Nat /\ Len(q) \in Nat
  BY AppendProperties, LenProperties
<1> HIDE DEF a
<1>2. IsPrefix(p, a) <=> Len(p) <= Len(q) + 1 /\ \A i \in 1..Len(p) : p[i] = a[i]
  BY <1>1, PrefixMeans
<1>3. CASE Len(p) <= Len(q)
  <2>1. \A i \in 1..Len(p) : a[i] = q[i]
    BY <1>1, <1>3
  <2>2. p # a
    BY <1>1, <1>3
  <2> QED BY <1>1, <1>2, <1>3, <2>1, <2>2, PrefixMeans DEF a
<1>4. CASE Len(p) > Len(q)
  <2>1. ~IsPrefix(p, q)
    BY <1>1, <1>4, PrefixMeans
  <2>2. IsPrefix(p, a) => p = a
    BY <1>1, <1>4, PrefixSameLength, PrefixMeans
  <2>3. p = a => IsPrefix(p, a)
    BY <1>1, PrefixSelf
  <2> QED BY <2>1, <2>2, <2>3 DEF a
<1> QED BY <1>1, <1>3, <1>4

\* A prefix is what a path starts with: the rest can be named.
LEMMA PrefixSplit ==
  ASSUME NEW S, NEW p \in Seq(S), NEW q \in Seq(S), IsPrefix(p, q)
  PROVE  \E t \in Seq(S) : q = p \o t
<1>1. PICK m \in Nat, k \in Nat : m = Len(p) /\ k = Len(q)
  BY LenProperties
<1>2. m <= k /\ p = SubSeq(q, 1, m)
  BY <1>1, SubSeqFull DEF IsPrefix
<1>3. \A i \in (m + 1)..k : q[i] \in S
  BY <1>1, ElementOfSeq
<1>4. SubSeq(q, m + 1, k) \in Seq(S)
  BY <1>1, <1>3, SubSeqProperties
<1>5. SubSeq(q, 1, m) \o SubSeq(q, m + 1, k) = SubSeq(q, 1, k)
  <2>1. 1 \in 1..(Len(q) + 1) /\ m \in (1 - 1)..Len(q) /\ k \in m..Len(q)
    BY <1>1, <1>2
  <2> QED BY <2>1, ConcatAdjacentSubSeq
<1>6. SubSeq(q, 1, k) = q
  BY <1>1, SubSeqFull
<1>7. q = p \o SubSeq(q, m + 1, k)
  BY <1>2, <1>5, <1>6
<1> QED BY <1>4, <1>7, Zenon

LEMMA ConcatPrefix ==
  ASSUME NEW S, NEW p \in Seq(S), NEW t \in Seq(S)
  PROVE  IsPrefix(p, p \o t)
<1>1. /\ p \o t \in Seq(S) /\ Len(p \o t) = Len(p) + Len(t)
      /\ \A i \in 1..(Len(p) + Len(t)) : (p \o t)[i] = IF i <= Len(p) THEN p[i] ELSE t[i - Len(p)]
      /\ Len(p) \in Nat /\ Len(t) \in Nat
  BY ConcatProperties, LenProperties
<1>2. PICK q \in Seq(S) : /\ q = p \o t /\ Len(q) = Len(p) + Len(t)
                          /\ \A i \in 1..(Len(p) + Len(t)) :
                               q[i] = IF i <= Len(p) THEN p[i] ELSE t[i - Len(p)]
  BY <1>1, Zenon
<1>3. Len(p) <= Len(q) /\ \A i \in 1..Len(p) : p[i] = q[i]
  BY <1>1, <1>2
<1> QED BY <1>2, <1>3, PrefixMeans

LEMMA AppendEnd ==
  ASSUME NEW S, NEW e \in S
  PROVE  \E g \in Seq(S) : g = <<e>> /\ \A q \in Seq(S) : Append(q, e) = q \o g
<1>1. PICK g \in Seq(S) : g = <<e>>
  <2>1. <<e>> = [i \in 1..1 |-> e] /\ [i \in 1..1 |-> e] \in [1..1 -> S]
    OBVIOUS
  <2>2. [i \in 1..1 |-> e] \in Seq(S)
    BY <2>1, SeqDef
  <2> QED BY <2>1, <2>2
<1>2. ASSUME NEW q \in Seq(S) PROVE Append(q, e) = q \o g
  BY <1>1, AppendIsConcat
<1> QED BY <1>1, <1>2

\* Concatenation under a name of its own: the lemmas below are all that the
\* provers then know of it.
Cat(p, t) == p \o t

LEMMA CatRegroup ==
  ASSUME NEW S, NEW p \in Seq(S), NEW t \in Seq(S), NEW g \in Seq(S)
  PROVE  /\ Cat(p, t) \in Seq(S)
         /\ Cat(Cat(p, t), g) = Cat(p, Cat(t, g))
<1>1. p \o t \in Seq(S)
  BY ConcatProperties
<1>2. (p \o t) \o g = p \o (t \o g)
  BY ConcatAssociative
<1> QED BY <1>1, <1>2 DEF Cat

LEMMA CatCancels ==
  ASSUME NEW S, NEW p \in Seq(S), NEW t \in Seq(S), NEW u \in Seq(S), Cat(p, t) = Cat(p, u)
  PROVE  t = u
BY ConcatSimplifications DEF Cat

LEMMA CatEnd ==
  ASSUME NEW S, NEW e \in S
  PROVE  \E g \in Seq(S) : \A q \in Seq(S) : Append(q, e) = Cat(q, g)
BY AppendEnd DEF Cat

LEMMA CatSplit ==
  ASSUME NEW S, NEW p \in Seq(S), NEW q \in Seq(S), IsPrefix(p, q)
  PROVE  \E t \in Seq(S) : q = Cat(p, t)
BY PrefixSplit DEF Cat

\* What is under p is moved to new, and nothing else of it changes.
LEMMA RebaseConcat ==
  ASSUME NEW S, NEW p \in Seq(S), NEW t \in Seq(S), NEW new
  PROVE  Rebase(p \o t, p, new) = new \o t
<1>1. PICK m \in Nat, n \in Nat : m = Len(p) /\ n = Len(t)
  BY LenProperties
<1>2. Len(p \o t) = m + n
  BY <1>1, ConcatProperties
<1>3. SubSeq(p \o t, m + 1, m + n) = t
  <2>1. CASE n = 0
    <3>1. t = << >>
      BY <1>1, <2>1, EmptySeq
    <3>2. m + n < m + 1
      BY <2>1
    <3> QED BY <3>1, <3>2, SubSeqEmpty
  <2>2. CASE n > 0
    <3>1. m + 1 \in (Len(p) + 1)..(Len(p) + Len(t)) /\ m + n \in (Len(p) + 1)..(Len(p) + Len(t))
      BY <1>1, <2>2
    <3>2. SubSeq(p \o t, m + 1, m + n) = SubSeq(t, (m + 1) - Len(p), (m + n) - Len(p))
      BY <3>1, SubSeqOfConcat2
    <3>3. (m + 1) - Len(p) = 1 /\ (m + n) - Len(p) = Len(t)
      BY <1>1
    <3>4. SubSeq(t, 1, Len(t)) = t
      BY SubSeqFull
    <3>5. SubSeq(t, (m + 1) - Len(p), (m + n) - Len(p)) = SubSeq(t, 1, Len(t))
      BY <3>3, Zenon
    <3> QED BY <3>2, <3>4, <3>5, Zenon
  <2> QED BY <1>1, <2>1, <2>2
<1> QED BY <1>1, <1>2, <1>3 DEF Rebase

LEMMA RebaseCat ==
  ASSUME NEW S, NEW p \in Seq(S), NEW t \in Seq(S), NEW new
  PROVE  Rebase(Cat(p, t), p, new) = Cat(new, t)
BY RebaseConcat DEF Cat

LEMMA RebaseSelf ==
  ASSUME NEW S, NEW p \in Seq(S), NEW new \in Seq(S)
  PROVE  Rebase(p, p, new) = new
<1>1. PICK t \in Seq(S) : t = << >>
  BY EmptySeq
<1>2. p \o t = p /\ new \o t = new
  BY <1>1, ConcatEmptySeq
<1>3. Rebase(p \o t, p, new) = new \o t
  BY <1>1, RebaseConcat
<1> QED BY <1>2, <1>3

LEMMA RebaseAppend ==
  ASSUME NEW S, NEW old \in Seq(S), NEW new \in Seq(S), NEW q \in Seq(S), NEW e \in S,
         IsPrefix(old, q)
  PROVE  /\ Rebase(q, old, new) \in Seq(S)
         /\ Rebase(Append(q, e), old, new) = Append(Rebase(q, old, new), e)
<1>1. PICK t \in Seq(S) : q = Cat(old, t)
  BY CatSplit
<1>2. PICK g \in Seq(S) : \A r \in Seq(S) : Append(r, e) = Cat(r, g)
  BY CatEnd
<1>3. t \in Seq(S) /\ g \in Seq(S)
  BY <1>1, <1>2
<1>4. /\ Cat(new, t) \in Seq(S) /\ Cat(t, g) \in Seq(S)
      /\ Cat(Cat(old, t), g) = Cat(old, Cat(t, g))
      /\ Cat(Cat(new, t), g) = Cat(new, Cat(t, g))
  BY <1>3, CatRegroup
<1>5. /\ Rebase(Cat(old, t), old, new) = Cat(new, t)
      /\ Rebase(Cat(old, Cat(t, g)), old, new) = Cat(new, Cat(t, g))
  BY <1>3, <1>4, RebaseCat
<1>6. Append(q, e) = Cat(q, g) /\ Append(Cat(new, t), e) = Cat(Cat(new, t), g)
  BY <1>2, <1>4
<1> QED BY <1>1, <1>4, <1>5, <1>6

\* Two paths under old stay two.
LEMMA RebaseInjective ==
  ASSUME NEW S, NEW old \in Seq(S), NEW new \in Seq(S), NEW q \in Seq(S), NEW r \in Seq(S),
         IsPrefix(old, q), IsPrefix(old, r), Rebase(q, old, new) = Rebase(r, old, new)
  PROVE  q = r
<1>1. PICK t \in Seq(S), u \in Seq(S) : q = Cat(old, t) /\ r = Cat(old, u)
  BY CatSplit
<1>2. Cat(new, t) = Cat(new, u)
  BY <1>1, RebaseCat
<1> QED BY <1>1, <1>2, CatCancels

(***************************************************************************)
(* Sub and Depth are Append and Len; under these names the provers take    *)
(* them for what the lemmas below say of them and nothing else.            *)
(***************************************************************************)
Seg == Users \cup {"files", "trash"} \cup FullName \cup (Ids \X FullName)
Paths == Seq(Seg)
Sub(path, e) == Append(path, e)
Depth(path) == Len(path)

LEMMA SubPaths ==
  ASSUME NEW p \in Paths, NEW e \in Seg
  PROVE  Sub(p, e) \in Paths /\ Depth(Sub(p, e)) = Depth(p) + 1
BY AppendProperties DEF Paths, Sub, Depth

LEMMA DepthNat == ASSUME NEW p \in Paths PROVE Depth(p) \in Nat
BY LenProperties DEF Paths, Depth

LEMMA SubInjective ==
  ASSUME NEW p \in Paths, NEW e \in Seg, NEW q \in Paths, NEW f \in Seg, Sub(p, e) = Sub(q, f)
  PROVE  p = q /\ e = f
BY AppendInjective DEF Paths, Sub

LEMMA SelfUnder == ASSUME NEW p \in Paths PROVE IsPrefix(p, p)
BY PrefixSelf DEF Paths

LEMMA UnderSub ==
  ASSUME NEW p \in Paths, NEW q \in Paths, NEW e \in Seg
  PROVE  IsPrefix(p, Sub(q, e)) <=> IsPrefix(p, q) \/ p = Sub(q, e)
BY PrefixAppend DEF Paths, Sub

LEMMA NotUnderHigher ==
  ASSUME NEW p \in Paths, NEW q \in Paths, IsPrefix(p, q), Depth(q) <= Depth(p)
  PROVE  p = q
BY PrefixSameLength DEF Paths, Depth

LEMMA RebaseTop ==
  ASSUME NEW p \in Paths, NEW new \in Paths
  PROVE  Rebase(p, p, new) = new
BY RebaseSelf DEF Paths

LEMMA RebaseSub ==
  ASSUME NEW old \in Paths, NEW new \in Paths, NEW q \in Paths, NEW e \in Seg, IsPrefix(old, q)
  PROVE  /\ Rebase(q, old, new) \in Paths
         /\ Rebase(Sub(q, e), old, new) = Sub(Rebase(q, old, new), e)
BY RebaseAppend DEF Paths, Sub

LEMMA RebaseKeepsTwo ==
  ASSUME NEW old \in Paths, NEW new \in Paths, NEW q \in Paths, NEW r \in Paths,
         IsPrefix(old, q), IsPrefix(old, r), Rebase(q, old, new) = Rebase(r, old, new)
  PROVE  q = r
BY RebaseInjective DEF Paths

\* The directories that a path needs are its parent's and itself.
LEMMA SubLineage ==
  ASSUME NEW p \in Paths, NEW e \in Seg, Depth(p) >= RootLen
  PROVE  /\ Lineage(Sub(p, e)) = Lineage(p) \cup {Sub(p, e)}
         /\ Front(Sub(p, e)) = p
<1>1. PICK n \in Nat : n = Len(p) /\ n >= 2
  BY LenProperties DEF Paths, Depth, RootLen
<1>2. PICK f \in Seq(Seg) : \A r \in Seq(Seg) : Append(r, e) = r \o f
  BY AppendEnd
<1>3. PICK q \in Paths : q = Append(p, e) /\ q = p \o f /\ Len(q) = n + 1
  <2>1. Append(p, e) \in Seq(Seg) /\ Len(Append(p, e)) = n + 1
    BY <1>1, AppendProperties DEF Paths
  <2>2. Append(p, e) = p \o f
    BY <1>2 DEF Paths
  <2> QED BY <2>1, <2>2, Zenon DEF Paths
<1>4. ASSUME NEW k \in 1..n PROVE SubSeq(q, 1, k) = SubSeq(p, 1, k)
  <2>1. 1 \in 1..Len(p) /\ k \in 1..Len(p)
    BY <1>1
  <2>2. SubSeq(p \o f, 1, k) = SubSeq(p, 1, k)
    BY <1>2, <2>1, SubSeqOfConcat1 DEF Paths
  <2> QED BY <1>3, <2>2
<1>5. SubSeq(q, 1, n + 1) = q /\ SubSeq(p, 1, n) = p
  BY <1>1, <1>3, SubSeqFull DEF Paths
<1>6. Lineage(q) = {SubSeq(q, 1, k) : k \in 3..(n + 1)}
  BY <1>3 DEF Lineage, RootLen
<1>7. Lineage(p) = {SubSeq(p, 1, k) : k \in 3..n}
  BY <1>1 DEF Lineage, RootLen
<1>8. \A k \in 3..n : k \in 1..n
  BY <1>1
<1>9. \A k : k \in 3..(n + 1) <=> k \in 3..n \/ k = n + 1
  BY <1>1
<1>10. {SubSeq(q, 1, k) : k \in 3..(n + 1)} = {SubSeq(p, 1, k) : k \in 3..n} \cup {q}
  BY <1>4, <1>5, <1>8, <1>9, Zenon
<1>11. Front(q) = p
  <2>1. Front(q) = SubSeq(q, 1, n) /\ n \in 1..n
    BY <1>1, <1>3 DEF Front
  <2> QED BY <1>4, <1>5, <2>1
<1> QED BY <1>3, <1>6, <1>7, <1>10, <1>11 DEF Sub

LEMMA RootPaths ==
  ASSUME NEW u \in Users
  PROVE  /\ FilesRoot(u) \in Paths /\ <<u, "trash">> \in Paths
         /\ Depth(FilesRoot(u)) = 2 /\ Depth(<<u, "trash">>) = 2
         /\ Lineage(FilesRoot(u)) = {} /\ Lineage(<<u, "trash">>) = {}
         /\ \A x \in Ids, name \in FullName :
              TrashPath(u, x, name) = Sub(<<u, "trash">>, <<x, name>>) /\ <<x, name>> \in Seg
<1>1. u \in Seg /\ "files" \in Seg /\ "trash" \in Seg
  BY DEF Seg
<1>2. FilesRoot(u) \in Paths /\ <<u, "trash">> \in Paths
  BY <1>1 DEF Paths, FilesRoot
<1>3. Depth(FilesRoot(u)) = 2 /\ Depth(<<u, "trash">>) = 2
  BY DEF Depth, FilesRoot
<1>4. 3..2 = {}
  OBVIOUS
<1>5. Lineage(FilesRoot(u)) = {} /\ Lineage(<<u, "trash">>) = {}
  BY <1>3, <1>4 DEF Lineage, Depth, RootLen
<1>6. ASSUME NEW x \in Ids, NEW name \in FullName
      PROVE  TrashPath(u, x, name) = Sub(<<u, "trash">>, <<x, name>>) /\ <<x, name>> \in Seg
  BY DEF TrashPath, Sub, Seg
<1> QED BY <1>2, <1>3, <1>5, <1>6

\* The first three segments of a path tell whose it is, which root it is
\* under, and the name that stands there.
LEMMA StartsInFiles ==
  ASSUME NEW u \in Users, NEW v \in Users, NEW e \in Seg, NEW f \in Seg,
         Sub(FilesRoot(u), e) = Sub(FilesRoot(v), f)
  PROVE  u = v /\ e = f
<1>1. FilesRoot(u) \in Paths /\ FilesRoot(v) \in Paths
  BY RootPaths
<1>2. FilesRoot(u) = FilesRoot(v) => u = v
  BY DEF FilesRoot
<1> QED BY <1>1, <1>2, SubInjective

LEMMA StartsInTrash ==
  ASSUME NEW u \in Users, NEW v \in Users, NEW e \in Seg, NEW f \in Seg,
         Sub(<<u, "trash">>, e) = Sub(<<v, "trash">>, f)
  PROVE  u = v /\ e = f
<1>1. <<u, "trash">> \in Paths /\ <<v, "trash">> \in Paths
  BY RootPaths
<1> QED BY <1>1, SubInjective

LEMMA StartsApart ==
  ASSUME NEW u \in Users, NEW v \in Users, NEW e \in Seg, NEW f \in Seg,
         Sub(FilesRoot(u), e) = Sub(<<v, "trash">>, f)
  PROVE  FALSE
<1>1. FilesRoot(u) \in Paths /\ <<v, "trash">> \in Paths
  BY RootPaths
<1>2. FilesRoot(u) # <<v, "trash">>
  BY DEF FilesRoot
<1> QED BY <1>1, <1>2, SubInjective

-----------------------------------------------------------------------------
(***************************************************************************)
(* Tables.  r is a table like rows, L a function that has for each of its  *)
(* rows the place of the bytes: at the start of a path (right under        *)
(* files/, or the top of a trashed subtree), or in the parent's place.     *)
(***************************************************************************)
TopIn(r, x) ==
  r[x].deleted # Nil /\ (r[x].parent = Nil \/ r[r[x].parent].deleted = Nil)

Start(r, x) == r[x].parent = Nil \/ TopIn(r, x)

First(r, x) ==
  IF r[x].deleted # Nil THEN Sub(<<r[x].owner, "trash">>, <<x, r[x].name>>)
  ELSE Sub(FilesRoot(r[x].owner), r[x].name)

PlaceOf(r, L, x) == IF Start(r, x) THEN First(r, x) ELSE Sub(L[r[x].parent], r[x].name)

Places(r, L) == \A x \in DOMAIN r : L[x] = PlaceOf(r, L, x)

\* What the proofs so far have shown of the table.
Forest(r) ==
  /\ DOMAIN r \subseteq Ids
  /\ \A x \in DOMAIN r : r[x] \in Row
  /\ \A x \in DOMAIN r : r[x].parent # Nil =>
       /\ r[x].parent \in DOMAIN r
       /\ r[r[x].parent].owner = r[x].owner
       /\ r[r[x].parent].type = "folder"
       /\ r[r[x].parent].target = Nil
       /\ r[x].deleted = Nil => r[r[x].parent].deleted = Nil
  /\ NoLoop(r) /\ NamesUnique(r) /\ DistinctInTrash(r)

LEMMA RowSegs ==
  ASSUME NEW r, Forest(r), NEW x \in DOMAIN r
  PROVE  /\ x \in Ids /\ x # Nil /\ r[x].owner \in Users /\ r[x].name \in FullName
         /\ r[x].name \in Seg /\ <<x, r[x].name>> \in Seg
<1>1. x \in Ids /\ x # Nil /\ r[x] \in Row
  BY NilIsNoValue DEF Forest
<1>2. r[x].owner \in Users /\ r[x].name \in FullName
  BY <1>1 DEF Row
<1> QED BY <1>1, <1>2 DEF Seg

LEMMA FirstPath ==
  ASSUME NEW r, Forest(r), NEW x \in DOMAIN r
  PROVE  First(r, x) \in Paths /\ Depth(First(r, x)) = 3
<1>1. /\ r[x].owner \in Users /\ r[x].name \in Seg /\ <<x, r[x].name>> \in Seg
  BY RowSegs
<1>2. /\ FilesRoot(r[x].owner) \in Paths /\ <<r[x].owner, "trash">> \in Paths
      /\ Depth(FilesRoot(r[x].owner)) = 2 /\ Depth(<<r[x].owner, "trash">>) = 2
  BY <1>1, RootPaths
<1>3. CASE r[x].deleted # Nil
  <2>1. /\ Sub(<<r[x].owner, "trash">>, <<x, r[x].name>>) \in Paths
        /\ Depth(Sub(<<r[x].owner, "trash">>, <<x, r[x].name>>)) = 2 + 1
    BY <1>1, <1>2, SubPaths
  <2> QED BY <1>3, <2>1 DEF First
<1>4. CASE r[x].deleted = Nil
  <2>1. /\ Sub(FilesRoot(r[x].owner), r[x].name) \in Paths
        /\ Depth(Sub(FilesRoot(r[x].owner), r[x].name)) = 2 + 1
    BY <1>1, <1>2, SubPaths
  <2> QED BY <1>4, <2>1 DEF First
<1> QED BY <1>3, <1>4

\* Every place is a path, three segments long where it starts.
LEMMA PlacesArePaths ==
  ASSUME NEW r, Forest(r), NEW L, Places(r, L)
  PROVE  \A x \in DOMAIN r :
           /\ L[x] \in Paths /\ Depth(L[x]) \in Nat /\ Depth(L[x]) >= 3
           /\ Start(r, x) => Depth(L[x]) = 3 /\ L[x] = First(r, x)
           /\ ~Start(r, x) =>
                /\ Depth(L[x]) > 3 /\ r[x].parent \in DOMAIN r
                /\ L[x] = Sub(L[r[x].parent], r[x].name)
                /\ Depth(L[x]) = Depth(L[r[x].parent]) + 1
<1> DEFINE Good(x) == L[x] \in Paths /\ Depth(L[x]) \in Nat /\ Depth(L[x]) >= 3
           C == {x \in DOMAIN r : ~Good(x)}
<1>1. ASSUME NEW x \in DOMAIN r, Start(r, x)
      PROVE  L[x] = First(r, x) /\ Depth(L[x]) = 3 /\ Good(x)
  BY <1>1, FirstPath DEF Places, PlaceOf
<1>2. ASSUME NEW x \in DOMAIN r, ~Start(r, x)
      PROVE  /\ r[x].parent \in DOMAIN r
             /\ L[x] = Sub(L[r[x].parent], r[x].name)
             /\ Good(r[x].parent) => /\ Good(x)
                                     /\ Depth(L[x]) = Depth(L[r[x].parent]) + 1
  <2>1. r[x].parent \in DOMAIN r /\ L[x] = Sub(L[r[x].parent], r[x].name)
    BY <1>2 DEF Start, Forest, Places, PlaceOf
  <2>2. r[x].name \in Seg
    BY RowSegs
  <2>3. ASSUME Good(r[x].parent)
        PROVE  Good(x) /\ Depth(L[x]) = Depth(L[r[x].parent]) + 1
    <3>1. L[x] \in Paths /\ Depth(L[x]) = Depth(L[r[x].parent]) + 1
      BY <2>1, <2>2, <2>3, SubPaths
    <3> QED BY <2>3, <3>1
  <2> QED BY <2>1, <2>3
<1>3. C = {}
  <2>1. SUFFICES ASSUME C # {} PROVE FALSE
    OBVIOUS
  <2>2. PICK y \in C : r[y].parent \notin C
    BY <2>1 DEF Forest, NoLoop
  <2>3. y \in DOMAIN r /\ ~Good(y)
    OBVIOUS
  <2>4. ~Start(r, y)
    BY <1>1, <2>3
  <2>5. Good(r[y].parent)
    BY <1>2, <2>2, <2>3, <2>4
  <2> QED BY <1>2, <2>3, <2>4, <2>5
<1>4. \A x \in DOMAIN r : Good(x)
  BY <1>3
<1>5. ASSUME NEW x \in DOMAIN r, ~Start(r, x)
      PROVE  /\ Depth(L[x]) > 3 /\ r[x].parent \in DOMAIN r
             /\ L[x] = Sub(L[r[x].parent], r[x].name)
             /\ Depth(L[x]) = Depth(L[r[x].parent]) + 1
  <2>1. r[x].parent \in DOMAIN r /\ Good(r[x].parent)
    BY <1>2, <1>4, <1>5
  <2> QED BY <1>2, <1>5, <2>1
<1> HIDE DEF C
<1> QED BY <1>1, <1>4, <1>5

\* No two rows have their bytes in one place.
LEMMA PlacesDiffer ==
  ASSUME NEW r, Forest(r), NEW L, Places(r, L)
  PROVE  \A x, y \in DOMAIN r : L[x] = L[y] => x = y
<1> DEFINE C == {x \in DOMAIN r : \E y \in DOMAIN r : y # x /\ L[x] = L[y]}
<1> SUFFICES ASSUME C # {} PROVE FALSE
  OBVIOUS
<1>1. PICK x \in C : r[x].parent \notin C
  BY DEF Forest, NoLoop
<1>2. PICK y \in DOMAIN r : y # x /\ L[x] = L[y]
  BY <1>1
<1>3. x \in DOMAIN r
  BY <1>1
<1>4. Start(r, x) <=> Start(r, y)
  BY <1>2, <1>3, PlacesArePaths
<1>5. /\ r[x].owner \in Users /\ r[x].name \in Seg /\ <<x, r[x].name>> \in Seg
      /\ r[y].owner \in Users /\ r[y].name \in Seg /\ <<y, r[y].name>> \in Seg
  BY <1>2, <1>3, RowSegs
<1>6. CASE Start(r, x)
  <2>1. First(r, x) = First(r, y)
    BY <1>2, <1>3, <1>4, <1>6, PlacesArePaths
  <2>2. CASE r[x].deleted # Nil /\ r[y].deleted # Nil
    <3>0. Sub(<<r[x].owner, "trash">>, <<x, r[x].name>>) = Sub(<<r[y].owner, "trash">>, <<y, r[y].name>>)
      BY <2>1, <2>2 DEF First
    <3>1. <<x, r[x].name>> = <<y, r[y].name>>
      BY ONLY <1>5, <3>0, StartsInTrash
    <3> QED BY <1>2, <3>1
  <2>3. CASE r[x].deleted = Nil /\ r[y].deleted = Nil
    <3>0. Sub(FilesRoot(r[x].owner), r[x].name) = Sub(FilesRoot(r[y].owner), r[y].name)
      BY <2>1, <2>3 DEF First
    <3>1. r[x].owner = r[y].owner /\ r[x].name = r[y].name
      BY ONLY <1>5, <3>0, StartsInFiles
    <3>2. r[x].parent = Nil /\ r[y].parent = Nil
      BY <1>4, <1>6, <2>3 DEF Start, TopIn
    <3> QED BY <1>2, <1>3, <2>3, <3>1, <3>2 DEF Forest, NamesUnique
  <2>4. CASE r[x].deleted = Nil /\ r[y].deleted # Nil
    <3>1. Sub(FilesRoot(r[x].owner), r[x].name) = Sub(<<r[y].owner, "trash">>, <<y, r[y].name>>)
      BY <2>1, <2>4 DEF First
    <3> QED BY ONLY <1>5, <3>1, StartsApart
  <2>5. CASE r[x].deleted # Nil /\ r[y].deleted = Nil
    <3>1. Sub(FilesRoot(r[y].owner), r[y].name) = Sub(<<r[x].owner, "trash">>, <<x, r[x].name>>)
      BY <2>1, <2>5 DEF First
    <3> QED BY ONLY <1>5, <3>1, StartsApart
  <2> QED BY <2>2, <2>3, <2>4, <2>5
<1>7. CASE ~Start(r, x)
  <2> DEFINE p == r[x].parent
             q == r[y].parent
  <2>1. /\ p \in DOMAIN r /\ q \in DOMAIN r /\ L[p] \in Paths /\ L[q] \in Paths
        /\ L[x] = Sub(L[p], r[x].name) /\ L[y] = Sub(L[q], r[y].name)
    BY <1>2, <1>3, <1>4, <1>7, PlacesArePaths
  <2>2. L[p] = L[q] /\ r[x].name = r[y].name
    <3>1. Sub(L[p], r[x].name) = Sub(L[q], r[y].name)
      BY <1>2, <2>1
    <3> QED BY ONLY <1>5, <2>1, <3>1, SubInjective
  <2>3. p = q
    BY <1>1, <2>1, <2>2
  <2>4. p # Nil /\ r[x].owner = r[y].owner
    BY <1>2, <1>3, <1>7, <2>3 DEF Forest, Start
  <2>5. CASE r[p].deleted # Nil
    <3>1. r[x].deleted # Nil /\ r[y].deleted # Nil
      BY <1>2, <1>3, <2>3, <2>4, <2>5 DEF Forest
    <3> QED BY <1>2, <1>3, <2>1, <2>2, <2>3, <2>5, <3>1 DEF Forest, DistinctInTrash
  <2>6. CASE r[p].deleted = Nil
    <3>1. r[x].deleted = Nil /\ r[y].deleted = Nil
      BY <1>4, <1>7, <2>3, <2>6 DEF Start, TopIn
    <3> QED BY <1>2, <1>3, <2>2, <2>3, <2>4, <3>1 DEF Forest, NamesUnique
  <2> QED BY <2>5, <2>6
<1> QED BY <1>6, <1>7

\* What is under x's place is x's, or what is under it in the table.
LEMMA UnderPlace ==
  ASSUME NEW r, Forest(r), NEW L, Places(r, L), NEW x \in DOMAIN r, NEW y \in DOMAIN r
  PROVE  /\ IsPrefix(L[x], L[y]) /\ y # x =>
              ~Start(r, y) /\ r[y].parent \in DOMAIN r /\ IsPrefix(L[x], L[r[y].parent])
         /\ ~Start(r, y) /\ IsPrefix(L[x], L[r[y].parent]) => IsPrefix(L[x], L[y])
         /\ IsPrefix(L[x], L[x])
<1>1. L[x] \in Paths /\ L[y] \in Paths /\ Depth(L[x]) >= 3 /\ Depth(L[x]) \in Nat
  BY PlacesArePaths
<1>2. IsPrefix(L[x], L[x])
  BY <1>1, SelfUnder
<1>3. L[x] = L[y] => x = y
  BY PlacesDiffer
<1>4. CASE Start(r, y)
  <2>1. Depth(L[y]) = 3
    BY <1>4, PlacesArePaths
  <2>2. IsPrefix(L[x], L[y]) => L[x] = L[y]
    BY <1>1, <2>1, NotUnderHigher
  <2> QED BY <1>2, <1>3, <1>4, <2>2
<1>5. CASE ~Start(r, y)
  <2>1. /\ r[y].parent \in DOMAIN r /\ L[r[y].parent] \in Paths
        /\ L[y] = Sub(L[r[y].parent], r[y].name)
    BY <1>5, PlacesArePaths
  <2>2. r[y].name \in Seg
    BY RowSegs
  <2>3. IsPrefix(L[x], L[y]) <=> IsPrefix(L[x], L[r[y].parent]) \/ L[x] = L[y]
    BY <1>1, <2>1, <2>2, UnderSub
  <2> QED BY <1>2, <1>3, <1>5, <2>1, <2>3
<1> QED BY <1>4, <1>5

\* Nothing is under a shortcut.
LEMMA ShortcutAlone ==
  ASSUME NEW r, Forest(r), NEW L, Places(r, L), NEW x \in DOMAIN r, r[x].target # Nil
  PROVE  \A y \in DOMAIN r : IsPrefix(L[x], L[y]) <=> y = x
<1> DEFINE C == {y \in DOMAIN r : y # x /\ IsPrefix(L[x], L[y])}
<1>1. C = {}
  <2> SUFFICES ASSUME C # {} PROVE FALSE
    OBVIOUS
  <2>1. PICK y \in C : r[y].parent \notin C
    BY DEF Forest, NoLoop
  <2>2. ~Start(r, y) /\ r[y].parent \in DOMAIN r /\ IsPrefix(L[x], L[r[y].parent])
    BY <2>1, UnderPlace
  <2>3. r[y].parent = x
    BY <2>1, <2>2
  <2> QED BY <2>1, <2>2, <2>3 DEF Forest, Start
<1>2. IsPrefix(L[x], L[x])
  BY UnderPlace
<1> QED BY <1>1, <1>2

\* The places of a table are settled by it.
LEMMA PlacesUnique ==
  ASSUME NEW r, Forest(r), NEW L, Places(r, L), NEW M, Places(r, M)
  PROVE  \A x \in DOMAIN r : L[x] = M[x]
<1> DEFINE C == {x \in DOMAIN r : L[x] # M[x]}
<1> SUFFICES ASSUME C # {} PROVE FALSE
  OBVIOUS
<1>1. PICK x \in C : r[x].parent \notin C
  BY DEF Forest, NoLoop
<1>2. x \in DOMAIN r /\ L[x] # M[x]
  BY <1>1
<1>3. ~Start(r, x)
  BY <1>2 DEF Places, PlaceOf
<1>4. r[x].parent \in DOMAIN r /\ L[r[x].parent] = M[r[x].parent]
  BY <1>1, <1>2, <1>3 DEF Forest, Start
<1> QED BY <1>2, <1>3, <1>4 DEF Places, PlaceOf

\* The places after what is under x was moved to new.
Moved(r, L, x, new) ==
  [y \in DOMAIN r |-> IF IsPrefix(L[x], L[y]) THEN Rebase(L[y], L[x], new) ELSE L[y]]

\* A row that gets a new name, parent or mark takes its subtree's places along,
\* as long as the rows under it stay where they are in the tree.
LEMMA MovedPlaces ==
  ASSUME NEW r, Forest(r), NEW L, Places(r, L), NEW x \in DOMAIN r, NEW new \in Paths,
         NEW q, DOMAIN q = DOMAIN r,
         \A y \in DOMAIN r \ {x} :
           /\ Start(q, y) <=> Start(r, y)
           /\ Start(r, y) => First(q, y) = First(r, y)
           /\ q[y].parent = r[y].parent /\ q[y].name = r[y].name,
         new = PlaceOf(q, L, x),
         ~Start(q, x) => q[x].parent \in DOMAIN r /\ ~IsPrefix(L[x], L[q[x].parent])
  PROVE  Places(q, Moved(r, L, x, new))
<1> DEFINE M == Moved(r, L, x, new)
<1>0. \A y \in DOMAIN r : M[y] = IF IsPrefix(L[x], L[y]) THEN Rebase(L[y], L[x], new) ELSE L[y]
  BY DEF Moved
<1> HIDE DEF M
<1>1. L[x] \in Paths
  BY PlacesArePaths
<1>2. M[x] = PlaceOf(q, M, x)
  <2>1. M[x] = new
    BY <1>0, <1>1, UnderPlace, RebaseTop
  <2>2. ~Start(q, x) => M[q[x].parent] = L[q[x].parent]
    BY <1>0
  <2> QED BY <2>1, <2>2 DEF PlaceOf
<1>3. ASSUME NEW y \in DOMAIN r, y # x PROVE M[y] = PlaceOf(q, M, y)
  <2>1. CASE Start(r, y)
    <3>1. ~IsPrefix(L[x], L[y])
      BY <1>3, <2>1, UnderPlace
    <3>2. M[y] = First(r, y)
      BY <1>0, <2>1, <3>1, PlacesArePaths
    <3> QED BY <1>3, <2>1, <3>2 DEF PlaceOf
  <2>2. CASE ~Start(r, y)
    <3> DEFINE p == r[y].parent
    <3>1. p \in DOMAIN r /\ L[p] \in Paths /\ L[y] = Sub(L[p], r[y].name) /\ r[y].name \in Seg
      <4>1. p \in DOMAIN r /\ L[y] = Sub(L[p], r[y].name)
        BY <2>2, PlacesArePaths
      <4>2. L[p] \in Paths
        BY <4>1, PlacesArePaths
      <4>3. r[y].name \in Seg
        BY RowSegs
      <4> QED BY <4>1, <4>2, <4>3
    <3>2. IsPrefix(L[x], L[y]) <=> IsPrefix(L[x], L[p])
      BY <1>3, <2>2, UnderPlace
    <3>3. PlaceOf(q, M, y) = Sub(M[p], r[y].name)
      BY <1>3, <2>2 DEF PlaceOf
    <3>4. M[y] = Sub(M[p], r[y].name)
      <4>1. CASE IsPrefix(L[x], L[p])
        <5>1. Rebase(Sub(L[p], r[y].name), L[x], new) = Sub(Rebase(L[p], L[x], new), r[y].name)
          BY <1>1, <3>1, <4>1, RebaseSub
        <5>2. M[p] = Rebase(L[p], L[x], new) /\ M[y] = Rebase(L[y], L[x], new)
          BY <1>0, <3>1, <3>2, <4>1
        <5> QED BY <3>1, <5>1, <5>2
      <4>2. CASE ~IsPrefix(L[x], L[p])
        BY <1>0, <3>1, <3>2, <4>2
      <4> QED BY <4>1, <4>2
    <3> QED BY <3>3, <3>4
  <2> QED BY <2>1, <2>2
<1> QED BY <1>2, <1>3 DEF M, Places

-----------------------------------------------------------------------------
(* The disk has exactly the bytes of the real rows, each in its place. *)

Reals(r) == {x \in DOMAIN r : r[x].target = Nil}

Bytes(r, x) == IF r[x].type = "folder" THEN Dir ELSE x

Mirrors(r, L, d) ==
  /\ DOMAIN d = {L[x] : x \in Reals(r)}
  /\ \A x \in Reals(r) : d[L[x]] = Bytes(r, x)

\* Renaming what is on disk does to it what Moved does to the places.
LEMMA MovedDisk ==
  ASSUME NEW r, Forest(r), NEW L, Places(r, L), NEW x \in Reals(r), NEW new \in Paths,
         NEW q, Forest(q), Places(q, Moved(r, L, x, new)), DOMAIN q = DOMAIN r,
         \A y \in DOMAIN r : q[y].type = r[y].type /\ q[y].target = r[y].target,
         NEW d, CanRename(d, L[x], new), Mirrors(r, L, MkParents(d, new))
  PROVE  Mirrors(q, Moved(r, L, x, new), Rename(d, L[x], new))
<1> DEFINE M == Moved(r, L, x, new)
           e == MkParents(d, new)
           U == {y \in Reals(r) : IsPrefix(L[x], L[y])}
           moved == {Rebase(o, L[x], new) : o \in Under(e, L[x])}
           Origin(o) == CHOOSE p \in Under(e, L[x]) : Rebase(p, L[x], new) = o
           f == Rename(d, L[x], new)
<1>0. \A y \in DOMAIN r : M[y] = IF IsPrefix(L[x], L[y]) THEN Rebase(L[y], L[x], new) ELSE L[y]
  BY DEF Moved
<1>1. f = [o \in (DOMAIN e \ Under(e, L[x])) \cup moved |->
             IF o \in moved THEN e[Origin(o)] ELSE e[o]]
  BY Zenon DEF Rename
<1>2. /\ \A y \in DOMAIN r : L[y] \in Paths
      /\ \A y, z \in DOMAIN r : L[y] = L[z] => y = z
      /\ \A y, z \in DOMAIN r : M[y] = M[z] => y = z
      /\ x \in DOMAIN r /\ Reals(q) = Reals(r) /\ Reals(r) \subseteq DOMAIN r
      /\ \A y \in DOMAIN r : Bytes(q, y) = Bytes(r, y)
  <2>1. \A y \in DOMAIN r : L[y] \in Paths
    BY PlacesArePaths
  <2>2. \A y, z \in DOMAIN r : L[y] = L[z] => y = z
    BY PlacesDiffer
  <2>3. \A y, z \in DOMAIN q : M[y] = M[z] => y = z
    BY PlacesDiffer
  <2> HIDE DEF M
  <2> QED BY <2>1, <2>2, <2>3 DEF Reals, Bytes
<1>3. Under(e, L[x]) = {L[y] : y \in U}
  BY DEF Under, Mirrors
<1>4. \A y \in U : M[y] = Rebase(L[y], L[x], new)
  BY <1>0, <1>2
<1>5. \A y \in Reals(r) \ U : M[y] = L[y]
  BY <1>0, <1>2
<1>6. moved = {M[y] : y \in U}
  BY <1>3, <1>4
<1>7. ASSUME NEW y \in U PROVE Origin(M[y]) = L[y]
  <2>1. L[y] \in Under(e, L[x]) /\ Rebase(L[y], L[x], new) = M[y]
    BY <1>3, <1>4
  <2>2. ASSUME NEW p \in Under(e, L[x]), Rebase(p, L[x], new) = M[y] PROVE p = L[y]
    <3>1. PICK z \in U : p = L[z]
      BY <1>3
    <3>2. L[y] \in Paths /\ L[z] \in Paths /\ L[x] \in Paths
      BY <1>2, <3>1
    <3>3. IsPrefix(L[x], L[y]) /\ IsPrefix(L[x], L[z])
      BY <3>1
    <3>4. Rebase(L[z], L[x], new) = Rebase(L[y], L[x], new)
      BY <1>4, <2>2, <3>1
    <3> QED BY <3>1, <3>2, <3>3, <3>4, RebaseKeepsTwo
  <2> HIDE DEF M, U, e
  <2> QED BY <2>1, <2>2
<1> HIDE DEF M, e, moved, Origin, f
<1>8. DOMAIN e = {L[y] : y \in Reals(r)} /\ \A y \in Reals(r) : e[L[y]] = Bytes(r, y)
  BY DEF Mirrors, e
<1>9. U \subseteq Reals(r)
  OBVIOUS
<1> HIDE DEF U
<1>10. DOMAIN f = {M[y] : y \in Reals(r)}
  <2>1. DOMAIN f = ({L[y] : y \in Reals(r)} \ {L[y] : y \in U}) \cup {M[y] : y \in U}
    BY <1>1, <1>3, <1>6, <1>8
  <2>2. \A y \in Reals(r) : L[y] \in {L[z] : z \in U} => y \in U
    BY <1>2, <1>9
  <2>3. {L[y] : y \in Reals(r)} \ {L[y] : y \in U} = {M[y] : y \in Reals(r) \ U}
    BY <1>5, <2>2
  <2> QED BY <1>9, <2>1, <2>3
<1>11. ASSUME NEW y \in Reals(r) PROVE f[M[y]] = Bytes(r, y)
  <2>1. M[y] \in DOMAIN f
    BY <1>10
  <2>2. f[M[y]] = IF M[y] \in moved THEN e[Origin(M[y])] ELSE e[M[y]]
    BY <1>1, <2>1
  <2>3. M[y] \in moved <=> y \in U
    BY <1>2, <1>6, <1>9
  <2> QED BY <1>5, <1>7, <1>8, <2>2, <2>3
<1> QED BY <1>2, <1>10, <1>11 DEF Mirrors, M, f

FolderDirs(r, L) == {L[z] : z \in {z \in Reals(r) : r[z].type = "folder"}}

\* The directories over a folder's place are the folders over it.
LEMMA DirsAreFolders ==
  ASSUME NEW r, Forest(r), NEW L, Places(r, L)
  PROVE  \A p \in Reals(r) : r[p].type = "folder" => Lineage(L[p]) \subseteq FolderDirs(r, L)
<1> DEFINE F == {p \in Reals(r) : r[p].type = "folder"}
           C == {p \in F : ~(Lineage(L[p]) \subseteq FolderDirs(r, L))}
<1> SUFFICES ASSUME C # {} PROVE FALSE
  OBVIOUS
<1>1. C \subseteq DOMAIN r
  BY DEF Reals
<1>2. PICK y \in C : r[y].parent \notin C
  BY <1>1 DEF Forest, NoLoop
<1>3. y \in F /\ y \in DOMAIN r /\ ~(Lineage(L[y]) \subseteq FolderDirs(r, L))
  BY <1>1, <1>2
<1>4. L[y] \in FolderDirs(r, L)
  BY <1>3 DEF FolderDirs
<1>5. r[y].owner \in Users /\ r[y].name \in Seg /\ <<y, r[y].name>> \in Seg
  BY <1>3, RowSegs
<1>6. CASE Start(r, y)
  <2> DEFINE f == FilesRoot(r[y].owner)
             t == <<r[y].owner, "trash">>
  <2>1. f \in Paths /\ t \in Paths /\ Depth(f) >= 2 /\ Depth(t) >= 2
        /\ Lineage(f) = {} /\ Lineage(t) = {}
    BY <1>5, RootPaths
  <2>2. /\ Lineage(Sub(f, r[y].name)) = Lineage(f) \cup {Sub(f, r[y].name)}
        /\ Lineage(Sub(t, <<y, r[y].name>>)) = Lineage(t) \cup {Sub(t, <<y, r[y].name>>)}
    BY <1>5, <2>1, SubLineage DEF RootLen
  <2>3. L[y] = Sub(f, r[y].name) \/ L[y] = Sub(t, <<y, r[y].name>>)
    BY <1>3, <1>6 DEF Places, PlaceOf, First
  <2>4. Lineage(L[y]) = {L[y]}
    BY <2>1, <2>2, <2>3
  <2> QED BY <1>3, <1>4, <2>4
<1>7. CASE ~Start(r, y)
  <2> DEFINE p == r[y].parent
  <2>1. p \in DOMAIN r /\ L[y] = Sub(L[p], r[y].name)
    BY <1>3, <1>7, PlacesArePaths
  <2>2. L[p] \in Paths /\ Depth(L[p]) \in Nat /\ Depth(L[p]) >= 3
    BY <2>1, PlacesArePaths
  <2>3. p \in F
    BY <1>3, <1>7, <2>1 DEF Forest, Start, Reals
  <2>4. Lineage(L[p]) \subseteq FolderDirs(r, L)
    BY <1>2, <2>3
  <2>5. Lineage(Sub(L[p], r[y].name)) = Lineage(L[p]) \cup {Sub(L[p], r[y].name)}
    BY <1>5, <2>2, SubLineage DEF RootLen
  <2> QED BY <1>3, <1>4, <2>1, <2>4, <2>5
<1> QED BY <1>6, <1>7

\* So making them again changes nothing.
LEMMA MkdirKeeps ==
  ASSUME NEW r, NEW L, NEW d, Mirrors(r, L, d), Forest(r), Places(r, L),
         NEW path, Lineage(path) \subseteq FolderDirs(r, L)
  PROVE  CanMkdir(d, path) /\ Mirrors(r, L, MkdirAll(d, path))
<1>1. \A q \in Lineage(path) : q \in DOMAIN d /\ d[q] = Dir
  BY DEF FolderDirs, Mirrors, Bytes
<1>2. CanMkdir(d, path)
  BY <1>1 DEF CanMkdir, IsFile
<1>3. DOMAIN MkdirAll(d, path) = DOMAIN d /\ \A q \in DOMAIN d : MkdirAll(d, path)[q] = d[q]
  BY <1>1, <1>2 DEF MkdirAll
<1> QED BY <1>2, <1>3 DEF Mirrors

\* The directory of the folder p of user u, Nil being the root.
Home(L, u, p) == IF p = Nil THEN FilesRoot(u) ELSE L[p]

Holds(r, u, p) ==
  p # Nil => /\ p \in Reals(r) /\ r[p].type = "folder"
             /\ r[p].owner = u /\ r[p].deleted = Nil

LEMMA HomePath ==
  ASSUME NEW r, Forest(r), NEW L, Places(r, L), NEW u \in Users, NEW p, Holds(r, u, p),
         NEW name \in Seg
  PROVE  /\ Home(L, u, p) \in Paths
         /\ Sub(Home(L, u, p), name) \in Paths
         /\ Front(Sub(Home(L, u, p), name)) = Home(L, u, p)
         /\ Lineage(Sub(Home(L, u, p), name)) =
              Lineage(Home(L, u, p)) \cup {Sub(Home(L, u, p), name)}
         /\ Lineage(Home(L, u, p)) \subseteq FolderDirs(r, L)
<1>1. /\ Home(L, u, p) \in Paths /\ Depth(Home(L, u, p)) >= 2
      /\ Lineage(Home(L, u, p)) \subseteq FolderDirs(r, L)
  <2>1. CASE p = Nil
    <3>1. FilesRoot(u) \in Paths /\ Depth(FilesRoot(u)) = 2 /\ Lineage(FilesRoot(u)) = {}
      BY RootPaths
    <3> QED BY <2>1, <3>1 DEF Home
  <2>2. CASE p # Nil
    <3>1. p \in DOMAIN r /\ p \in Reals(r) /\ r[p].type = "folder"
      BY <2>2 DEF Holds, Reals
    <3>2. L[p] \in Paths /\ Depth(L[p]) \in Nat /\ Depth(L[p]) >= 3
      BY <3>1, PlacesArePaths
    <3>3. Lineage(L[p]) \subseteq FolderDirs(r, L)
      BY <3>1, DirsAreFolders
    <3> QED BY <2>2, <3>2, <3>3 DEF Home
  <2> QED BY <2>1, <2>2
<1>2. Sub(Home(L, u, p), name) \in Paths
  BY <1>1, SubPaths
<1> QED BY <1>1, <1>2, SubLineage DEF RootLen

LEMMA TrashHome ==
  ASSUME NEW r, NEW L, NEW u \in Users, NEW seg \in Seg
  PROVE  /\ Sub(<<u, "trash">>, seg) \in Paths
         /\ Lineage(Front(Sub(<<u, "trash">>, seg))) \subseteq FolderDirs(r, L)
<1>1. <<u, "trash">> \in Paths /\ Depth(<<u, "trash">>) = 2 /\ Lineage(<<u, "trash">>) = {}
  BY RootPaths
<1>2. Front(Sub(<<u, "trash">>, seg)) = <<u, "trash">>
  BY <1>1, SubLineage DEF RootLen
<1> QED BY <1>1, <1>2, SubPaths

\* A name that no active item of the folder has is free on disk as well.
LEMMA FreePlace ==
  ASSUME NEW r, Forest(r), NEW L, Places(r, L), NEW u \in Users, NEW p, Holds(r, u, p),
         NEW name \in FullName, NEW y \in DOMAIN r,
         r[y].deleted = Nil /\ r[y].owner = u /\ r[y].parent = p => r[y].name # name
  PROVE  L[y] # Sub(Home(L, u, p), name)
<1> SUFFICES ASSUME L[y] = Sub(Home(L, u, p), name) PROVE FALSE
  OBVIOUS
<1>1. name \in Seg /\ r[y].owner \in Users /\ r[y].name \in Seg /\ <<y, r[y].name>> \in Seg
  BY RowSegs DEF Seg
<1>2. CASE p = Nil
  <2>1. L[y] = Sub(FilesRoot(u), name) /\ FilesRoot(u) \in Paths /\ Depth(FilesRoot(u)) = 2
    BY <1>2, RootPaths DEF Home
  <2>2. Depth(L[y]) = 3
    BY <1>1, <2>1, SubPaths
  <2>3. Start(r, y) /\ L[y] = First(r, y)
    BY <2>2, PlacesArePaths
  <2>4. CASE r[y].deleted # Nil
    <3>1. Sub(FilesRoot(u), name) = Sub(<<r[y].owner, "trash">>, <<y, r[y].name>>)
      BY <2>1, <2>3, <2>4 DEF First
    <3> QED BY ONLY u \in Users, <1>1, <3>1, StartsApart
  <2>5. CASE r[y].deleted = Nil
    <3>1. Sub(FilesRoot(u), name) = Sub(FilesRoot(r[y].owner), r[y].name)
      BY <2>1, <2>3, <2>5 DEF First
    <3>2. u = r[y].owner /\ name = r[y].name
      BY ONLY u \in Users, <1>1, <3>1, StartsInFiles
    <3> QED BY <1>2, <2>3, <2>5, <3>2 DEF Start, TopIn
  <2> QED BY <2>4, <2>5
<1>3. CASE p # Nil
  <2>1. p \in DOMAIN r /\ L[y] = Sub(L[p], name) /\ r[p].owner = u /\ r[p].deleted = Nil
    BY <1>3 DEF Home, Holds, Reals
  <2>2. L[p] \in Paths /\ Depth(L[p]) \in Nat /\ Depth(L[p]) >= 3
    BY <2>1, PlacesArePaths
  <2>3. Depth(L[y]) > 3
    BY <1>1, <2>1, <2>2, SubPaths
  <2>4. ~Start(r, y)
    BY <2>3, PlacesArePaths
  <2>5. r[y].parent \in DOMAIN r /\ L[y] = Sub(L[r[y].parent], r[y].name)
    BY <2>4, PlacesArePaths
  <2>6. L[r[y].parent] \in Paths
    BY <2>5, PlacesArePaths
  <2>7. Sub(L[r[y].parent], r[y].name) = Sub(L[p], name)
    BY <2>1, <2>5
  <2>8. L[r[y].parent] = L[p] /\ r[y].name = name
    BY ONLY <1>1, <2>2, <2>6, <2>7, SubInjective
  <2>9. r[y].parent = p
    BY <2>1, <2>5, <2>8, PlacesDiffer
  <2>10. r[y].owner = u /\ r[y].deleted = Nil
    BY <1>3, <2>1, <2>4, <2>9 DEF Forest, Start, TopIn
  <2> QED BY <2>8, <2>9, <2>10
<1> QED BY <1>2, <1>3

\* A new row, and its bytes when it has any: the rest stays where it is.
Added(r, L, x, place) == [y \in DOMAIN r \cup {x} |-> IF y = x THEN place ELSE L[y]]

LEMMA AddedPlaces ==
  ASSUME NEW r, Forest(r), NEW L, Places(r, L), NEW x, x \notin DOMAIN r,
         NEW u, NEW p, Holds(r, u, p), NEW name,
         NEW q, DOMAIN q = DOMAIN r \cup {x}, \A y \in DOMAIN r : q[y] = r[y],
         q[x].owner = u, q[x].parent = p, q[x].name = name, q[x].deleted = Nil
  PROVE  Places(q, Added(r, L, x, Sub(Home(L, u, p), name)))
<1> DEFINE M == Added(r, L, x, Sub(Home(L, u, p), name))
<1>0. M[x] = Sub(Home(L, u, p), name) /\ \A y \in DOMAIN r : M[y] = L[y]
  BY DEF Added
<1> HIDE DEF M
<1>1. ASSUME NEW y \in DOMAIN r PROVE M[y] = PlaceOf(q, M, y)
  <2>1. r[y].parent # Nil => r[y].parent \in DOMAIN r
    BY DEF Forest
  <2>2. Start(q, y) <=> Start(r, y)
    BY <2>1 DEF Start, TopIn
  <2>3. First(q, y) = First(r, y)
    BY DEF First
  <2>4. ~Start(r, y) => M[q[y].parent] = L[r[y].parent]
    BY <1>0, <2>1 DEF Start
  <2> QED BY <1>0, <2>2, <2>3, <2>4 DEF Places, PlaceOf
<1>2. M[x] = PlaceOf(q, M, x)
  <2>1. CASE p = Nil
    BY <1>0, <2>1 DEF PlaceOf, Start, First, Home
  <2>2. CASE p # Nil
    <3>1. p \in DOMAIN r
      BY <2>2 DEF Holds, Reals
    <3>2. ~Start(q, x)
      BY <2>2 DEF Start, TopIn
    <3> QED BY <1>0, <2>2, <3>1, <3>2 DEF PlaceOf, Home
  <2> QED BY <2>1, <2>2
<1> QED BY <1>1, <1>2 DEF Places, M

\* A shortcut to target is nowhere on disk; anything else comes to be at place.
Writes(d, e, target, place, bytes) ==
  IF target = Nil
  THEN /\ DOMAIN e = DOMAIN d \cup {place}
       /\ e[place] = bytes
       /\ \A o \in DOMAIN d : o # place => e[o] = d[o]
  ELSE e = d

LEMMA AddedDisk ==
  ASSUME NEW r, Forest(r), NEW L, NEW x, x \notin DOMAIN r, NEW place,
         NEW q, DOMAIN q = DOMAIN r \cup {x}, \A y \in DOMAIN r : q[y] = r[y],
         NEW d, Mirrors(r, L, d), NEW e, \A y \in DOMAIN r : L[y] # place,
         Writes(d, e, q[x].target, place, Bytes(q, x))
  PROVE  Mirrors(q, Added(r, L, x, place), e)
<1> DEFINE M == Added(r, L, x, place)
<1>0. M[x] = place /\ \A y \in DOMAIN r : M[y] = L[y]
  BY DEF Added
<1> HIDE DEF M
<1>1. /\ DOMAIN d = {L[y] : y \in Reals(r)}
      /\ \A y \in Reals(r) : d[L[y]] = Bytes(r, y)
      /\ \A y \in Reals(r) : y \in DOMAIN r /\ Bytes(q, y) = Bytes(r, y)
  BY DEF Mirrors, Reals, Bytes
<1>2. CASE q[x].target = Nil
  <2>1. Reals(q) = Reals(r) \cup {x}
    BY <1>2 DEF Reals
  <2>2. DOMAIN e = {M[y] : y \in Reals(q)}
    BY <1>0, <1>1, <1>2, <2>1 DEF Writes
  <2>3. \A y \in Reals(r) : e[M[y]] = Bytes(q, y)
    BY <1>0, <1>1, <1>2 DEF Writes
  <2>4. e[M[x]] = Bytes(q, x)
    BY <1>0, <1>2 DEF Writes
  <2> QED BY <2>1, <2>2, <2>3, <2>4 DEF Mirrors, M
<1>3. CASE q[x].target # Nil
  <2>1. Reals(q) = Reals(r)
    BY <1>3 DEF Reals
  <2>2. e = d
    BY <1>3 DEF Writes
  <2> QED BY <1>0, <1>1, <2>1, <2>2 DEF Mirrors, M
<1> QED BY <1>2, <1>3

-----------------------------------------------------------------------------
(* pathOf and Location find these places. *)

\* f has a path for each row of C, and C has the parents of its rows.
Partial(r, u, C, f) ==
  /\ C \subseteq DOMAIN r
  /\ \A y \in C :
       IF r[y].parent = Nil THEN f[y] = Append(FilesRoot(u), r[y].name)
       ELSE r[y].parent \in C /\ f[y] = Append(f[r[y].parent], r[y].name)

LEMMA PartialsAgree ==
  ASSUME NEW r, NoLoop(r), NEW u, NEW C, NEW f, Partial(r, u, C, f),
         NEW D, NEW g, Partial(r, u, D, g)
  PROVE  \A y \in C \cap D : f[y] = g[y]
<1> DEFINE E == {y \in C \cap D : f[y] # g[y]}
<1> SUFFICES ASSUME E # {} PROVE FALSE
  OBVIOUS
<1>1. E \in SUBSET DOMAIN r
  BY DEF Partial
<1>2. PICK y \in E : r[y].parent \notin E
  BY <1>1 DEF NoLoop
<1>3. CASE r[y].parent = Nil
  BY <1>2, <1>3 DEF Partial
<1>4. CASE r[y].parent # Nil
  <2>1. r[y].parent \in C \cap D
    BY <1>2, <1>4 DEF Partial
  <2>2. f[r[y].parent] = g[r[y].parent]
    BY <1>2, <2>1
  <2> QED BY <1>2, <1>4, <2>2 DEF Partial
<1> QED BY <1>3, <1>4

\* A walk that ends everywhere defines a path for every row.
LEMMA PathsExist ==
  ASSUME NEW r, Forest(r), NEW u
  PROVE  \E f : Partial(r, u, DOMAIN r, f)
<1> DEFINE Is(y, v) == \E C, f : Partial(r, u, C, f) /\ y \in C /\ v = f[y]
           h == [y \in DOMAIN r |-> CHOOSE v : Is(y, v)]
           R == {y \in DOMAIN r : \A C, f : Partial(r, u, C, f) => y \notin C}
<1>0. NoLoop(r)
  BY DEF Forest
<1>1. ASSUME NEW C, NEW f, Partial(r, u, C, f), NEW y \in C
      PROVE  y \in DOMAIN r /\ h[y] = f[y]
  <2>1. y \in DOMAIN r
    BY <1>1 DEF Partial
  <2>2. Is(y, f[y])
    BY <1>1
  <2>3. ASSUME NEW v, Is(y, v) PROVE v = f[y]
    <3>1. PICK D, g : Partial(r, u, D, g) /\ y \in D /\ v = g[y]
      BY <2>3
    <3> QED BY <1>0, <1>1, <3>1, PartialsAgree
  <2> HIDE DEF Is
  <2>4. (CHOOSE v : Is(y, v)) = f[y]
    BY <2>2, <2>3
  <2> QED BY <2>1, <2>4
<1>2. R = {}
  <2> SUFFICES ASSUME R # {} PROVE FALSE
    OBVIOUS
  <2>1. PICK y \in R : r[y].parent \notin R
    BY <1>0 DEF NoLoop
  <2>2. CASE r[y].parent = Nil
    <3> DEFINE f == [z \in {y} |-> Append(FilesRoot(u), r[y].name)]
    <3>1. f[y] = Append(FilesRoot(u), r[y].name)
      OBVIOUS
    <3> HIDE DEF f
    <3>2. Partial(r, u, {y}, f)
      BY <2>1, <2>2, <3>1 DEF Partial
    <3> QED BY <2>1, <3>2
  <2>3. CASE r[y].parent # Nil
    <3> DEFINE p == r[y].parent
    <3>1. p \in DOMAIN r /\ p \notin R
      BY <2>1, <2>3 DEF Forest
    <3>2. PICK C, g : Partial(r, u, C, g) /\ p \in C
      BY <3>1
    <3>3. y \notin C
      BY <2>1, <3>2
    <3> DEFINE f == [z \in C \cup {y} |-> IF z = y THEN Append(g[p], r[y].name) ELSE g[z]]
    <3>4. f[y] = Append(g[p], r[y].name) /\ \A z \in C : f[z] = g[z]
      BY <3>3
    <3> HIDE DEF f
    <3>5. Partial(r, u, C \cup {y}, f)
      <4>1. C \cup {y} \subseteq DOMAIN r
        BY <2>1, <3>2 DEF Partial
      <4>2. ASSUME NEW z \in C
            PROVE  IF r[z].parent = Nil THEN f[z] = Append(FilesRoot(u), r[z].name)
                   ELSE r[z].parent \in C /\ f[z] = Append(f[r[z].parent], r[z].name)
        BY <3>2, <3>4 DEF Partial
      <4>3. f[y] = Append(f[p], r[y].name)
        BY <3>2, <3>4
      <4> QED BY <2>3, <3>2, <4>1, <4>2, <4>3 DEF Partial
    <3> QED BY <2>1, <3>5
  <2> QED BY <2>2, <2>3
<1>2a. \A y \in DOMAIN r : \E C, f : Partial(r, u, C, f) /\ y \in C
  BY <1>2
<1> HIDE DEF h, R
<1>3. ASSUME NEW y \in DOMAIN r
      PROVE  IF r[y].parent = Nil THEN h[y] = Append(FilesRoot(u), r[y].name)
             ELSE r[y].parent \in DOMAIN r /\ h[y] = Append(h[r[y].parent], r[y].name)
  <2>1. PICK C, f : Partial(r, u, C, f) /\ y \in C
    BY <1>2a
  <2>2. h[y] = f[y]
    BY <1>1, <2>1
  <2>3. CASE r[y].parent = Nil
    BY <2>1, <2>2, <2>3 DEF Partial
  <2>4. CASE r[y].parent # Nil
    <3>1. r[y].parent \in C /\ f[y] = Append(f[r[y].parent], r[y].name)
      BY <2>1, <2>4 DEF Partial
    <3>2. \A z \in C : z \in DOMAIN r /\ h[z] = f[z]
      BY <1>1, <2>1
    <3> QED BY <2>2, <2>4, <3>1, <3>2
  <2> QED BY <2>3, <2>4
<1>4. Partial(r, u, DOMAIN r, h)
  BY <1>3 DEF Partial
<1> QED BY <1>4

Settled ==
  Inv /\ ParentsAreReal /\ NoLoop(rows) /\ NamesUnique(rows) /\ DistinctInTrash(rows)

LEMMA ForestNow == Settled => Forest(rows)
<1> SUFFICES ASSUME Settled PROVE Forest(rows)
  OBVIOUS
<1>1. /\ DOMAIN rows \subseteq Ids /\ \A x \in DOMAIN rows : rows[x] \in Row
  BY LiveFacts DEF Settled, Live
<1>2. ASSUME NEW x \in DOMAIN rows, rows[x].parent # Nil
      PROVE  /\ rows[x].parent \in DOMAIN rows
             /\ rows[rows[x].parent].owner = rows[x].owner
             /\ rows[rows[x].parent].type = "folder"
             /\ rows[rows[x].parent].target = Nil
             /\ rows[x].deleted = Nil => rows[rows[x].parent].deleted = Nil
  BY <1>2 DEF Settled, Inv, OneOwnerPerTree, NoActiveUnderTrash, ParentsAreReal, Live, Active,
              IsFolder, IsReal
<1> QED BY <1>1, <1>2 DEF Forest, Settled

LEMMA SettledStep == ASSUME Settled, [Next]_vars, Untidy = {} PROVE Settled'
<1>1. Inv'
  BY NextInv DEF Settled
<1>2. ParentsAreReal' /\ NoLoop(rows')
  BY RealStep, LoopStep DEF Settled
<1>3. NamesUnique(rows') /\ DistinctInTrash(rows')
  BY NamesStep, DistinctStep DEF Settled
<1> QED BY <1>1, <1>2, <1>3 DEF Settled

LEMMA ForestNext == ASSUME Settled, [Next]_vars, Untidy = {} PROVE Forest(rows')
<1>1. Settled'
  BY SettledStep
<1>2. Forest(rows)'
  BY <1>1, ForestNow, PTL
<1> QED BY <1>2

LEMMA PathOfIsPlace ==
  ASSUME Settled, NEW L, Places(rows, L), NEW x \in Live, Active(x)
  PROVE  PathOf(rows[x].owner, x) = L[x]
<1> DEFINE u == rows[x].owner
           Solution(f) == f = [y \in Live |-> IF rows[y].parent = Nil
                                              THEN Append(FilesRoot(u), rows[y].name)
                                              ELSE Append(f[rows[y].parent], rows[y].name)]
           path == CHOOSE f : Solution(f)
<1>1. PathOf(u, x) = path[x]
  BY DEF PathOf
<1>2. Forest(rows)
  BY ForestNow
<1>3. \E f : Solution(f)
  <2>1. PICK g : Partial(rows, u, Live, g)
    BY <1>2, PathsExist DEF Live
  <2> DEFINE f == [y \in Live |-> g[y]]
  <2>2. Solution(f)
    BY <2>1 DEF Partial
  <2> HIDE DEF f
  <2> QED BY <2>2
<1>4. Solution(path)
  BY <1>3
<1> HIDE DEF path
<1>5. \A y \in Live : path[y] = IF rows[y].parent = Nil THEN Append(FilesRoot(u), rows[y].name)
                                ELSE Append(path[rows[y].parent], rows[y].name)
  BY <1>4
<1> HIDE DEF Solution
<1> DEFINE C == {y \in Live : Active(y) /\ rows[y].owner = u /\ path[y] # L[y]}
<1>6. C = {}
  <2> SUFFICES ASSUME C # {} PROVE FALSE
    OBVIOUS
  <2>1. PICK y \in C : rows[y].parent \notin C
    BY <1>2 DEF Forest, NoLoop, Live
  <2>2. y \in Live /\ rows[y].deleted = Nil /\ rows[y].owner = u /\ path[y] # L[y]
    BY <2>1 DEF Active
  <2>3. L[y] = PlaceOf(rows, L, y)
    BY <2>2 DEF Places, Live
  <2>4. CASE rows[y].parent = Nil
    BY <1>5, <2>2, <2>3, <2>4 DEF PlaceOf, Start, First, Sub
  <2>5. CASE rows[y].parent # Nil
    <3>1. rows[y].parent \in Live /\ Active(rows[y].parent) /\ rows[rows[y].parent].owner = u
      BY <1>2, <2>2, <2>5 DEF Forest, Live, Active
    <3>2. path[rows[y].parent] = L[rows[y].parent]
      BY <2>1, <3>1
    <3>3. L[y] = Append(L[rows[y].parent], rows[y].name)
      BY <2>2, <2>3, <2>5 DEF PlaceOf, Start, TopIn, Sub
    <3> QED BY <1>5, <2>2, <2>5, <3>2, <3>3
  <2> QED BY <2>4, <2>5
<1> QED BY <1>1, <1>6

LEMMA LocationIsPlace ==
  ASSUME Settled, NEW L, Places(rows, L), NEW x \in Live
  PROVE  Location(x) = L[x]
<1> DEFINE Is(f, y) == IF TopOfTrash(y) THEN TrashPath(rows[y].owner, y, rows[y].name)
                       ELSE IF rows[y].parent = Nil
                            THEN Append(FilesRoot(rows[y].owner), rows[y].name)
                            ELSE Append(f[rows[y].parent], rows[y].name)
           Solution(f) == f = [y \in Live |-> Is(f, y)]
           loc == CHOOSE f : Solution(f)
<1>1. Location(x) = loc[x]
  BY DEF Location
<1>2. Forest(rows)
  BY ForestNow
<1>3. ASSUME NEW f, NEW y \in Live PROVE Is(f, y) = PlaceOf(rows, f, y)
  <2>1. rows[y].parent # Nil => rows[y].parent \in Live
    BY <1>2 DEF Forest, Live
  <2>2. TopOfTrash(y) <=> TopIn(rows, y)
    BY <2>1 DEF TopOfTrash, TopIn, Trashed
  <2>3. TrashPath(rows[y].owner, y, rows[y].name) = Sub(<<rows[y].owner, "trash">>, <<y, rows[y].name>>)
    BY DEF TrashPath, Sub
  <2>4. Start(rows, y) /\ ~TopIn(rows, y) => rows[y].deleted = Nil
    BY DEF Start, TopIn
  <2>5. TopIn(rows, y) => rows[y].deleted # Nil
    BY DEF TopIn
  <2> QED BY <2>2, <2>3, <2>4, <2>5 DEF PlaceOf, Start, First, Sub
<1> HIDE DEF Is
<1>4. \E f : Solution(f)
  <2> DEFINE f == [y \in Live |-> L[y]]
  <2>1. ASSUME NEW y \in Live PROVE L[y] = PlaceOf(rows, f, y)
    <3>1. ~Start(rows, y) => rows[y].parent \in Live
      BY <1>2 DEF Forest, Start, Live
    <3> QED BY <3>1 DEF Places, PlaceOf, Live
  <2>2. f = [y \in Live |-> PlaceOf(rows, f, y)]
    BY <2>1
  <2> HIDE DEF f
  <2>3. Solution(f)
    BY <1>3, <2>2
  <2> QED BY <2>3
<1>5. Solution(loc)
  BY <1>4
<1> HIDE DEF loc
<1>6. \A y \in DOMAIN rows : loc[y] = PlaceOf(rows, loc, y)
  BY <1>3, <1>5 DEF Live
<1> HIDE DEF Solution
<1>7. Places(rows, loc)
  BY <1>6 DEF Places
<1> QED BY <1>1, <1>2, <1>7, PlacesUnique DEF Live

-----------------------------------------------------------------------------
(* What a step finds on disk, and where it puts a new name. *)

\* The disk of a step's beginning and of its end, agreeing with the table.
Agrees(L) == Places(rows, L) /\ Mirrors(rows, L, disk)

AgreesNext == \E M : Places(rows', M) /\ Mirrors(rows', M, disk')

LEMMA TableKept ==
  ASSUME NEW L, Agrees(L), Mirrors(rows, L, disk'), UNCHANGED rows
  PROVE  AgreesNext
<1>1. Places(rows', L) /\ Mirrors(rows', L, disk')
  BY DEF Agrees
<1> QED BY <1>1 DEF AgreesNext

\* A new size moves nothing.
LEMMA SamePlaces ==
  ASSUME Forest(rows), NEW L, Places(rows, L), Mirrors(rows, L, disk'),
         DOMAIN rows' = DOMAIN rows,
         \A y \in DOMAIN rows :
           /\ rows'[y].owner = rows[y].owner /\ rows'[y].type = rows[y].type
           /\ rows'[y].target = rows[y].target /\ rows'[y].deleted = rows[y].deleted
           /\ rows'[y].parent = rows[y].parent /\ rows'[y].name = rows[y].name
  PROVE  AgreesNext
<1>1. \A y \in DOMAIN rows : rows[y].parent # Nil => rows[y].parent \in DOMAIN rows
  BY DEF Forest
<1>2. ASSUME NEW y \in DOMAIN rows
      PROVE  PlaceOf(rows', L, y) = PlaceOf(rows, L, y)
  BY <1>1 DEF PlaceOf, Start, TopIn, First
<1>3. Places(rows', L)
  BY <1>2 DEF Places
<1>4. Reals(rows') = Reals(rows) /\ \A y \in Reals(rows) : Bytes(rows', y) = Bytes(rows, y)
  BY DEF Reals, Bytes
<1>5. Mirrors(rows', L, disk')
  BY <1>4 DEF Mirrors
<1> QED BY <1>3, <1>5 DEF AgreesNext

\* A name that uniqueName handed out has a place that nothing else is at.
LEMMA PlaceForName ==
  ASSUME Settled, NEW L, Agrees(L), NEW owner \in Users, NEW p \in Live \cup {Nil},
         CanHold(p, owner), TidyParent(p), Untidy = {},
         NEW asked \in FullName, NEW except, NEW final \in UniqueName(owner, p, asked, except)
  PROVE  /\ Holds(rows, owner, p) /\ final \in FullName /\ final \in Seg
         /\ Append(FolderPath(owner, p), final) = Sub(Home(L, owner, p), final)
         /\ \A y \in Live \ {except} : L[y] # Sub(Home(L, owner, p), final)
<1>0. Forest(rows) /\ Places(rows, L)
  BY ForestNow DEF Agrees
<1>1. final \in FullName /\ final \in Seg
  BY UniqueNameIsName DEF Seg
<1>2. Holds(rows, owner, p)
  BY DEF Holds, CanHold, TidyParent, Active, IsFolder, IsReal, Reals, Live
<1>3. FolderPath(owner, p) = Home(L, owner, p)
  <2>1. CASE p = Nil
    BY <2>1 DEF FolderPath, Home
  <2>2. CASE p # Nil
    <3>1. p \in Live /\ Active(p) /\ rows[p].owner = owner
      BY <2>2 DEF CanHold
    <3>2. PathOf(rows[p].owner, p) = L[p]
      BY <3>1, <1>0, PathOfIsPlace
    <3> QED BY <2>2, <3>1, <3>2 DEF FolderPath, Home
  <2> QED BY <2>1, <2>2
<1>4. ASSUME NEW y \in Live \ {except}
      PROVE  L[y] # Sub(Home(L, owner, p), final)
  <2>1. Active(y) /\ rows[y].owner = owner /\ rows[y].parent = p => rows[y].name # final
    BY NameIsFree
  <2>2. y \in DOMAIN rows
    BY DEF Live
  <2>3. rows[y].deleted = Nil /\ rows[y].owner = owner /\ rows[y].parent = p
          => rows[y].name # final
    BY <2>1, <2>2 DEF Active, Live
  <2> QED BY ONLY <2>2, <2>3, <1>0, <1>1, <1>2, owner \in Users, FreePlace
<1>5. Append(FolderPath(owner, p), final) = Sub(Home(L, owner, p), final)
  BY <1>3 DEF Sub
<1> QED BY <1>1, <1>2, <1>4, <1>5

\* The directories over it are there, or are the roots.
LEMMA ParentsThere ==
  ASSUME Settled, NEW L, Agrees(L), NEW owner \in Users, NEW p, Holds(rows, owner, p),
         NEW name \in Seg, NEW place, place = Sub(Home(L, owner, p), name)
  PROVE  /\ place \in Paths
         /\ CanMkdir(disk, Front(place)) /\ Mirrors(rows, L, MkParents(disk, place))
<1>0. Forest(rows) /\ Places(rows, L) /\ Mirrors(rows, L, disk)
  BY ForestNow DEF Agrees
<1>1. /\ place \in Paths /\ Front(place) = Home(L, owner, p)
      /\ Lineage(Home(L, owner, p)) \subseteq FolderDirs(rows, L)
  BY <1>0, HomePath
<1>2. Lineage(Front(place)) \subseteq FolderDirs(rows, L)
  BY <1>1
<1> QED BY <1>0, <1>1, <1>2, MkdirKeeps DEF MkParents

-----------------------------------------------------------------------------
(* Creating. *)

LEMMA InsertedRow ==
  ASSUME NEW x, x \notin Live, NEW owner, NEW p, NEW final, NEW type, NEW size, NEW target,
         rows' = Insert(x, NewRow(owner, p, final, type, size, target))
  PROVE  /\ DOMAIN rows' = DOMAIN rows \cup {x} /\ x \notin DOMAIN rows
         /\ \A y \in DOMAIN rows : rows'[y] = rows[y]
         /\ rows'[x].owner = owner /\ rows'[x].parent = p /\ rows'[x].name = final
         /\ rows'[x].type = type /\ rows'[x].target = target /\ rows'[x].deleted = Nil
<1> DEFINE new == NewRow(owner, p, final, type, size, target)
<1>1. /\ DOMAIN rows' = DOMAIN rows \cup {x}
      /\ \A y \in DOMAIN rows \cup {x} : rows'[y] = IF y = x THEN new ELSE rows[y]
  BY DEF Insert, Live
<1>2. /\ new.owner = owner /\ new.parent = p /\ new.name = final
      /\ new.type = type /\ new.target = target /\ new.deleted = Nil
  BY DEF NewRow
<1> HIDE DEF new
<1> QED BY <1>1, <1>2 DEF Live

\* A new row, and its bytes at the place that its name gives it.
LEMMA RowAdded ==
  ASSUME Settled, NEW L, Agrees(L), NEW owner \in Users, NEW p \in Live \cup {Nil},
         CanHold(p, owner), TidyParent(p), Untidy = {},
         NEW asked \in FullName, NEW final \in UniqueName(owner, p, asked, Nil),
         NEW x, x \notin Live, NEW type, NEW size, NEW target,
         rows' = Insert(x, NewRow(owner, p, final, type, size, target)),
         NEW d, Mirrors(rows, L, d), NEW place, place = Append(FolderPath(owner, p), final),
         Writes(d, disk', target, place, IF type = "folder" THEN Dir ELSE x)
  PROVE  AgreesNext
<1>0. Forest(rows) /\ Places(rows, L)
  BY ForestNow DEF Agrees
<1>1. Nil \notin Live
  BY <1>0, NilIsNoValue DEF Forest, Live
<1>2. /\ Holds(rows, owner, p)
      /\ place = Sub(Home(L, owner, p), final)
      /\ \A y \in DOMAIN rows : L[y] # place
  BY <1>1, PlaceForName DEF Live
<1>3. /\ DOMAIN rows' = DOMAIN rows \cup {x} /\ x \notin DOMAIN rows
      /\ \A y \in DOMAIN rows : rows'[y] = rows[y]
      /\ rows'[x].owner = owner /\ rows'[x].parent = p /\ rows'[x].name = final
      /\ rows'[x].type = type /\ rows'[x].target = target /\ rows'[x].deleted = Nil
  BY InsertedRow
<1> DEFINE M == Added(rows, L, x, place)
<1>4. Places(rows', Added(rows, L, x, Sub(Home(L, owner, p), final)))
  BY ONLY <1>0, <1>2, <1>3, AddedPlaces
<1>5. Places(rows', M)
  BY <1>2, <1>4
<1>6. Writes(d, disk', rows'[x].target, place, Bytes(rows', x))
  BY <1>3 DEF Bytes
<1>7. Mirrors(rows', M, disk')
  BY ONLY <1>0, <1>2, <1>3, <1>6, Mirrors(rows, L, d), AddedDisk
<1> HIDE DEF M
<1> QED BY <1>5, <1>7 DEF AgreesNext

LEMMA CreateFolderAgrees ==
  ASSUME Settled, NEW L, Agrees(L), Untidy = {}, NEW u \in Users, NEW p \in Live \cup {Nil},
         TidyParent(p), NEW name \in Requests, NEW x \in Ids, CreateFolder(u, p, name, x)
  PROVE  AgreesNext
<1> DEFINE owner == OwnerAt(u, p)
<1>0. Inv /\ name \in FullName /\ ValidFolder(p) /\ x \notin issued
  BY RequestsAreNames DEF Settled, CreateFolder
<1>1. CanHold(p, owner) /\ owner \in Users
  BY <1>0, HoldFacts
<1>2. x \notin Live
  BY <1>0 DEF Inv, TypeOK, RowsOK, Live
<1>3. PICK final \in UniqueName(owner, p, name, Nil) :
        /\ CanMkdir(disk, Append(FolderPath(owner, p), final))
        /\ disk' = MkdirAll(disk, Append(FolderPath(owner, p), final))
        /\ rows' = Insert(x, NewRow(owner, p, final, "folder", 0, Nil))
  BY DEF CreateFolder
<1> HIDE DEF owner
<1> DEFINE place == Append(FolderPath(owner, p), final)
<1>4. /\ Holds(rows, owner, p) /\ final \in Seg
      /\ place = Sub(Home(L, owner, p), final)
      /\ \A y \in Live \ {Nil} : L[y] # Sub(Home(L, owner, p), final)
  BY <1>0, <1>1, <1>3, PlaceForName
<1>5. Forest(rows) /\ Places(rows, L) /\ Mirrors(rows, L, disk)
  BY ForestNow DEF Agrees
<1>6. \A y \in Live : L[y] # place
  BY <1>4, <1>5, NilIsNoValue DEF Forest, Live
<1> HIDE DEF place
<1>7. /\ Lineage(place) = Lineage(Home(L, owner, p)) \cup {place}
      /\ Lineage(Home(L, owner, p)) \subseteq FolderDirs(rows, L)
  BY <1>1, <1>4, <1>5, HomePath
<1>8. place \notin DOMAIN disk /\ FolderDirs(rows, L) \subseteq DOMAIN disk
  BY <1>5, <1>6 DEF Mirrors, Reals, Live, FolderDirs
<1>9. Writes(disk, disk', Nil, place, IF "folder" = "folder" THEN Dir ELSE x)
  <2>1. disk' = [q \in DOMAIN disk \cup Lineage(place) |-> IF q \in DOMAIN disk THEN disk[q] ELSE Dir]
    BY <1>3 DEF MkdirAll, place
  <2> QED BY <2>1, <1>7, <1>8 DEF Writes
<1> QED BY <1>0, <1>1, <1>2, <1>3, <1>5, <1>9, RowAdded DEF place

LEMMA CreateShortcutAgrees ==
  ASSUME Settled, NEW L, Agrees(L), Untidy = {}, NEW u \in Users, NEW p \in Live \cup {Nil},
         TidyParent(p), NEW t \in Live, NEW x \in Ids, CreateShortcut(u, t, p, x)
  PROVE  AgreesNext
<1> DEFINE owner == OwnerAt(u, p)
           target == IF IsReal(t) THEN t ELSE rows[t].target
<1>0. /\ Inv /\ ValidFolder(p) /\ x \notin issued /\ Active(target) /\ UNCHANGED disk
      /\ Forest(rows) /\ Mirrors(rows, L, disk)
  BY ForestNow DEF Settled, CreateShortcut, Agrees
<1>1. CanHold(p, owner) /\ owner \in Users
  BY <1>0, HoldFacts
<1>2. x \notin Live
  BY <1>0 DEF Inv, TypeOK, RowsOK, Live
<1>3. PICK final \in UniqueName(owner, p, rows[target].name, Nil) :
        rows' = Insert(x, NewRow(owner, p, final, rows[target].type, 0, target))
  BY DEF CreateShortcut
<1> HIDE DEF owner, target
<1>4. target \in Live /\ target # Nil /\ rows[target].name \in FullName
  BY <1>0, RowSegs DEF Active, Live
<1>5. Writes(disk, disk', target, Append(FolderPath(owner, p), final),
             IF rows[target].type = "folder" THEN Dir ELSE x)
  BY <1>0, <1>4 DEF Writes
<1> QED BY <1>0, <1>1, <1>2, <1>3, <1>4, <1>5, RowAdded

LEMMA CopyShortcutAgrees ==
  ASSUME Settled, NEW L, Agrees(L), Untidy = {}, NEW u \in Users, NEW p \in Live \cup {Nil},
         TidyParent(p), NEW t \in Live, NEW x \in Ids, CopyShortcut(u, t, p, x)
  PROVE  AgreesNext
<1>1. CreateShortcut(u, rows[t].target, p, x)
  BY DEF CopyShortcut
<1>2. rows[t].target \in Live
  BY <1>1 DEF CreateShortcut, Active
<1> QED BY <1>1, <1>2, CreateShortcutAgrees

\* A file is written, or only the directories over it are made.
LEMMA FileAdded ==
  ASSUME Settled, NEW L, Agrees(L), Untidy = {}, NEW u \in Users, NEW p \in Live \cup {Nil},
         TidyParent(p), ValidFolder(p), NEW x \in Ids, x \notin issued,
         NEW asked \in FullName, NEW size,
         NEW final \in UniqueName(OwnerAt(u, p), p, asked, Nil),
         NEW place, place = Append(FolderPath(OwnerAt(u, p), p), final),
         \/ /\ disk' = Put(MkParents(disk, place), place, x)
            /\ rows' = Insert(x, NewRow(OwnerAt(u, p), p, final, "file", size, Nil))
         \/ disk' = MkParents(disk, place) /\ UNCHANGED rows
  PROVE  AgreesNext
<1> DEFINE owner == OwnerAt(u, p)
           d == MkParents(disk, place)
<1>0. Inv /\ final \in UniqueName(owner, p, asked, Nil)
  BY DEF Settled
<1>1. CanHold(p, owner) /\ owner \in Users
  BY <1>0, HoldFacts
<1>2. x \notin Live
  BY <1>0 DEF Inv, TypeOK, RowsOK, Live
<1>3. place = Append(FolderPath(owner, p), final)
  OBVIOUS
<1>4. \/ /\ disk' = Put(d, place, x)
         /\ rows' = Insert(x, NewRow(owner, p, final, "file", size, Nil))
      \/ disk' = d /\ UNCHANGED rows
  OBVIOUS
<1> HIDE DEF owner
<1>5. /\ Holds(rows, owner, p) /\ final \in Seg
      /\ place = Sub(Home(L, owner, p), final)
  BY <1>0, <1>1, <1>3, PlaceForName
<1>6. Mirrors(rows, L, d)
  BY <1>1, <1>5, ParentsThere
<1> HIDE DEF d
<1>7. CASE disk' = d /\ UNCHANGED rows
  BY <1>6, <1>7, TableKept
<1>8. CASE /\ disk' = Put(d, place, x)
           /\ rows' = Insert(x, NewRow(owner, p, final, "file", size, Nil))
  <2>1. Writes(d, disk', Nil, place, IF "file" = "folder" THEN Dir ELSE x)
    BY <1>8 DEF Writes, Put
  <2> QED BY <1>0, <1>1, <1>2, <1>3, <1>6, <1>8, <2>1, RowAdded
<1> QED BY <1>4, <1>7, <1>8

LEMMA AddFileAgrees ==
  ASSUME Settled, NEW L, Agrees(L), Untidy = {}, NEW u \in Users, NEW p \in Live \cup {Nil},
         TidyParent(p), NEW name \in Requests, NEW size, NEW x \in Ids,
         FinalizeUpload(u, p, name, size, x) \/ CreateBlankDocument(u, p, name, size, x)
  PROVE  AgreesNext
<1>0. name \in FullName /\ ValidFolder(p) /\ x \notin issued
  BY RequestsAreNames DEF FinalizeUpload, CreateBlankDocument, AddFile
<1>1. \E final \in UniqueName(OwnerAt(u, p), p, name, Nil) :
        LET place == Append(FolderPath(OwnerAt(u, p), p), final) IN
        \/ /\ disk' = Put(MkParents(disk, place), place, x)
           /\ rows' = Insert(x, NewRow(OwnerAt(u, p), p, final, "file", size, Nil))
        \/ disk' = MkParents(disk, place) /\ UNCHANGED rows
  <2>1. CASE FinalizeUpload(u, p, name, size, x)
    BY <2>1 DEF FinalizeUpload, AddFile, Place
  <2>2. CASE CreateBlankDocument(u, p, name, size, x)
    BY <2>2 DEF CreateBlankDocument, AddFile, WriteFile
  <2> QED BY <2>1, <2>2
<1>2. PICK final \in UniqueName(OwnerAt(u, p), p, name, Nil) :
        LET place == Append(FolderPath(OwnerAt(u, p), p), final) IN
        \/ /\ disk' = Put(MkParents(disk, place), place, x)
           /\ rows' = Insert(x, NewRow(OwnerAt(u, p), p, final, "file", size, Nil))
        \/ disk' = MkParents(disk, place) /\ UNCHANGED rows
  BY <1>1
<1> QED BY <1>0, <1>2, FileAdded

LEMMA CopyFileAgrees ==
  ASSUME Settled, NEW L, Agrees(L), Untidy = {}, NEW u \in Users, NEW p \in Live \cup {Nil},
         TidyParent(p), NEW t \in Live, NEW x \in Ids, CopyFile(u, t, p, x)
  PROVE  AgreesNext
<1>0. rows[t].name \in FullName /\ ValidFolder(p) /\ x \notin issued
  BY ForestNow, RowSegs DEF CopyFile, Live
<1>1. PICK final \in UniqueName(OwnerAt(u, p), p, rows[t].name, Nil) :
        LET place == Append(FolderPath(OwnerAt(u, p), p), final) IN
        \/ /\ disk' = Put(MkParents(disk, place), place, x)
           /\ rows' = Insert(x, NewRow(OwnerAt(u, p), p, final, "file", rows[t].size, Nil))
        \/ disk' = MkParents(disk, place) /\ UNCHANGED rows
  BY DEF CopyFile, WriteFile
<1> QED BY <1>0, <1>1, FileAdded

LEMMA CreateAgrees ==
  ASSUME Settled, NEW L, Agrees(L), Untidy = {}, NEW x \in Ids, Create(x)
  PROVE  AgreesNext
<1>1. PICK u \in Users, p \in Live \cup {Nil} :
        /\ TidyParent(p)
        /\ \/ \E name \in Requests :
                \/ CreateFolder(u, p, name, x)
                \/ \E size \in Sizes : \/ FinalizeUpload(u, p, name, size, x)
                                       \/ CreateBlankDocument(u, p, name, size, x)
           \/ \E t \in Live : \/ CreateShortcut(u, t, p, x)
                              \/ CopyShortcut(u, t, p, x)
                              \/ CopyFile(u, t, p, x)
  BY DEF Create
<1>2. ASSUME NEW name \in Requests, CreateFolder(u, p, name, x) PROVE AgreesNext
  BY <1>1, <1>2, CreateFolderAgrees
<1>3. ASSUME NEW name \in Requests, NEW size \in Sizes,
             FinalizeUpload(u, p, name, size, x) \/ CreateBlankDocument(u, p, name, size, x)
      PROVE  AgreesNext
  BY <1>1, <1>3, AddFileAgrees
<1>4. ASSUME NEW t \in Live, CreateShortcut(u, t, p, x) PROVE AgreesNext
  BY <1>1, <1>4, CreateShortcutAgrees
<1>5. ASSUME NEW t \in Live, CopyShortcut(u, t, p, x) PROVE AgreesNext
  BY <1>1, <1>5, CopyShortcutAgrees
<1>6. ASSUME NEW t \in Live, CopyFile(u, t, p, x) PROVE AgreesNext
  BY <1>1, <1>6, CopyFileAgrees
<1> QED BY <1>1, <1>2, <1>3, <1>4, <1>5, <1>6

LEMMA ReplaceContentAgrees ==
  ASSUME Settled, NEW L, Agrees(L), NEW x \in Live, NEW size \in Sizes, ReplaceContent(x, size)
  PROVE  AgreesNext
<1>0. Forest(rows) /\ Places(rows, L) /\ Mirrors(rows, L, disk) /\ x \in DOMAIN rows
  BY ForestNow DEF Agrees, Live
<1>1. /\ Active(x) /\ x \in Reals(rows) /\ Bytes(rows, x) = x
      /\ PathOf(rows[x].owner, x) = L[x]
  BY <1>0, PathOfIsPlace DEF ReplaceContent, Reals, IsReal, IsFolder, Bytes
<1> DEFINE d == MkParents(disk, L[x])
<1>2. /\ disk' = Put(d, L[x], x) \/ disk' = d
      /\ rows' = rows \/ rows' = [rows EXCEPT ![x].size = size]
  BY <1>1 DEF ReplaceContent, Place
<1>3. Mirrors(rows, L, d)
  <2> DEFINE u == rows[x].owner
             p == rows[x].parent
  <2>1. /\ Holds(rows, u, p) /\ u \in Users /\ rows[x].name \in Seg
    BY <1>0, <1>1, RowSegs DEF Forest, Holds, Reals, Active
  <2>2. L[x] = Sub(Home(L, u, p), rows[x].name)
    BY <1>0, <1>1 DEF Places, PlaceOf, Start, TopIn, First, Home, Active
  <2> HIDE DEF u, p
  <2> QED BY <2>1, <2>2, ParentsThere
<1> HIDE DEF d
<1>4. \A q : q = Put(d, L[x], x) \/ q = d => Mirrors(rows, L, q)
  BY <1>0, <1>1, <1>3 DEF Mirrors, Put
<1>5. Mirrors(rows, L, disk')
  BY <1>2, <1>4
<1>6. /\ DOMAIN rows' = DOMAIN rows
      /\ \A y \in DOMAIN rows :
           /\ rows'[y].owner = rows[y].owner /\ rows'[y].type = rows[y].type
           /\ rows'[y].target = rows[y].target /\ rows'[y].deleted = rows[y].deleted
           /\ rows'[y].parent = rows[y].parent /\ rows'[y].name = rows[y].name
  BY <1>0, <1>2 DEF Forest, Row
<1> QED BY <1>0, <1>5, <1>6, SamePlaces

-----------------------------------------------------------------------------
(* Moving. *)

\* A shortcut takes nothing on disk along.
LEMMA ShortcutMoves ==
  ASSUME NEW r, Forest(r), NEW L, Places(r, L), NEW x \in DOMAIN r, r[x].target # Nil,
         NEW new, NEW q, DOMAIN q = DOMAIN r,
         \A y \in DOMAIN r : q[y].type = r[y].type /\ q[y].target = r[y].target,
         NEW d, Mirrors(r, L, d)
  PROVE  Mirrors(q, Moved(r, L, x, new), d)
<1> DEFINE M == Moved(r, L, x, new)
<1>1. \A y \in Reals(r) : y \in DOMAIN r /\ y # x /\ ~IsPrefix(L[x], L[y])
  BY ShortcutAlone DEF Reals
<1>2. \A y \in Reals(r) : M[y] = L[y]
  BY <1>1 DEF Moved
<1> HIDE DEF M
<1>3. Reals(q) = Reals(r) /\ \A y \in Reals(r) : Bytes(q, y) = Bytes(r, y)
  BY DEF Reals, Bytes
<1>4. Mirrors(q, M, d)
  BY <1>2, <1>3 DEF Mirrors
<1> QED BY <1>4 DEF M

\* The rows after a move.
MovedRow(x, p, final) ==
  /\ DOMAIN rows' = DOMAIN rows
  /\ \A y \in DOMAIN rows :
       /\ rows'[y].owner = rows[y].owner /\ rows'[y].type = rows[y].type
       /\ rows'[y].target = rows[y].target /\ rows'[y].deleted = rows[y].deleted
       /\ rows'[y].parent = IF y = x THEN p ELSE rows[y].parent
       /\ rows'[y].name = IF y = x THEN final ELSE rows[y].name

LEMMA MovedRowFacts ==
  ASSUME Forest(rows), NEW x \in Live, NEW p, NEW final,
         rows' = [rows EXCEPT ![x].name = final, ![x].parent = p]
  PROVE  MovedRow(x, p, final)
<1>1. DOMAIN rows' = DOMAIN rows
  OBVIOUS
<1>2. rows[x] \in Row /\ x \in DOMAIN rows
  BY DEF Forest, Live
<1>3. rows'[x] = [rows[x] EXCEPT !.name = final, !.parent = p]
  BY <1>2
<1>4. \A y \in DOMAIN rows : y # x => rows'[y] = rows[y]
  OBVIOUS
<1>5. /\ rows'[x].owner = rows[x].owner /\ rows'[x].type = rows[x].type
      /\ rows'[x].target = rows[x].target /\ rows'[x].deleted = rows[x].deleted
      /\ rows'[x].parent = p /\ rows'[x].name = final
  BY <1>2, <1>3 DEF Row
<1> QED BY <1>1, <1>4, <1>5 DEF MovedRow

\* Below the row that moves, nothing changes in the tree.
LEMMA MovedStarts ==
  ASSUME Forest(rows), NEW x \in Live, Active(x), NEW p, NEW final, MovedRow(x, p, final),
         NEW L, NEW owner, owner = rows[x].owner
  PROVE  /\ \A y \in DOMAIN rows \ {x} :
              /\ Start(rows', y) <=> Start(rows, y)
              /\ Start(rows, y) => First(rows', y) = First(rows, y)
              /\ rows'[y].parent = rows[y].parent /\ rows'[y].name = rows[y].name
         /\ PlaceOf(rows', L, x) = Sub(Home(L, owner, p), final)
         /\ Start(rows', x) <=> p = Nil
         /\ rows'[x].parent = p
<1>0. x \in DOMAIN rows /\ rows[x].deleted = Nil
  BY DEF Active, Live
<1>1. \A y \in DOMAIN rows : rows[y].parent # Nil => rows[y].parent \in DOMAIN rows
  BY DEF Forest
<1>2. ASSUME NEW y \in DOMAIN rows \ {x}
      PROVE  /\ Start(rows', y) <=> Start(rows, y)
             /\ Start(rows, y) => First(rows', y) = First(rows, y)
             /\ rows'[y].parent = rows[y].parent /\ rows'[y].name = rows[y].name
  <2>1. /\ rows'[y].parent = rows[y].parent /\ rows'[y].name = rows[y].name
        /\ rows'[y].deleted = rows[y].deleted /\ rows'[y].owner = rows[y].owner
    BY DEF MovedRow
  <2>2. rows[y].parent # Nil => rows'[rows[y].parent].deleted = rows[rows[y].parent].deleted
    BY <1>1 DEF MovedRow
  <2> QED BY <2>1, <2>2 DEF Start, TopIn, First
<1>3. /\ rows'[x].deleted = Nil /\ rows'[x].parent = p /\ rows'[x].name = final
      /\ rows'[x].owner = owner
  BY <1>0 DEF MovedRow
<1>4. Start(rows', x) <=> p = Nil
  BY <1>3 DEF Start, TopIn
<1>5. PlaceOf(rows', L, x) = Sub(Home(L, owner, p), final)
  BY <1>3, <1>4 DEF PlaceOf, First, Home
<1> QED BY <1>2, <1>3, <1>4, <1>5

LEMMA MoveAgrees ==
  ASSUME Settled, NEW L, Agrees(L), Untidy = {}, Forest(rows'),
         NEW x \in Live, NEW p \in Live \cup {Nil}, TidyParent(p),
         NEW name \in Requests, Move(x, name, p)
  PROVE  AgreesNext
<1> DEFINE owner == rows[x].owner
           moved(final) == [rows EXCEPT ![x].name = final, ![x].parent = p]
<1>0. /\ Inv /\ Forest(rows) /\ Places(rows, L) /\ Mirrors(rows, L, disk)
      /\ name \in FullName /\ Active(x) /\ ValidFolder(p) /\ OwnerAt(owner, p) = owner
      /\ x \in DOMAIN rows /\ x # Nil
  BY ForestNow, RequestsAreNames, NilIsNoValue DEF Settled, Move, Agrees, Live, Forest
<1>1. CanHold(p, owner) /\ owner \in Users
  <2>1. owner \in Users
    BY <1>0, RowSegs
  <2> QED BY <2>1, <1>0, HoldFacts
<1>2. PICK final \in UniqueName(owner, p, name, x) :
        LET old == PathOf(owner, x)
            new == Append(FolderPath(owner, p), final)
        IN  IF IsReal(x)
            THEN IF old = new THEN rows' = moved(final) /\ UNCHANGED disk
                 ELSE /\ disk' = Rename(disk, old, new)
                      /\ rows' = IF CanRename(disk, old, new) THEN moved(final) ELSE rows
            ELSE rows' = moved(final) /\ UNCHANGED disk
  BY DEF Move
<1> DEFINE new == Append(FolderPath(owner, p), final)
<1>3. /\ Holds(rows, owner, p) /\ final \in FullName /\ final \in Seg
      /\ new = Sub(Home(L, owner, p), final)
  BY <1>0, <1>1, <1>2, PlaceForName
<1>4. PathOf(owner, x) = L[x]
  BY <1>0, PathOfIsPlace
<1>5. \/ IsReal(x) /\ L[x] = new /\ rows' = moved(final) /\ UNCHANGED disk
      \/ /\ IsReal(x) /\ L[x] # new /\ disk' = Rename(disk, L[x], new)
         /\ rows' = IF CanRename(disk, L[x], new) THEN moved(final) ELSE rows
      \/ ~IsReal(x) /\ rows' = moved(final) /\ UNCHANGED disk
  BY <1>2, <1>4
<1>6. rows' = moved(final) => MovedRow(x, p, final)
  BY <1>0, MovedRowFacts
<1> HIDE DEF owner, moved, new
<1>7. new \in Paths /\ Mirrors(rows, L, MkParents(disk, new))
  BY <1>1, <1>3, ParentsThere
<1>8. MovedRow(x, p, final) =>
        /\ \A y \in DOMAIN rows \ {x} :
              /\ Start(rows', y) <=> Start(rows, y)
              /\ Start(rows, y) => First(rows', y) = First(rows, y)
              /\ rows'[y].parent = rows[y].parent /\ rows'[y].name = rows[y].name
        /\ new = PlaceOf(rows', L, x)
        /\ (Start(rows', x) <=> p = Nil)
        /\ rows'[x].parent = p
  BY <1>0, <1>3, MovedStarts DEF owner
<1>9. ASSUME MovedRow(x, p, final), p # Nil => ~IsPrefix(L[x], L[p])
      PROVE  Places(rows', Moved(rows, L, x, new))
  <2>1. DOMAIN rows' = DOMAIN rows
    BY <1>9 DEF MovedRow
  <2>2. p # Nil => p \in DOMAIN rows
    BY DEF Live
  <2>3. ~Start(rows', x) => rows'[x].parent \in DOMAIN rows /\ ~IsPrefix(L[x], L[rows'[x].parent])
    BY <1>8, <1>9, <2>2
  <2> QED BY <1>0, <1>7, <1>8, <1>9, <2>1, <2>3, MovedPlaces
<1>10. MovedRow(x, p, final) =>
         /\ DOMAIN rows' = DOMAIN rows
         /\ \A y \in DOMAIN rows : rows'[y].type = rows[y].type /\ rows'[y].target = rows[y].target
  BY DEF MovedRow
<1>11. CASE IsReal(x) /\ L[x] = new /\ rows' = moved(final) /\ UNCHANGED disk
  <2>1. Places(rows', L)
    <3>1. \A y \in DOMAIN rows \ {x} : PlaceOf(rows', L, y) = PlaceOf(rows, L, y)
      BY <1>6, <1>8, <1>11 DEF PlaceOf
    <3> QED BY <1>0, <1>6, <1>8, <1>10, <1>11, <3>1 DEF Places
  <2>2. Reals(rows') = Reals(rows) /\ \A y \in Reals(rows) : Bytes(rows', y) = Bytes(rows, y)
    BY <1>6, <1>10, <1>11 DEF Reals, Bytes
  <2>3. Mirrors(rows', L, disk')
    BY <1>0, <1>11, <2>2 DEF Mirrors
  <2> QED BY <2>1, <2>3 DEF AgreesNext
<1>12. CASE IsReal(x) /\ disk' = Rename(disk, L[x], new) /\ ~CanRename(disk, L[x], new) /\ rows' = rows
  <2>1. disk' = MkParents(disk, new)
    BY <1>12 DEF Rename
  <2> QED BY <1>7, <1>12, <2>1, TableKept
<1>13. CASE /\ IsReal(x) /\ disk' = Rename(disk, L[x], new) /\ CanRename(disk, L[x], new)
            /\ rows' = moved(final)
  <2>1. p # Nil => ~IsPrefix(L[x], L[p])
    <3>1. SUFFICES ASSUME p # Nil PROVE ~IsPrefix(L[x], L[p])
      OBVIOUS
    <3>2. ~IsPrefix(L[x], new) /\ new = Sub(L[p], final) /\ p \in DOMAIN rows
      BY <1>3, <1>13, <3>1 DEF CanRename, Home, Live
    <3>3. L[x] \in Paths /\ L[p] \in Paths
      BY <1>0, <3>2, PlacesArePaths
    <3> QED BY <1>3, <3>2, <3>3, UnderSub
  <2>2. Places(rows', Moved(rows, L, x, new))
    BY <1>6, <1>9, <1>13, <2>1
  <2>3. x \in Reals(rows)
    BY <1>0, <1>13 DEF Reals, IsReal
  <2>4. Mirrors(rows', Moved(rows, L, x, new), disk')
    BY <1>0, <1>6, <1>7, <1>10, <1>13, <2>2, <2>3, MovedDisk
  <2> QED BY <2>2, <2>4 DEF AgreesNext
<1>14. CASE ~IsReal(x) /\ rows' = moved(final) /\ UNCHANGED disk
  <2>1. rows[x].target # Nil
    BY <1>14 DEF IsReal
  <2>2. p # Nil => ~IsPrefix(L[x], L[p])
    BY <1>0, <1>3, <2>1, ShortcutAlone DEF Holds, Reals
  <2>3. Places(rows', Moved(rows, L, x, new))
    BY <1>6, <1>9, <1>14, <2>2
  <2>4. Mirrors(rows', Moved(rows, L, x, new), disk)
    BY <1>0, <1>6, <1>10, <1>14, <2>1, ShortcutMoves
  <2> QED BY <1>14, <2>3, <2>4 DEF AgreesNext
<1> QED BY <1>5, <1>11, <1>12, <1>13, <1>14

-----------------------------------------------------------------------------
(* Trash. *)

\* A trash entry's directory needs nothing but the root.
LEMMA TrashThere ==
  ASSUME Settled, NEW L, Agrees(L), NEW x \in Live, NEW place,
         place = TrashPath(rows[x].owner, x, rows[x].name)
  PROVE  /\ place = Sub(<<rows[x].owner, "trash">>, <<x, rows[x].name>>)
         /\ place \in Paths /\ Mirrors(rows, L, MkParents(disk, place))
<1>0. Forest(rows) /\ Places(rows, L) /\ Mirrors(rows, L, disk) /\ x \in DOMAIN rows
  BY ForestNow DEF Agrees, Live
<1>1. rows[x].owner \in Users /\ <<x, rows[x].name>> \in Seg
  BY <1>0, RowSegs
<1>2. place = Sub(<<rows[x].owner, "trash">>, <<x, rows[x].name>>)
  BY DEF TrashPath, Sub
<1>3. place \in Paths /\ Lineage(Front(place)) \subseteq FolderDirs(rows, L)
  BY <1>1, <1>2, TrashHome
<1> QED BY <1>0, <1>2, <1>3, MkdirKeeps DEF MkParents

\* The mark goes to whole subtrees: an item's place is still relative to its
\* parent's, but for the top item's.
LEMMA TrashedStarts ==
  ASSUME Settled, Untidy = {}, NEW x \in Live, TrashRows(x)
  PROVE  /\ \A y \in DOMAIN rows \ {x} :
              /\ Start(rows', y) <=> Start(rows, y)
              /\ Start(rows, y) => First(rows', y) = First(rows, y)
              /\ rows'[y].parent = rows[y].parent /\ rows'[y].name = rows[y].name
         /\ Start(rows', x)
         /\ First(rows', x) = Sub(<<rows[x].owner, "trash">>, <<x, rows[x].name>>)
<1> DEFINE owner == rows[x].owner
           S == ActiveOf(owner)
           marked == Below(x, S)
<1>0. /\ Inv /\ Forest(rows) /\ NoLoop(rows) /\ Active(x)
      /\ \A y \in Live : Trashed(y) => x \notin Above(y)
      /\ x \in DOMAIN rows /\ S \subseteq Live
  BY ForestNow DEF Settled, TrashRows, TidyDelete, Live, ActiveOf
<1>1. /\ now # Nil /\ Nil \notin Live
  BY <1>0, LiveFacts, NilIsNoValue
<1>2. \A y \in DOMAIN rows :
        /\ rows'[y].owner = rows[y].owner
        /\ rows'[y].parent = rows[y].parent
        /\ rows'[y].name = rows[y].name
        /\ rows'[y].deleted = IF y \in marked THEN now ELSE rows[y].deleted
  BY <1>0, TrashedRows DEF Live
<1>3. /\ x \in marked /\ marked \subseteq S \cup {x}
      /\ \A y \in S : rows[y].parent \in marked => y \in marked
      /\ \A y \in marked : y # x => rows[y].parent \in marked
  BY BelowContains, BelowInside, BelowClosed, BelowParents
<1>4. \A y \in marked : y \in Live /\ Active(y) /\ x \in Above(y)
  BY <1>0, <1>3, BelowAbove DEF ActiveOf
<1>5. \A y \in S : y \in Live /\ Active(y) /\ rows[y].owner = owner
  BY DEF ActiveOf
<1>6. \A y \in Live : Active(y) /\ rows[y].owner = owner => y \in S
  BY DEF ActiveOf
<1> HIDE DEF S, marked
<1>7. ASSUME NEW y \in DOMAIN rows \ {x}
      PROVE  /\ Start(rows', y) <=> Start(rows, y)
             /\ Start(rows, y) => First(rows', y) = First(rows, y)
             /\ rows'[y].parent = rows[y].parent /\ rows'[y].name = rows[y].name
  <2> DEFINE o == rows[y].parent
  <2>0. y \in Live /\ rows'[y].parent = o
    BY <1>2 DEF Live
  <2>1. CASE y \in marked
    <3>1. o \in marked /\ o # Nil /\ o \in DOMAIN rows
      BY <1>1, <1>3, <1>4, <2>1 DEF Live
    <3>2. rows[y].deleted = Nil /\ rows'[y].deleted = now /\ rows'[o].deleted = now
      BY <1>2, <1>4, <2>1, <3>1 DEF Active
    <3>3. ~Start(rows, y) /\ ~Start(rows', y)
      BY <1>1, <2>0, <3>1, <3>2 DEF Start, TopIn
    <3> QED BY <1>2, <3>3
  <2>2. CASE y \notin marked
    <3>1. rows'[y].deleted = rows[y].deleted
      BY <1>2, <2>2
    <3>2. ASSUME o # Nil, o \in marked PROVE FALSE
      <4>1. rows[o].owner = rows[y].owner /\ o \in Live
        BY <1>0, <3>2 DEF Forest, Live
      <4>2. rows[o].owner = owner
        BY <1>3, <1>5, <3>2
      <4>3. ~Active(y)
        BY <1>3, <1>6, <2>0, <2>2, <3>2, <4>1, <4>2
      <4>4. Trashed(y)
        BY <2>0, <4>3 DEF Trashed, Active
      <4>5. x \in Above(o) /\ o \in Above(y)
        BY <1>0, <1>4, <2>0, <3>2, AboveFacts
      <4>6. Above(o) \subseteq Above(y)
        <5>1. ASSUME NEW C \in SUBSET Live, y \in C, ClosedUp(C) PROVE o \in C
          BY <3>2, <5>1 DEF ClosedUp
        <5> QED BY <5>1 DEF Above
      <4> QED BY <1>0, <2>0, <4>4, <4>5, <4>6
    <3>3. o # Nil => rows'[o].deleted = rows[o].deleted
      BY <1>0, <1>2, <3>2 DEF Forest
    <3> QED BY <1>2, <2>0, <3>1, <3>3 DEF Start, TopIn, First
  <2> QED BY <2>1, <2>2
<1>8. rows[x].parent \notin marked
  <2>1. marked \subseteq Live /\ marked # {}
    BY <1>3, <1>4
  <2>2. ~\A y \in marked : rows[y].parent \in marked
    BY <1>0, <2>1, OldLoop
  <2> QED BY <1>3, <2>2
<1>9. Start(rows', x) /\ rows'[x].deleted = now
  <2>1. rows[x].parent # Nil => rows[x].parent \in DOMAIN rows /\ rows[rows[x].parent].deleted = Nil
    BY <1>0 DEF Forest, Active
  <2>2. rows[x].parent # Nil => rows'[rows[x].parent].deleted = Nil
    BY <1>2, <1>8, <2>1
  <2> QED BY <1>0, <1>1, <1>2, <1>3, <2>2 DEF Start, TopIn
<1>10. First(rows', x) = Sub(<<rows[x].owner, "trash">>, <<x, rows[x].name>>)
  BY <1>0, <1>1, <1>2, <1>9 DEF First
<1> QED BY <1>7, <1>9, <1>10

LEMMA DeleteAgrees ==
  ASSUME Settled, NEW L, Agrees(L), Untidy = {}, Forest(rows'),
         NEW x \in Live, TidyDelete(x), Delete(x)
  PROVE  AgreesNext
<1> DEFINE owner == rows[x].owner
           gone == [y \in Live |-> IF y \in Below(x, ActiveOf(owner))
                                   THEN [rows[y] EXCEPT !.deleted = now] ELSE rows[y]]
           new == TrashPath(owner, x, rows[x].name)
<1>0. /\ Inv /\ Forest(rows) /\ Places(rows, L) /\ Mirrors(rows, L, disk)
      /\ Active(x) /\ x \in DOMAIN rows
  BY ForestNow DEF Settled, Delete, Agrees, Live
<1>1. PathOf(owner, x) = L[x]
  BY <1>0, PathOfIsPlace
<1>2. \/ /\ IsReal(x) /\ disk' = Rename(disk, L[x], new)
         /\ rows' = IF CanRename(disk, L[x], new) THEN gone ELSE rows
      \/ ~IsReal(x) /\ rows' = gone /\ UNCHANGED disk
  BY <1>1 DEF Delete
<1>3. rows' = gone => TrashRows(x)
  BY <1>0 DEF TrashRows, Delete
<1>4. /\ new = Sub(<<owner, "trash">>, <<x, rows[x].name>>)
      /\ new \in Paths /\ Mirrors(rows, L, MkParents(disk, new))
  BY <1>0, TrashThere DEF Agrees
<1> HIDE DEF gone, new
<1>5. ASSUME rows' = gone
      PROVE  /\ DOMAIN rows' = DOMAIN rows
             /\ \A y \in DOMAIN rows : rows'[y].type = rows[y].type /\ rows'[y].target = rows[y].target
             /\ Places(rows', Moved(rows, L, x, new))
  <2>1. TrashRows(x)
    BY <1>3, <1>5
  <2>2. /\ DOMAIN rows' = DOMAIN rows
        /\ \A y \in DOMAIN rows : rows'[y].type = rows[y].type /\ rows'[y].target = rows[y].target
    BY <1>0, <2>1, TrashedRows DEF Live
  <2>3. /\ \A y \in DOMAIN rows \ {x} :
              /\ Start(rows', y) <=> Start(rows, y)
              /\ Start(rows, y) => First(rows', y) = First(rows, y)
              /\ rows'[y].parent = rows[y].parent /\ rows'[y].name = rows[y].name
        /\ Start(rows', x)
        /\ First(rows', x) = new
    BY <1>4, <2>1, TrashedStarts
  <2>4. new = PlaceOf(rows', L, x)
    BY <2>3 DEF PlaceOf
  <2> QED BY <1>0, <1>4, <2>2, <2>3, <2>4, MovedPlaces
<1>6. CASE IsReal(x) /\ disk' = Rename(disk, L[x], new) /\ ~CanRename(disk, L[x], new) /\ rows' = rows
  <2>1. disk' = MkParents(disk, new)
    BY <1>6 DEF Rename
  <2> QED BY <1>4, <1>6, <2>1, TableKept
<1>7. CASE IsReal(x) /\ disk' = Rename(disk, L[x], new) /\ CanRename(disk, L[x], new) /\ rows' = gone
  <2>1. x \in Reals(rows)
    BY <1>0, <1>7 DEF Reals, IsReal
  <2>2. Mirrors(rows', Moved(rows, L, x, new), disk')
    BY <1>0, <1>4, <1>5, <1>7, <2>1, MovedDisk
  <2> QED BY <1>5, <1>7, <2>2 DEF AgreesNext
<1>8. CASE ~IsReal(x) /\ rows' = gone /\ UNCHANGED disk
  <2>1. rows[x].target # Nil
    BY <1>8 DEF IsReal
  <2>2. Mirrors(rows', Moved(rows, L, x, new), disk)
    BY <1>0, <1>5, <1>8, <2>1, ShortcutMoves
  <2> QED BY <1>5, <1>8, <2>2 DEF AgreesNext
<1> QED BY <1>2, <1>6, <1>7, <1>8

\* A walk that nothing stops goes through all of it.
LEMMA CompletedAll ==
  ASSUME NEW x \in Ids, NEW S, S \subseteq Ids,
         NEW s, s \in Preorders(x, S) \/ s \in Postorders(x, S)
  PROVE  Completed(s, {}) = Below(x, S)
<1>1. Completed(s, {}) \subseteq Below(x, S)
  BY CompletedBelow
<1>2. ASSUME NEW r, r \in Preorders(x, S)
      PROVE  /\ Len(r) \in Nat /\ DOMAIN r = 1..Len(r) /\ r \in Seq(Ids)
             /\ \A y \in Below(x, S) : \E k \in 1..Len(r) : y = r[k]
  <2>1. r \in Listings(Below(x, S)) /\ Below(x, S) \subseteq Ids
    BY <1>2, BelowInside DEF Preorders
  <2>2. /\ Len(r) \in Nat /\ DOMAIN r = 1..Len(r)
        /\ \A k \in DOMAIN r : r[k] \in Ids
        /\ \A y \in Below(x, S) : \E k \in DOMAIN r : y = r[k]
    BY <2>1, ListingFacts
  <2>3. r = [k \in 1..Len(r) |-> r[k]]
    BY <2>1, <2>2 DEF Listings
  <2>4. r \in Seq(Ids)
    BY <2>2, <2>3
  <2> QED BY <2>2, <2>4
<1>3. \A y \in Below(x, S) : \E k \in DOMAIN s : y = s[k]
  <2>1. CASE s \in Preorders(x, S)
    BY <1>2, <2>1
  <2>2. CASE s \in Postorders(x, S)
    <3>1. PICK r \in Preorders(x, S) : s = Reverse(r)
      BY <2>2 DEF Postorders
    <3>2. /\ Len(r) \in Nat
          /\ \A y \in Below(x, S) : \E k \in 1..Len(r) : y = r[k]
      BY <1>2, <3>1
    <3>3. s = [i \in 1..Len(r) |-> r[Len(r) - i + 1]]
      BY <3>1 DEF Reverse
    <3>4. ASSUME NEW k \in 1..Len(r)
          PROVE  Len(r) - k + 1 \in 1..Len(r) /\ Len(r) - (Len(r) - k + 1) + 1 = k
      BY <3>2
    <3>5. ASSUME NEW y \in Below(x, S) PROVE \E k \in DOMAIN s : y = s[k]
      <4>1. PICK k \in 1..Len(r) : y = r[k]
        BY <3>2
      <4>2. Len(r) - k + 1 \in DOMAIN s
        BY <3>3, <3>4, <4>1
      <4>3. s[Len(r) - k + 1] = r[k]
        BY <3>3, <3>4, <4>1
      <4> QED BY <4>1, <4>2, <4>3
    <3> QED BY <3>5
  <2> QED BY <2>1, <2>2
<1>4. \A k \in DOMAIN s : s[k] \in Completed(s, {})
  BY DEF Completed
<1> QED BY <1>1, <1>3, <1>4

\* The same the other way round: the mark comes off a whole subtree.
LEMMA ClearedStarts ==
  ASSUME Settled, Untidy = {}, NEW x \in Live, NEW final, NEW s, RestoreRows(x, final, s),
         NEW L
  PROVE  /\ DOMAIN rows' = DOMAIN rows
         /\ \A y \in DOMAIN rows : rows'[y].type = rows[y].type /\ rows'[y].target = rows[y].target
         /\ \A y \in DOMAIN rows \ {x} :
              /\ Start(rows', y) <=> Start(rows, y)
              /\ Start(rows, y) => First(rows', y) = First(rows, y)
              /\ rows'[y].parent = rows[y].parent /\ rows'[y].name = rows[y].name
         /\ PlaceOf(rows', L, x) = Sub(Home(L, rows[x].owner, ParentBack(x)), final)
         /\ Start(rows', x) <=> ParentBack(x) = Nil
         /\ rows'[x].parent = ParentBack(x)
<1> DEFINE owner == rows[x].owner
           S == TrashedOf(owner)
           back == Below(x, S)
<1>0. /\ Inv /\ Forest(rows) /\ Trashed(x) /\ DistinctInTrash(rows) /\ x \in DOMAIN rows
      /\ s \in Preorders(x, S) /\ S \subseteq Live /\ Live \subseteq Ids
  BY ForestNow, LiveFacts DEF Settled, RestoreRows, Live, TrashedOf
<1>1. Completed(s, Clashing(s)) = back
  <2>1. Clashing(s) = {}
    BY <1>0, NoneClashes
  <2>2. x \in Ids /\ S \subseteq Ids
    BY <1>0
  <2> QED BY <1>0, <2>1, <2>2, CompletedAll
<1>2. /\ DOMAIN rows' = DOMAIN rows
      /\ \A y \in DOMAIN rows :
           /\ rows'[y].owner = rows[y].owner
           /\ rows'[y].type = rows[y].type
           /\ rows'[y].target = rows[y].target
           /\ rows'[y].parent = IF y = x THEN ParentBack(x) ELSE rows[y].parent
           /\ rows'[y].name = IF y = x THEN final ELSE rows[y].name
           /\ rows'[y].deleted = IF y \in back THEN Nil ELSE rows[y].deleted
  <2>1. x \in back
    BY BelowContains
  <2> QED BY <1>0, <1>1, <2>1, ClearedRows DEF Live
<1>3. /\ x \in back /\ back \subseteq S \cup {x}
      /\ \A y \in S : rows[y].parent \in back => y \in back
      /\ \A y \in back : y # x => rows[y].parent \in back
  BY BelowContains, BelowInside, BelowClosed, BelowParents
<1>4. \A y \in S \cup {x} : y \in Live /\ y # Nil /\ rows[y].deleted # Nil /\ rows[y].owner = owner
  BY <1>0, NilIsNoValue DEF TrashedOf, Trashed
<1>5. \A y \in Live : rows[y].deleted # Nil /\ rows[y].owner = owner => y \in S
  BY DEF TrashedOf, Trashed
<1> HIDE DEF S, back
<1>6. ASSUME NEW y \in DOMAIN rows \ {x}
      PROVE  /\ Start(rows', y) <=> Start(rows, y)
             /\ Start(rows, y) => First(rows', y) = First(rows, y)
             /\ rows'[y].parent = rows[y].parent /\ rows'[y].name = rows[y].name
  <2> DEFINE o == rows[y].parent
  <2>0. y \in Live /\ rows'[y].parent = o
    BY <1>2 DEF Live
  <2>1. CASE y \in back
    <3>1. o \in back /\ o # Nil /\ rows[y].deleted # Nil /\ rows[o].deleted # Nil
      BY <1>3, <1>4, <2>1
    <3>2. rows'[y].deleted = Nil
      BY <1>2, <2>1
    <3>3. ~Start(rows, y) /\ ~Start(rows', y)
      BY <2>0, <3>1, <3>2 DEF Start, TopIn
    <3> QED BY <1>2, <3>3
  <2>2. CASE y \notin back
    <3>1. rows'[y].deleted = rows[y].deleted
      BY <1>2, <2>2
    <3>2. ASSUME o # Nil, o \in back PROVE FALSE
      <4>1. rows[o].owner = rows[y].owner /\ (rows[y].deleted = Nil => rows[o].deleted = Nil)
        BY <1>0, <3>2 DEF Forest
      <4>2. rows[o].owner = owner /\ rows[o].deleted # Nil
        BY <1>3, <1>4, <3>2
      <4> QED BY <1>3, <1>5, <2>0, <2>2, <3>2, <4>1, <4>2
    <3>3. o # Nil => rows'[o].deleted = rows[o].deleted
      BY <1>0, <1>2, <3>2 DEF Forest
    <3> QED BY <1>2, <2>0, <3>1, <3>3 DEF Start, TopIn, First
  <2> QED BY <2>1, <2>2
<1>7. /\ rows'[x].deleted = Nil /\ rows'[x].parent = ParentBack(x) /\ rows'[x].name = final
      /\ rows'[x].owner = rows[x].owner
  BY <1>0, <1>2, <1>3
<1>8. Start(rows', x) <=> ParentBack(x) = Nil
  BY <1>7 DEF Start, TopIn
<1>9. PlaceOf(rows', L, x) = Sub(Home(L, rows[x].owner, ParentBack(x)), final)
  BY <1>7, <1>8 DEF PlaceOf, First, Home
<1> QED BY <1>2, <1>6, <1>7, <1>8, <1>9

LEMMA RestoreAgrees ==
  ASSUME Settled, NEW L, Agrees(L), Untidy = {}, Forest(rows'),
         NEW x \in Live, TidyTrash(x), TidyRestore(x), Restore(x)
  PROVE  AgreesNext
<1> DEFINE owner == rows[x].owner
           p == ParentBack(x)
           old == TrashPath(owner, x, rows[x].name)
<1>0. /\ Inv /\ Forest(rows) /\ Places(rows, L) /\ Mirrors(rows, L, disk)
      /\ Trashed(x) /\ TopOfTrash(x) /\ x \in DOMAIN rows /\ p \in Live \cup {Nil}
      /\ rows[x].name \in FullName /\ owner \in Users
  BY ForestNow, RowSegs DEF Settled, Restore, Agrees, Live, TidyTrash, ParentBack, Active
<1>1. CanHold(p, owner) /\ TidyParent(p)
  <2>1. p # Nil => p = rows[x].parent /\ Active(p)
    BY DEF ParentBack
  <2>2. p # Nil => IsFolder(p) /\ rows[p].owner = owner /\ IsReal(p)
    BY <1>0, <2>1 DEF Forest, IsFolder, IsReal
  <2> QED BY <2>1, <2>2 DEF CanHold, TidyParent, Active
<1>2. PICK final \in UniqueName(owner, p, rows[x].name, x), s \in Preorders(x, TrashedOf(owner)) :
        LET restored == Cleared(x, p, final, Completed(s, Clashing(s)))
            new == Append(FolderPath(owner, p), final)
        IN  IF IsReal(x)
            THEN /\ disk' = Rename(disk, old, new)
                 /\ rows' = IF CanRename(disk, old, new) THEN restored ELSE rows
            ELSE rows' = restored /\ UNCHANGED disk
  BY DEF Restore, ParentBack, Clashing
<1> DEFINE restored == Cleared(x, p, final, Completed(s, Clashing(s)))
           new == Append(FolderPath(owner, p), final)
<1>3. /\ Holds(rows, owner, p) /\ final \in FullName /\ final \in Seg
      /\ new = Sub(Home(L, owner, p), final)
  BY <1>0, <1>1, <1>2, PlaceForName
<1>4. old = L[x]
  <2>1. rows[x].parent # Nil => rows[x].parent \in Live
    BY <1>0 DEF Forest, Live
  <2>2. TopIn(rows, x)
    BY <1>0, <2>1 DEF TopOfTrash, TopIn, Trashed
  <2>3. L[x] = First(rows, x)
    BY <1>0, <2>2 DEF Places, PlaceOf, Start
  <2> QED BY <2>2, <2>3 DEF First, TopIn, TrashPath, Sub
<1>5. \/ /\ IsReal(x) /\ disk' = Rename(disk, L[x], new)
         /\ rows' = IF CanRename(disk, L[x], new) THEN restored ELSE rows
      \/ ~IsReal(x) /\ rows' = restored /\ UNCHANGED disk
  BY <1>2, <1>4
<1>6. rows' = restored => RestoreRows(x, final, s)
  BY <1>0, <1>2 DEF RestoreRows, Restore
<1> HIDE DEF restored, new, old
<1>7. new \in Paths /\ Mirrors(rows, L, MkParents(disk, new))
  BY <1>0, <1>3, ParentsThere
<1>8. rows' = restored =>
         /\ DOMAIN rows' = DOMAIN rows
         /\ \A y \in DOMAIN rows : rows'[y].type = rows[y].type /\ rows'[y].target = rows[y].target
         /\ \A y \in DOMAIN rows \ {x} :
              /\ Start(rows', y) <=> Start(rows, y)
              /\ Start(rows, y) => First(rows', y) = First(rows, y)
              /\ rows'[y].parent = rows[y].parent /\ rows'[y].name = rows[y].name
         /\ PlaceOf(rows', L, x) = new
         /\ (Start(rows', x) <=> p = Nil)
         /\ rows'[x].parent = p
  BY <1>3, <1>6, ClearedStarts
<1> HIDE DEF p, owner
<1>9. ASSUME rows' = restored, p # Nil => ~IsPrefix(L[x], L[p])
      PROVE  Places(rows', Moved(rows, L, x, new))
  <2>1. p # Nil => p \in DOMAIN rows
    BY <1>0 DEF Live
  <2>2. ~Start(rows', x) => rows'[x].parent \in DOMAIN rows /\ ~IsPrefix(L[x], L[rows'[x].parent])
    BY <1>8, <1>9, <2>1
  <2>3. new = PlaceOf(rows', L, x)
    BY <1>8, <1>9
  <2> QED BY <1>0, <1>7, <1>8, <1>9, <2>2, <2>3, MovedPlaces
<1>10. CASE IsReal(x) /\ disk' = Rename(disk, L[x], new) /\ ~CanRename(disk, L[x], new) /\ rows' = rows
  <2>1. disk' = MkParents(disk, new)
    BY <1>10 DEF Rename
  <2> QED BY <1>7, <1>10, <2>1, TableKept
<1>11. CASE IsReal(x) /\ disk' = Rename(disk, L[x], new) /\ CanRename(disk, L[x], new) /\ rows' = restored
  <2>1. p # Nil => ~IsPrefix(L[x], L[p])
    <3>1. SUFFICES ASSUME p # Nil PROVE ~IsPrefix(L[x], L[p])
      OBVIOUS
    <3>2. ~IsPrefix(L[x], new) /\ new = Sub(L[p], final) /\ p \in DOMAIN rows
      BY <1>0, <1>3, <1>11, <3>1 DEF CanRename, Home, Live
    <3>3. L[x] \in Paths /\ L[p] \in Paths
      BY <1>0, <3>2, PlacesArePaths
    <3> QED BY <1>3, <3>2, <3>3, UnderSub
  <2>2. Places(rows', Moved(rows, L, x, new))
    BY <1>9, <1>11, <2>1
  <2>3. x \in Reals(rows)
    BY <1>0, <1>11 DEF Reals, IsReal
  <2>4. Mirrors(rows', Moved(rows, L, x, new), disk')
    BY <1>0, <1>7, <1>8, <1>11, <2>2, <2>3, MovedDisk
  <2> QED BY <2>2, <2>4 DEF AgreesNext
<1>12. CASE ~IsReal(x) /\ rows' = restored /\ UNCHANGED disk
  <2>1. rows[x].target # Nil
    BY <1>12 DEF IsReal
  <2>2. p # Nil => ~IsPrefix(L[x], L[p])
    BY <1>0, <1>3, <2>1, ShortcutAlone DEF Holds, Reals
  <2>3. Places(rows', Moved(rows, L, x, new))
    BY <1>9, <1>12, <2>2
  <2>4. Mirrors(rows', Moved(rows, L, x, new), disk)
    BY <1>0, <1>8, <1>12, <2>1, ShortcutMoves
  <2> QED BY <1>12, <2>3, <2>4 DEF AgreesNext
<1> QED BY <1>5, <1>10, <1>11, <1>12

-----------------------------------------------------------------------------
(* Deleting for good. *)

\* In a postorder, an item comes after its children.
LEMMA ChildrenFirst ==
  ASSUME NEW x \in Ids, NEW S, S \subseteq Ids, NEW s \in Postorders(x, S),
         NEW y, NEW k \in DOMAIN s, y = s[k],
         NEW z \in S, z \in Below(x, S), z # y, rows[z].parent = y
  PROVE  z \in {s[j] : j \in 1..(k - 1)}
<1>1. PICK r \in Preorders(x, S) : s = Reverse(r)
  BY DEF Postorders
<1> DEFINE n == Len(r)
           sub == [v \in {r[i] : i \in DOMAIN r} |-> Below(v, S)]
<1>2. /\ r \in Listings(Below(x, S)) /\ Below(x, S) \subseteq Ids
      /\ \A j, i \in DOMAIN r : j < i => r[j] \notin sub[r[i]]
  <2>1. r \in Listings(Below(x, S)) /\ IsPreorder(r, S)
    BY <1>1 DEF Preorders
  <2>2. Below(x, S) \subseteq Ids
    BY BelowInside
  <2>3. \A j, i \in DOMAIN r : j < i => r[j] \notin sub[r[i]]
    BY <2>1 DEF IsPreorder
  <2> QED BY <2>1, <2>2, <2>3
<1>3. /\ n \in Nat /\ DOMAIN r = 1..n
      /\ \A v \in Below(x, S) : \E i \in DOMAIN r : v = r[i]
  BY <1>2, ListingFacts
<1>4. \A j, i \in 1..n : j < i => r[j] \notin Below(r[i], S)
  BY <1>2, <1>3
<1>5. s = [i \in 1..n |-> r[n - i + 1]]
  BY <1>1 DEF Reverse
<1> HIDE DEF n, sub
<1>6. PICK i \in 1..n : z = r[i]
  BY <1>3
<1>7. k \in 1..n /\ y = r[n - k + 1] /\ n - k + 1 \in 1..n
  <2>1. k \in 1..n
    BY <1>5
  <2> QED BY <1>3, <1>5, <2>1
<1>8. z \in Below(y, S)
  BY BelowContains, BelowClosed
<1>9. ~(i < n - k + 1)
  BY <1>4, <1>6, <1>7, <1>8
<1>10. i # n - k + 1
  BY <1>6, <1>7
<1>11. n - i + 1 \in 1..(k - 1) /\ n - i + 1 \in 1..n /\ n - (n - i + 1) + 1 = i
  BY ONLY <1>3, <1>6, <1>7, <1>9, <1>10
<1>12. s[n - i + 1] = r[i]
  BY <1>5, <1>11
<1> QED BY <1>6, <1>11, <1>12

\* With nothing pointing into the subtree from outside, all of it goes.
LEMMA RemovesAll ==
  ASSUME Settled, Untidy = {}, NEW x \in Live, Trashed(x), TidyPurge(x),
         NEW s \in Postorders(x, TrashedOf(rows[x].owner))
  PROVE  Removed(s) = Below(x, TrashedOf(rows[x].owner))
<1> DEFINE S == TrashedOf(rows[x].owner)
           bad == {k \in DOMAIN s : Referenced(s[k], {s[j] : j \in 1..(k - 1)})}
<1>0. /\ Inv /\ Forest(rows) /\ S \subseteq Live /\ S \subseteq Ids /\ x \in Ids /\ Nil \notin Live
      /\ s \in Postorders(x, S)
      /\ \A y \in Live : x \in Above(y) => y \notin links /\ \A z \in Live : rows[z].target # y
  BY ForestNow, LiveFacts, NilIsNoValue DEF Settled, TidyPurge, TrashedOf
<1>1. ASSUME NEW k \in DOMAIN s PROVE ~Referenced(s[k], {s[j] : j \in 1..(k - 1)})
  <2> DEFINE y == s[k]
             gone == {s[j] : j \in 1..(k - 1)}
  <2>1. y \in Below(x, S)
    <3>1. y \in Completed(s, {})
      BY DEF Completed
    <3> QED BY <1>0, <3>1, CompletedAll
  <2>2. x \in Above(y) /\ y \in Live /\ Trashed(y) /\ rows[y].owner = rows[x].owner
    BY <1>0, <2>1, BelowAbove, BelowInside DEF TrashedOf
  <2>3. ASSUME NEW z \in Live \ (gone \cup {y}), rows[z].parent = y PROVE FALSE
    <3>1. z \in Live /\ z # y
      BY <2>3
    <3>2. rows[z].owner = rows[x].owner /\ rows[z].deleted # Nil
      BY <1>0, <2>2, <2>3, <3>1 DEF Forest, Trashed, Live
    <3>3. z \in S
      BY <3>1, <3>2 DEF TrashedOf, Trashed
    <3>4. z \in Below(x, S)
      BY <2>1, <2>3, <3>3, BelowClosed
    <3>5. z \in gone
      BY <1>0, <2>3, <3>1, <3>3, <3>4, ChildrenFirst
    <3> QED BY <2>3, <3>5
  <2>4. y \notin links /\ \A z \in Live : rows[z].target # y
    BY <1>0, <2>2
  <2> HIDE DEF y, gone
  <2>5. ~Referenced(y, gone)
    BY <2>3, <2>4 DEF Referenced
  <2> QED BY <2>5 DEF y, gone
<1>2. bad = {}
  BY <1>1
<1>3. Removed(s) = Completed(s, bad)
  BY DEF Removed
<1> HIDE DEF bad, S
<1>4. Completed(s, {}) = Below(x, S)
  BY <1>0, CompletedAll
<1> QED BY <1>2, <1>3, <1>4 DEF S

\* What is below a trash entry's top is what is under its path.
LEMMA BelowIsUnder ==
  ASSUME Settled, NEW L, Places(rows, L), NEW x \in Live, Trashed(x),
         NEW S, S = TrashedOf(rows[x].owner)
  PROVE  \A y \in Live :
           /\ y \in Below(x, S) <=> IsPrefix(L[x], L[y])
           /\ rows[y].parent \in Below(x, S) => y \in Below(x, S)
<1>0. Inv /\ Forest(rows) /\ NoLoop(rows) /\ Nil \notin Live /\ x \in DOMAIN rows
  BY ForestNow, LiveFacts, NilIsNoValue DEF Settled, Live
<1>1. /\ x \in Below(x, S) /\ Below(x, S) \subseteq S \cup {x}
      /\ \A y \in S : rows[y].parent \in Below(x, S) => y \in Below(x, S)
  BY BelowContains, BelowInside, BelowClosed
<1>2. \A y \in S \cup {x} : y \in Live /\ rows[y].deleted # Nil /\ rows[y].owner = rows[x].owner
  BY DEF TrashedOf, Trashed
<1>3. \A y \in Live : rows[y].deleted # Nil /\ rows[y].owner = rows[x].owner => y \in S
  BY DEF TrashedOf, Trashed
<1>4. ASSUME NEW y \in Live, rows[y].parent \in Below(x, S)
      PROVE  y \in Below(x, S)
  <2>1. /\ rows[y].parent \in Live /\ rows[rows[y].parent].deleted # Nil
        /\ rows[rows[y].parent].owner = rows[x].owner
    BY <1>1, <1>2, <1>4
  <2>2. rows[y].owner = rows[x].owner /\ rows[y].deleted # Nil
    BY <1>0, <2>1 DEF Forest, Live
  <2> QED BY <1>1, <1>3, <1>4, <2>2
<1>5. ASSUME NEW y \in DOMAIN rows
      PROVE  /\ IsPrefix(L[x], L[y]) /\ y # x =>
                  ~Start(rows, y) /\ rows[y].parent \in DOMAIN rows /\ IsPrefix(L[x], L[rows[y].parent])
             /\ ~Start(rows, y) /\ IsPrefix(L[x], L[rows[y].parent]) => IsPrefix(L[x], L[y])
             /\ IsPrefix(L[x], L[x])
  BY <1>0, UnderPlace
<1>6. ASSUME NEW y \in Below(x, S) PROVE IsPrefix(L[x], L[y])
  <2> DEFINE C == {z \in Below(x, S) : IsPrefix(L[x], L[z])}
  <2>1. C \in SUBSET (S \cup {x}) /\ x \in C
    BY <1>0, <1>1, <1>5
  <2>2. ASSUME NEW z \in S, rows[z].parent \in C PROVE z \in C
    <3>1. rows[z].parent \in Below(x, S) /\ IsPrefix(L[x], L[rows[z].parent]) /\ z \in Below(x, S)
      BY <1>1, <2>2
    <3>2. rows[z].parent \in Live /\ rows[rows[z].parent].deleted # Nil /\ z \in DOMAIN rows
      BY <1>1, <1>2, <3>1 DEF Live
    <3>3. ~Start(rows, z)
      BY <1>0, <3>2 DEF Start, TopIn
    <3> QED BY <1>5, <3>1, <3>2, <3>3
  <2>3. ClosedDown(C, S)
    BY <2>2 DEF ClosedDown
  <2>4. y \in C
    BY <2>1, <2>3 DEF Below
  <2> QED BY <2>4
<1>7. ASSUME NEW y \in Live, IsPrefix(L[x], L[y]), y \notin Below(x, S) PROVE FALSE
  <2> DEFINE D == {z \in Live : IsPrefix(L[x], L[z]) /\ z \notin Below(x, S)}
  <2>1. ASSUME NEW z \in D PROVE rows[z].parent \in D
    <3>1. z \in DOMAIN rows /\ z # x /\ z \in Live
      BY <1>1, <2>1 DEF Live
    <3>2. rows[z].parent \in Live /\ IsPrefix(L[x], L[rows[z].parent])
      BY <1>5, <2>1, <3>1 DEF Live
    <3> QED BY <1>4, <2>1, <3>2
  <2>2. D = {}
    BY <1>0, <2>1, OldLoop
  <2> QED BY <1>7, <2>2
<1> QED BY <1>4, <1>6, <1>7

LEMMA EraseAgrees ==
  ASSUME Settled, NEW L, Agrees(L), Untidy = {}, NEW x \in Live,
         TopOfTrash(x), TidyPurge(x), Erase(x)
  PROVE  AgreesNext
<1> DEFINE S == TrashedOf(rows[x].owner)
           R == Below(x, S)
<1>0. /\ Inv /\ Forest(rows) /\ Places(rows, L) /\ Mirrors(rows, L, disk)
      /\ Trashed(x) /\ x \in DOMAIN rows /\ Nil \notin Ids /\ Live \subseteq Ids
  BY ForestNow, LiveFacts, NilIsNoValue DEF Settled, Agrees, Live, TopOfTrash
<1>1. PICK s \in Postorders(x, S) : rows' = [y \in Live \ Removed(s) |-> rows[y]]
  BY DEF Erase
<1>2. Removed(s) = R
  BY <1>0, <1>1, RemovesAll
<1>3. \A y \in Live : /\ y \in R <=> IsPrefix(L[x], L[y])
                      /\ rows[y].parent \in R => y \in R
  BY <1>0, BelowIsUnder
<1> HIDE DEF R
<1>4. DOMAIN rows' = DOMAIN rows \ R /\ \A y \in DOMAIN rows \ R : rows'[y] = rows[y]
  BY <1>1, <1>2 DEF Live
<1>5. Places(rows', L)
  <2>1. ASSUME NEW y \in DOMAIN rows \ R PROVE PlaceOf(rows', L, y) = PlaceOf(rows, L, y)
    <3>1. rows[y].parent # Nil => rows[y].parent \in DOMAIN rows \ R
      BY <1>0, <1>3, <2>1 DEF Forest, Live
    <3> QED BY <1>4, <2>1, <3>1 DEF PlaceOf, Start, TopIn, First
  <2> QED BY <1>0, <1>4, <2>1 DEF Places
<1>6. Reals(rows') = Reals(rows) \ R /\ \A y \in Reals(rows) \ R : Bytes(rows', y) = Bytes(rows, y)
  BY <1>4 DEF Reals, Bytes
<1>7. TrashPath(rows[x].owner, x, rows[x].name) = L[x]
  <2>1. rows[x].parent # Nil => rows[x].parent \in Live
    BY <1>0 DEF Forest, Live
  <2>2. TopIn(rows, x)
    BY <1>0, <2>1 DEF TopOfTrash, TopIn, Trashed
  <2>3. L[x] = First(rows, x)
    BY <1>0, <2>2 DEF Places, PlaceOf, Start
  <2> QED BY <2>2, <2>3 DEF First, TopIn, TrashPath, Sub
<1>8. CASE IsReal(x)
  <2>1. disk' = RemoveAll(disk, L[x])
    BY <1>7, <1>8 DEF Erase
  <2>2. \A y \in Reals(rows) : y \in R <=> IsPrefix(L[x], L[y])
    BY <1>3 DEF Reals, Live
  <2>3. /\ DOMAIN disk' = {L[y] : y \in Reals(rows) \ R}
        /\ \A y \in Reals(rows) \ R : disk'[L[y]] = Bytes(rows, y)
    BY <1>0, <2>1, <2>2 DEF RemoveAll, Under, Mirrors
  <2>4. Mirrors(rows', L, disk')
    BY <1>6, <2>3 DEF Mirrors
  <2> QED BY <1>5, <2>4 DEF AgreesNext
<1>9. CASE ~IsReal(x)
  <2>1. \A y \in DOMAIN rows : IsPrefix(L[x], L[y]) <=> y = x
    BY <1>0, <1>9, ShortcutAlone DEF IsReal
  <2>2. Reals(rows) \ R = Reals(rows)
    BY <1>3, <1>9, <2>1 DEF Reals, IsReal, Live
  <2>3. disk' = disk
    BY <1>9 DEF Erase
  <2>4. Mirrors(rows', L, disk')
    BY <1>0, <1>6, <2>2, <2>3 DEF Mirrors
  <2> QED BY <1>5, <2>4 DEF AgreesNext
<1> QED BY <1>8, <1>9

-----------------------------------------------------------------------------
(* Copying a folder. *)

\* What is below an active item is under its path.
LEMMA ActiveBelowIsUnder ==
  ASSUME Settled, NEW L, Places(rows, L), NEW x \in Live, Active(x),
         NEW S, S = ActiveOf(rows[x].owner), NEW y \in Below(x, S)
  PROVE  IsPrefix(L[x], L[y])
<1>0. Inv /\ Forest(rows) /\ Nil \notin Live /\ x \in DOMAIN rows
  BY ForestNow, LiveFacts, NilIsNoValue DEF Settled, Live
<1>1. /\ x \in Below(x, S) /\ Below(x, S) \subseteq S \cup {x}
      /\ \A z \in S : rows[z].parent \in Below(x, S) => z \in Below(x, S)
  BY BelowContains, BelowInside, BelowClosed
<1>2. \A z \in S \cup {x} : z \in Live /\ rows[z].deleted = Nil
  BY DEF ActiveOf, Active
<1>3. ASSUME NEW z \in DOMAIN rows
      PROVE  /\ ~Start(rows, z) /\ IsPrefix(L[x], L[rows[z].parent]) => IsPrefix(L[x], L[z])
             /\ IsPrefix(L[x], L[x])
  BY <1>0, UnderPlace
<1> DEFINE C == {z \in Below(x, S) : IsPrefix(L[x], L[z])}
<1>4. C \in SUBSET (S \cup {x}) /\ x \in C
  BY <1>0, <1>1, <1>3
<1>5. ASSUME NEW z \in S, rows[z].parent \in C PROVE z \in C
  <2>1. rows[z].parent \in Below(x, S) /\ IsPrefix(L[x], L[rows[z].parent]) /\ z \in Below(x, S)
    BY <1>1, <1>5
  <2>2. rows[z].parent \in Live /\ z \in DOMAIN rows /\ rows[z].deleted = Nil
    BY <1>1, <1>2, <2>1 DEF Live
  <2>3. ~Start(rows, z)
    BY <1>0, <2>2 DEF Start, TopIn
  <2> QED BY <1>3, <2>1, <2>2, <2>3
<1>6. ClosedDown(C, S)
  BY <1>5 DEF ClosedDown
<1>7. y \in C
  BY <1>4, <1>6 DEF Below
<1> QED BY <1>7

\* The places after a copy: the new rows' are the targets.
WithCopies(L, done, target, new) ==
  [z \in DOMAIN rows \cup {new[y] : y \in done} |->
     IF z \in DOMAIN rows THEN L[z] ELSE target[CHOOSE y \in done : new[y] = z]]

\* They are: nobody else has a copy's id.
MapsCopies(M, L, done, target, new) ==
  /\ DOMAIN rows' = DOMAIN rows \cup {new[y] : y \in done}
  /\ \A z \in DOMAIN rows : M[z] = L[z]
  /\ \A y \in done : M[new[y]] = target[y]

LEMMA CopiesAreThere ==
  ASSUME NEW L, NEW owner, NEW x, NEW p, NEW final, NEW done, NEW target, NEW new,
         HasCopies(owner, x, p, final, done, new)
  PROVE  MapsCopies(WithCopies(L, done, target, new), L, done, target, new)
<1>1. /\ DOMAIN rows' = DOMAIN rows \cup {new[y] : y \in done}
      /\ \A y \in done : new[y] \notin DOMAIN rows
      /\ \A y, z \in done : new[y] = new[z] => y = z
  BY DEF HasCopies, Live
<1>2. ASSUME NEW y \in done PROVE (CHOOSE z \in done : new[z] = new[y]) = y
  BY <1>1
<1> QED BY <1>1, <1>2 DEF WithCopies, MapsCopies

\* A folder that is copied part for part: done are the items that were.
CopiedPart(x, done) ==
  \A y \in done :
    /\ y \in Live /\ Active(y) /\ rows[y].owner = rows[x].owner
    /\ y \in Below(x, ActiveOf(rows[x].owner))
    /\ y # x => rows[y].parent \in done

LEMMA CopyPlaces ==
  ASSUME Settled, NEW L, Agrees(L), NEW x \in Live, Active(x),
         NEW owner \in Users, NEW p, Holds(rows, owner, p), NEW final \in FullName,
         NEW done, CopiedPart(x, done),
         NEW base, base = Sub(Home(L, owner, p), final),
         NEW target, \A y \in done : target[y] = Rebase(L[y], L[x], base),
         NEW new, HasCopies(owner, x, p, final, done, new)
  PROVE  Places(rows', WithCopies(L, done, target, new))
<1> DEFINE M == WithCopies(L, done, target, new)
<1>0. /\ Inv /\ Forest(rows) /\ Places(rows, L) /\ x \in DOMAIN rows /\ Nil \notin Ids
      /\ final \in Seg
  BY ForestNow, NilIsNoValue DEF Settled, Agrees, Live, Seg
<1>1. /\ DOMAIN rows' = DOMAIN rows \cup {new[y] : y \in done}
      /\ \A z \in DOMAIN rows : M[z] = L[z]
      /\ \A y \in done : M[new[y]] = target[y]
  <2>1. MapsCopies(M, L, done, target, new)
    BY CopiesAreThere
  <2> HIDE DEF M
  <2> QED BY <2>1 DEF MapsCopies
<1>2. /\ \A z \in DOMAIN rows : rows'[z] = rows[z]
      /\ \A y \in done :
           /\ new[y] \in Ids
           /\ rows'[new[y]].owner = owner
           /\ rows'[new[y]].parent = IF y = x THEN p ELSE new[rows[y].parent]
           /\ rows'[new[y]].name = IF y = x THEN final ELSE rows[y].name
           /\ rows'[new[y]].deleted = Nil
  BY DEF HasCopies, Live
<1> HIDE DEF M
<1>3. base \in Paths
  BY <1>0, HomePath
<1>4. ASSUME NEW z \in DOMAIN rows PROVE M[z] = PlaceOf(rows', M, z)
  <2>1. rows[z].parent # Nil => rows[z].parent \in DOMAIN rows
    BY <1>0 DEF Forest
  <2>2. PlaceOf(rows', M, z) = PlaceOf(rows, L, z)
    BY <1>1, <1>2, <2>1 DEF PlaceOf, Start, TopIn, First
  <2> QED BY <1>0, <1>1, <2>2 DEF Places
<1>5. ASSUME x \in done PROVE M[new[x]] = PlaceOf(rows', M, new[x])
  <2>1. L[x] \in Paths
    BY <1>0, PlacesArePaths
  <2>2. M[new[x]] = base
    BY <1>1, <1>3, <1>5, <2>1, RebaseTop
  <2>3. /\ rows'[new[x]].owner = owner /\ rows'[new[x]].parent = p
        /\ rows'[new[x]].name = final /\ rows'[new[x]].deleted = Nil
    BY <1>2, <1>5
  <2>4. p # Nil => M[p] = L[p]
    BY <1>1 DEF Holds, Reals
  <2> QED BY <2>2, <2>3, <2>4 DEF PlaceOf, Start, TopIn, First, Home
<1>6. ASSUME NEW y \in done, y # x PROVE M[new[y]] = PlaceOf(rows', M, new[y])
  <2> DEFINE o == rows[y].parent
             name == rows[y].name
  <2>1. /\ y \in DOMAIN rows /\ rows[y].deleted = Nil
        /\ o \in done /\ o \in DOMAIN rows /\ o \in Below(x, ActiveOf(rows[x].owner))
    BY <1>6 DEF CopiedPart, Live, Active
  <2>2. o # Nil
    BY <1>0, <2>1 DEF Forest
  <2>3. ~Start(rows, y) /\ name \in Seg
    BY <1>0, <2>1, <2>2, RowSegs DEF Start, TopIn
  <2>4. L[y] = Sub(L[o], name) /\ L[o] \in Paths /\ L[x] \in Paths
    BY <1>0, <2>1, <2>3, PlacesArePaths
  <2>5. IsPrefix(L[x], L[o])
    BY <1>0, <2>1, ActiveBelowIsUnder
  <2>6. Rebase(Sub(L[o], name), L[x], base) = Sub(Rebase(L[o], L[x], base), name)
    BY <1>3, <2>3, <2>4, <2>5, RebaseSub
  <2>7. target[y] = Sub(target[o], name)
    BY <1>6, <2>1, <2>4, <2>6
  <2>8. M[new[y]] = Sub(M[new[o]], name)
    BY <1>1, <1>6, <2>1, <2>7
  <2>9. /\ rows'[new[y]].parent = new[o] /\ rows'[new[y]].name = name
        /\ rows'[new[y]].deleted = Nil /\ new[o] # Nil
    BY <1>0, <1>2, <1>6, <2>1
  <2> QED BY <2>8, <2>9 DEF PlaceOf, Start, TopIn
<1>7. \A z \in DOMAIN rows' : M[z] = PlaceOf(rows', M, z)
  BY <1>1, <1>4, <1>5, <1>6
<1> QED BY <1>7 DEF Places, M

LEMMA CopyDisk ==
  ASSUME Settled, NEW L, Agrees(L), Forest(rows'), NEW x \in Live,
         NEW owner \in Users, NEW p, Holds(rows, owner, p), NEW final \in FullName,
         NEW done, done # {}, CopiedPart(x, done),
         NEW base, base = Sub(Home(L, owner, p), final),
         NEW target, \A y \in done : target[y] = Rebase(L[y], L[x], base),
         NEW new, HasCopies(owner, x, p, final, done, new),
         Places(rows', WithCopies(L, done, target, new)),
         disk' = Overlay(MkdirAll(disk, base), CopyTree(done, target, new))
  PROVE  Mirrors(rows', WithCopies(L, done, target, new), disk')
<1> DEFINE M == WithCopies(L, done, target, new)
           tree == CopyTree(done, target, new)
           d == MkdirAll(disk, base)
<1>0. /\ Inv /\ Forest(rows) /\ NoLoop(rows) /\ Places(rows, L) /\ Mirrors(rows, L, disk)
      /\ x \in DOMAIN rows /\ final \in Seg
  BY ForestNow DEF Settled, Agrees, Live, Seg
<1>1. /\ DOMAIN rows' = DOMAIN rows \cup {new[y] : y \in done}
      /\ \A z \in DOMAIN rows : M[z] = L[z]
      /\ \A y \in done : M[new[y]] = target[y]
  <2>1. MapsCopies(M, L, done, target, new)
    BY CopiesAreThere
  <2> HIDE DEF M
  <2> QED BY <2>1 DEF MapsCopies
<1>2. /\ \A z \in DOMAIN rows : rows'[z] = rows[z]
      /\ \A y \in done :
           /\ new[y] \notin DOMAIN rows
           /\ rows'[new[y]].type = rows[y].type
           /\ rows'[new[y]].target = Nil
      /\ \A y, z \in done : new[y] = new[z] => y = z
  BY DEF HasCopies, Live
<1> HIDE DEF M
<1>3. \A y, z \in DOMAIN rows' : M[y] = M[z] => y = z
  BY PlacesDiffer DEF M
<1>4. x \in done
  <2>1. done \in SUBSET Live
    BY DEF CopiedPart
  <2>2. x \notin done => \A y \in done : rows[y].parent \in done
    BY DEF CopiedPart
  <2> QED BY <1>0, <2>1, <2>2, OldLoop
<1>5. target[x] = base
  <2>1. L[x] \in Paths /\ base \in Paths
    BY <1>0, PlacesArePaths, HomePath
  <2> QED BY <1>4, <2>1, RebaseTop
<1>6. \A y, z \in done : target[y] = target[z] => y = z
  BY <1>1, <1>2, <1>3
<1>7. \A y \in done, z \in DOMAIN rows : target[y] # L[z]
  <2> SUFFICES ASSUME NEW y \in done, NEW z \in DOMAIN rows, target[y] = L[z] PROVE FALSE
    OBVIOUS
  <2>1. new[y] \in DOMAIN rows' /\ z \in DOMAIN rows' /\ M[new[y]] = M[z]
    BY <1>1
  <2> QED BY <1>2, <1>3, <2>1
<1>8. /\ DOMAIN tree = {target[y] : y \in done}
      /\ \A y \in done : tree[target[y]] = Bytes(rows', new[y])
  <2> DEFINE At(q) == CHOOSE y \in done : target[y] = q
  <2>1. \A y \in done : At(target[y]) = y
    BY <1>6
  <2>2. tree = [q \in {target[y] : y \in done} |-> IF IsFolder(At(q)) THEN Dir ELSE new[At(q)]]
    BY DEF CopyTree
  <2> HIDE DEF At, tree
  <2>3. \A y \in done : tree[target[y]] = IF IsFolder(y) THEN Dir ELSE new[y]
    BY <2>1, <2>2
  <2>4. \A y \in done : (IF IsFolder(y) THEN Dir ELSE new[y]) = Bytes(rows', new[y])
    BY <1>2 DEF IsFolder, Bytes
  <2> QED BY <2>2, <2>3, <2>4
<1>9. /\ DOMAIN d \subseteq DOMAIN disk \cup {base}
      /\ DOMAIN disk \subseteq DOMAIN d
      /\ \A o \in DOMAIN disk : d[o] = disk[o]
  <2>1. /\ Lineage(base) = Lineage(Home(L, owner, p)) \cup {base}
        /\ Lineage(Home(L, owner, p)) \subseteq FolderDirs(rows, L)
    BY <1>0, HomePath
  <2>2. FolderDirs(rows, L) \subseteq DOMAIN disk
    BY <1>0 DEF Mirrors, FolderDirs
  <2> QED BY <2>1, <2>2 DEF MkdirAll
<1> HIDE DEF d, tree
<1>10. /\ DOMAIN disk' = DOMAIN disk \cup {target[y] : y \in done}
       /\ \A o \in DOMAIN disk : o \notin {target[y] : y \in done} => disk'[o] = disk[o]
       /\ \A y \in done : disk'[target[y]] = Bytes(rows', new[y])
  <2>1. disk' = Overlay(d, tree)
    BY DEF d, tree
  <2>2. DOMAIN disk' = DOMAIN d \cup DOMAIN tree
    BY <2>1 DEF Overlay
  <2>3. base \in {target[y] : y \in done}
    BY <1>4, <1>5
  <2>4. DOMAIN disk' = DOMAIN disk \cup {target[y] : y \in done}
    BY <1>8, <1>9, <2>2, <2>3
  <2>5. \A o \in DOMAIN disk' : disk'[o] = IF o \in DOMAIN tree THEN tree[o] ELSE d[o]
    BY <2>1 DEF Overlay
  <2>6. \A o \in DOMAIN disk : o \notin {target[y] : y \in done} => disk'[o] = disk[o]
    BY <1>8, <1>9, <2>4, <2>5
  <2>7. \A y \in done : disk'[target[y]] = Bytes(rows', new[y])
    BY <1>8, <2>4, <2>5
  <2> QED BY <2>4, <2>6, <2>7
<1>11. /\ DOMAIN disk = {L[z] : z \in Reals(rows)}
       /\ \A z \in Reals(rows) : z \in DOMAIN rows /\ disk[L[z]] = Bytes(rows, z)
  BY <1>0 DEF Mirrors, Reals
<1>12. /\ Reals(rows') = Reals(rows) \cup {new[y] : y \in done}
       /\ \A z \in Reals(rows) : Bytes(rows', z) = Bytes(rows, z)
  BY <1>1, <1>2 DEF Reals, Bytes
<1>13. DOMAIN disk' = {M[z] : z \in Reals(rows')}
  <2>1. \A z \in Reals(rows) : M[z] = L[z]
    BY <1>1, <1>11
  <2> QED BY <1>1, <1>10, <1>11, <1>12, <2>1
<1>14. \A z \in Reals(rows) : disk'[M[z]] = Bytes(rows', z)
  <2> SUFFICES ASSUME NEW z \in Reals(rows) PROVE disk'[M[z]] = Bytes(rows', z)
    OBVIOUS
  <2>1. M[z] = L[z] /\ L[z] \in DOMAIN disk /\ L[z] \notin {target[y] : y \in done}
    BY <1>1, <1>7, <1>11
  <2> QED BY <1>10, <1>11, <1>12, <2>1
<1>15. \A y \in done : disk'[M[new[y]]] = Bytes(rows', new[y])
  BY <1>1, <1>10
<1>16. Mirrors(rows', M, disk')
  BY <1>12, <1>13, <1>14, <1>15 DEF Mirrors
<1> QED BY <1>16 DEF M

LEMMA CopyFolderAgrees ==
  ASSUME Settled, NEW L, Agrees(L), Untidy = {}, Forest(rows'),
         NEW x \in Live, NEW u \in Users, NEW p \in Live \cup {Nil}, TidyParent(p),
         CopyFolder(u, x, p)
  PROVE  AgreesNext
<1> DEFINE owner == OwnerAt(u, p)
           S == ActiveOf(rows[x].owner)
<1>0. /\ Inv /\ Forest(rows) /\ Places(rows, L) /\ Mirrors(rows, L, disk)
      /\ x \in DOMAIN rows /\ x \in Ids /\ S \subseteq Ids /\ S \subseteq Live
      /\ Active(x) /\ ValidFolder(p) /\ UNCHANGED <<links, sweep, now>>
      /\ rows[x].name \in FullName
  BY ForestNow, LiveFacts, RowSegs DEF Settled, Agrees, Live, ActiveOf, CopyFolder
<1>1. PICK final \in UniqueName(owner, p, rows[x].name, Nil), s \in CopyOrders(x) :
        \E bad : \E new \in Injection(Completed(s, bad), Ids \ issued) :
          LET base == Append(FolderPath(owner, p), final) IN
          CopyResult(owner, x, p, final, Completed(s, bad), base, CopyTargets(s, x, base), new)
  BY CopyFolderShape
<1> DEFINE base == Append(FolderPath(owner, p), final)
           target == CopyTargets(s, x, base)
<1>2. PICK bad : \E new \in Injection(Completed(s, bad), Ids \ issued) :
        CopyResult(owner, x, p, final, Completed(s, bad), base, target, new)
  BY <1>1
<1>3. PICK new \in Injection(Completed(s, bad), Ids \ issued) :
        CopyResult(owner, x, p, final, Completed(s, bad), base, target, new)
  BY <1>2
<1>4. CanHold(p, owner) /\ owner \in Users
  BY <1>0, HoldFacts
<1> DEFINE done == Completed(s, bad)
<1>5. CopiedPart(x, done)
  <2>1. s \in Preorders(x, S)
    BY DEF CopyOrders
  <2>2. done \subseteq S \cup {x} /\ done \subseteq Below(x, S)
    BY <1>0, <2>1, CompletedInside, CompletedBelow
  <2>3. \A y \in done : y # x => rows[y].parent \in done
    BY <1>0, <2>1, CompletedParents
  <2> QED BY <1>0, <2>2, <2>3 DEF ActiveOf, CopiedPart
<1>6. /\ Holds(rows, owner, p) /\ final \in FullName /\ final \in Seg
      /\ base = Sub(Home(L, owner, p), final)
  BY <1>0, <1>1, <1>4, PlaceForName
<1> HIDE DEF base
<1>7. \A y \in done : target[y] = Rebase(L[y], L[x], base)
  <2> SUFFICES ASSUME NEW y \in done PROVE target[y] = Rebase(L[y], L[x], base)
    OBVIOUS
  <2>1. y \in {s[k] : k \in DOMAIN s}
    BY DEF Completed
  <2>2. y \in Live /\ Active(y) /\ rows[y].owner = rows[x].owner
    BY <1>5 DEF CopiedPart
  <2>3. PathOf(rows[x].owner, y) = L[y]
    <3>1. PathOf(rows[y].owner, y) = L[y]
      BY <1>0, <2>2, PathOfIsPlace
    <3> QED BY <2>2, <3>1
  <2>4. PathOf(rows[x].owner, x) = L[x]
    BY <1>0, PathOfIsPlace
  <2>5. target[y] = Rerooted(y, x, base)
    BY <2>1 DEF CopyTargets
  <2> QED BY <2>3, <2>4, <2>5 DEF Rerooted
<1>8. new \in Injection(done, Ids \ issued) /\ CopyResult(owner, x, p, final, done, base, target, new)
  BY <1>3
<1> HIDE DEF owner, done, target
<1>9. done \in SUBSET Live
  BY <1>5 DEF CopiedPart
<1>10. CopyRows(x, owner, p, final, done, new)
  BY <1>0, <1>1, <1>4, <1>5, <1>8 DEF CopyRows, CopyResult, CopiedPart, owner
<1>11. HasCopies(owner, x, p, final, done, new)
  BY <1>0, <1>8, <1>9, <1>10, CopiedRows
<1>12. CASE done # {}
  <2>1. Places(rows', WithCopies(L, done, target, new))
    BY <1>0, <1>4, <1>5, <1>6, <1>7, <1>11, CopyPlaces
  <2>2. disk' = Overlay(MkdirAll(disk, base), CopyTree(done, target, new))
    BY <1>8, <1>12 DEF CopyResult
  <2>3. Mirrors(rows', WithCopies(L, done, target, new), disk')
    BY <1>4, <1>5, <1>6, <1>7, <1>11, <1>12, <2>1, <2>2, CopyDisk
  <2> QED BY <2>1, <2>3 DEF AgreesNext
<1>13. CASE done = {}
  <2>1. disk' = disk
    BY <1>8, <1>13 DEF CopyResult
  <2>2. DOMAIN rows' = DOMAIN rows /\ \A z \in DOMAIN rows : rows'[z] = rows[z]
    BY <1>11, <1>13 DEF HasCopies, Live
  <2> QED BY <1>0, <2>1, <2>2, SamePlaces
<1> QED BY <1>12, <1>13

-----------------------------------------------------------------------------
(* The tops of the trash stay tops: what a running purge has on its list can *)
(* be found under the path that it removes.                                  *)

\* A row in trash after a step was in trash before, or was marked just now;
\* its parent likewise.
Kept(y) ==
  /\ rows'[y].owner = rows[y].owner /\ rows'[y].name = rows[y].name
  /\ rows'[y].target = rows[y].target /\ rows'[y].parent = rows[y].parent
  /\ \/ /\ rows'[y].deleted = rows[y].deleted
        /\ rows[y].parent # Nil =>
             rows'[rows[y].parent].deleted \in {Nil, rows[rows[y].parent].deleted}
     \/ /\ rows[y].deleted = Nil /\ rows'[y].deleted = now
        /\ rows[y].parent # Nil => rows'[rows[y].parent].deleted \in {Nil, now}

TrashKept == \A y \in DOMAIN rows' : rows'[y].deleted # Nil => y \in DOMAIN rows /\ Kept(y)

LEMMA TrashedKept ==
  ASSUME Settled, Untidy = {}, NEW x \in Live, TrashRows(x)
  PROVE  TrashKept
<1> DEFINE S == ActiveOf(rows[x].owner)
           marked == Below(x, S)
<1>0. Inv /\ Forest(rows) /\ Active(x) /\ x \in DOMAIN rows
  BY ForestNow DEF Settled, TrashRows, Live
<1>1. /\ DOMAIN rows' = DOMAIN rows
      /\ \A y \in DOMAIN rows :
           /\ rows'[y].owner = rows[y].owner
           /\ rows'[y].target = rows[y].target
           /\ rows'[y].parent = rows[y].parent
           /\ rows'[y].name = rows[y].name
           /\ rows'[y].deleted = IF y \in marked THEN now ELSE rows[y].deleted
  BY <1>0, TrashedRows DEF Live
<1>2. /\ \A y \in DOMAIN rows \ {x} : Start(rows', y) <=> Start(rows, y)
      /\ Start(rows', x)
  BY TrashedStarts
<1>3. /\ x \in marked
      /\ \A y \in marked : y # x => rows[y].parent \in marked
      /\ \A y \in marked : y \in DOMAIN rows /\ rows[y].deleted = Nil
  BY <1>0, BelowContains, BelowInside, BelowParents DEF ActiveOf, Active, Live
<1>4. \A y \in DOMAIN rows : rows[y].parent # Nil => rows[y].parent \in DOMAIN rows
  BY <1>0 DEF Forest
<1> HIDE DEF marked
<1>5. ASSUME NEW y \in DOMAIN rows, rows'[y].deleted # Nil PROVE Kept(y)
  <2> DEFINE o == rows[y].parent
  <2>1. CASE y = x
    <3>1. o # Nil => rows'[o].deleted = Nil
      BY <1>1, <1>2, <1>5, <2>1 DEF Start, TopIn
    <3> QED BY <1>1, <1>3, <2>1, <3>1 DEF Kept
  <2>2. CASE y # x /\ y \in marked
    <3>1. o # Nil => rows'[o].deleted = now
      BY <1>1, <1>3, <1>4, <2>2
    <3> QED BY <1>1, <1>3, <2>2, <3>1 DEF Kept
  <2>3. CASE y \notin marked
    <3>1. y # x /\ rows'[y].deleted = rows[y].deleted
      BY <1>1, <1>3, <2>3
    <3>2. CASE o # Nil /\ rows'[o].deleted # Nil
      <4>1. ~Start(rows', y)
        BY <1>1, <3>2 DEF Start, TopIn
      <4>2. ~Start(rows, y)
        BY <1>2, <3>1, <4>1
      <4>3. rows[o].deleted # Nil /\ o \in DOMAIN rows
        BY <1>4, <1>5, <3>1, <3>2, <4>2 DEF Start, TopIn
      <4>4. rows'[o].deleted = rows[o].deleted
        BY <1>1, <1>3, <4>3
      <4> QED BY <1>1, <3>1, <4>4 DEF Kept
    <3>3. CASE o # Nil => rows'[o].deleted = Nil
      BY <1>1, <3>1, <3>3 DEF Kept
    <3> QED BY <3>2, <3>3
  <2> QED BY <2>1, <2>2, <2>3
<1> QED BY <1>1, <1>5 DEF TrashKept

LEMMA TrashIsKept ==
  ASSUME Settled, Untidy = {}, [Next]_vars
  PROVE  TrashKept
<1>0. Inv /\ Forest(rows)
  BY ForestNow DEF Settled
<1>1. \A y \in DOMAIN rows : rows[y].parent # Nil => rows[y].parent \in DOMAIN rows
  BY <1>0 DEF Forest
\* The rows that were there are as they were, and the new ones are active.
<1>2. ASSUME \A y \in DOMAIN rows : y \in DOMAIN rows' => rows'[y] = rows[y],
             \A y \in DOMAIN rows' : rows'[y].parent # Nil => rows'[y].parent \in DOMAIN rows',
             \A y \in DOMAIN rows' \ DOMAIN rows : rows'[y].deleted = Nil
      PROVE  TrashKept
  BY <1>1, <1>2 DEF TrashKept, Kept
<1>3. Forest(rows')
  BY ForestNext
<1>4. \A y \in DOMAIN rows' : rows'[y].parent # Nil => rows'[y].parent \in DOMAIN rows'
  BY <1>3 DEF Forest
<1>5. ASSUME AddsItem PROVE TrashKept
  <2>1. PICK x \in Ids \ issued, owner \in Users, p \in Live \cup {Nil},
             asked \in FullName, final \in FullName,
             type \in {"file", "folder"}, size \in Nat, target \in Ids \cup {Nil} :
          AddRow(x, owner, p, asked, final, type, size, target)
    BY <1>5 DEF AddsItem
  <2>2. /\ DOMAIN rows' = Live \cup {x} /\ x \notin Live
        /\ \A z \in Live : rows'[z] = rows[z]
        /\ rows'[x].owner = owner /\ rows'[x].parent = p /\ rows'[x].name = final
        /\ rows'[x].type = type /\ rows'[x].target = target /\ rows'[x].deleted = Nil
    BY ONLY <1>0, <2>1, AddedRows
  <2> QED BY <1>2, <1>4, <2>2 DEF Live
<1>6. ASSUME MovesItem PROVE TrashKept
  <2>1. PICK x \in Live, p \in Live \cup {Nil}, asked \in FullName, final \in FullName :
          MoveRow(x, p, asked, final)
    BY <1>6 DEF MovesItem
  <2>2. /\ DOMAIN rows' = DOMAIN rows
        /\ \A y \in DOMAIN rows :
             /\ rows'[y].owner = rows[y].owner
             /\ rows'[y].target = rows[y].target
             /\ rows'[y].deleted = rows[y].deleted
             /\ rows'[y].parent = IF y = x THEN p ELSE rows[y].parent
             /\ rows'[y].name = IF y = x THEN final ELSE rows[y].name
    BY <1>0, <2>1, MovedRows DEF Live
  <2>3. rows[x].deleted = Nil
    BY <2>1 DEF MoveRow, Active
  <2> QED BY <1>1, <2>2, <2>3 DEF TrashKept, Kept
<1>7. ASSUME ResizesFile PROVE TrashKept
  <2>1. PICK x \in Live, size \in Nat : ResizeRow(x, size)
    BY <1>7 DEF ResizesFile
  <2>2. /\ DOMAIN rows' = DOMAIN rows
        /\ \A y \in DOMAIN rows :
             /\ rows'[y].owner = rows[y].owner
             /\ rows'[y].target = rows[y].target
             /\ rows'[y].deleted = rows[y].deleted
             /\ rows'[y].parent = rows[y].parent
             /\ rows'[y].name = rows[y].name
    BY <1>0, <2>1, ResizedRows DEF Live
  <2> QED BY <1>1, <2>2 DEF TrashKept, Kept
<1>8. ASSUME TrashesTree PROVE TrashKept
  BY <1>8, TrashedKept DEF TrashesTree
<1>9. ASSUME RestoresTree PROVE TrashKept
  <2>1. PICK x \in Live, final \in FullName : \E s : RestoreRows(x, final, s)
    BY <1>9 DEF RestoresTree
  <2>2. PICK s : RestoreRows(x, final, s)
    BY <2>1
  <2> DEFINE back == Completed(s, Clashing(s)) \cup {x}
  <2>3. /\ DOMAIN rows' = DOMAIN rows
        /\ \A y \in DOMAIN rows :
             /\ rows'[y].owner = rows[y].owner
             /\ rows'[y].target = rows[y].target
             /\ rows'[y].parent = IF y = x THEN ParentBack(x) ELSE rows[y].parent
             /\ rows'[y].name = IF y = x THEN final ELSE rows[y].name
             /\ rows'[y].deleted = IF y \in back THEN Nil ELSE rows[y].deleted
    BY <1>0, <2>2, ClearedRows DEF Live
  <2>4. x \in back
    OBVIOUS
  <2> HIDE DEF back
  <2>5. ASSUME NEW y \in DOMAIN rows', rows'[y].deleted # Nil PROVE Kept(y)
    <3>1. y # x /\ y \in DOMAIN rows /\ rows'[y].deleted = rows[y].deleted
      BY <2>3, <2>4, <2>5
    <3>2. rows[y].parent # Nil =>
            rows'[rows[y].parent].deleted \in {Nil, rows[rows[y].parent].deleted}
      BY <1>1, <2>3, <3>1
    <3> QED BY <2>3, <3>1, <3>2 DEF Kept
  <2> QED BY <2>3, <2>5 DEF TrashKept
<1>10. ASSUME ErasesTree PROVE TrashKept
  <2>1. PICK x \in Live, R \in SUBSET Live : EraseRows(x, R)
    BY <1>10 DEF ErasesTree
  <2>2. DOMAIN rows' = Live \ R /\ \A z \in Live \ R : rows'[z] = rows[z]
    BY <2>1, ErasedRows
  <2> QED BY <1>2, <1>4, <2>2 DEF Live
<1>11. ASSUME CopiesTree PROVE TrashKept
  <2>1. PICK x \in Live, owner \in Users, p \in Live \cup {Nil}, final \in FullName,
             done \in SUBSET Live :
        \E new \in Injection(done, Ids \ issued) : CopyRows(x, owner, p, final, done, new)
    BY <1>11 DEF CopiesTree
  <2>2. PICK new \in Injection(done, Ids \ issued) : CopyRows(x, owner, p, final, done, new)
    BY <2>1
  <2>3. HasCopies(owner, x, p, final, done, new)
    BY <1>0, <2>2, CopiedRows
  <2>4. /\ DOMAIN rows' = DOMAIN rows \cup {new[z] : z \in done}
        /\ \A z \in DOMAIN rows : rows'[z] = rows[z]
        /\ \A y \in done : rows'[new[y]].deleted = Nil
    BY <2>3 DEF HasCopies, Live
  <2> QED BY <1>2, <1>4, <2>4
<1>12. ASSUME KeepsTable PROVE TrashKept
  BY <1>2, <1>4, <1>12 DEF KeepsTable
<1> QED BY <1>0, <1>5, <1>6, <1>7, <1>8, <1>9, <1>10, <1>11, <1>12, StepKinds

\* A trashed subtree was trashed in one go, with one date.
SameDate ==
  \A y \in Live :
    Trashed(y) /\ rows[y].parent # Nil /\ Trashed(rows[y].parent) =>
      rows[y].deleted = rows[rows[y].parent].deleted

TopsListed == \A x \in DOMAIN sweep : x \in Live => TopOfTrash(x)

LEMMA SameDateStep ==
  ASSUME Settled, SameDate, TrashKept
  PROVE  SameDate'
<1>0. Forest(rows) /\ now # Nil
  BY ForestNow, LiveFacts, NilIsNoValue DEF Settled
<1>1. ASSUME NEW y \in DOMAIN rows', rows'[y].deleted # Nil, rows'[y].parent # Nil,
             rows'[rows'[y].parent].deleted # Nil
      PROVE  rows'[y].deleted = rows'[rows'[y].parent].deleted
  <2> DEFINE o == rows[y].parent
  <2>1. y \in DOMAIN rows /\ Kept(y) /\ rows'[y].parent = o
    BY <1>1 DEF TrashKept, Kept
  <2>2. o \in DOMAIN rows /\ o # Nil
    BY <1>0, <1>1, <2>1 DEF Forest
  <2>3. CASE rows'[y].deleted = rows[y].deleted /\ rows'[o].deleted \in {Nil, rows[o].deleted}
    <3>1. rows[y].deleted # Nil /\ rows[o].deleted # Nil /\ rows'[o].deleted = rows[o].deleted
      BY <1>1, <2>1, <2>3
    <3>2. rows[y].deleted = rows[o].deleted
      BY <2>1, <2>2, <3>1 DEF SameDate, Live, Trashed
    <3> QED BY <2>1, <2>3, <3>1, <3>2
  <2>4. CASE rows'[y].deleted = now /\ rows'[o].deleted \in {Nil, now}
    BY <1>1, <2>1, <2>4
  <2> QED BY <2>1, <2>2, <2>3, <2>4 DEF Kept
<1> QED BY <1>1 DEF SameDate, Trashed, Live

LEMMA TopsListedStep ==
  ASSUME Settled, SameDate, TopsListed, Listed, Listed', TrashKept, [Next]_vars
  PROVE  TopsListed'
<1>0. Inv /\ Forest(rows)
  BY ForestNow DEF Settled
<1>1. ASSUME NEW x \in DOMAIN sweep', x \in DOMAIN rows', x \in DOMAIN rows, Kept(x),
             rows'[x].deleted # Nil, rows[x].deleted # Nil,
             rows[x].parent = Nil \/ rows[rows[x].parent].deleted = Nil
      PROVE  rows'[x].parent = Nil \/ rows'[rows'[x].parent].deleted = Nil
  BY <1>1 DEF Kept
<1>2. CASE ShortensList
  <2>1. ASSUME NEW x \in DOMAIN sweep', x \in DOMAIN rows'
        PROVE  rows'[x].deleted # Nil /\ (rows'[x].parent = Nil \/ rows'[rows'[x].parent].deleted = Nil)
    <3>1. rows'[x].deleted # Nil
      BY <2>1 DEF Listed, Trashed, Live
    <3>2. x \in DOMAIN sweep /\ x \in DOMAIN rows /\ Kept(x)
      BY <1>2, <2>1, <3>1 DEF ShortensList, TrashKept
    <3>3. rows[x].deleted # Nil /\ (rows[x].parent = Nil \/ ~Trashed(rows[x].parent))
      BY <3>2 DEF TopsListed, TopOfTrash, Trashed, Live
    <3>4. rows[x].parent = Nil \/ rows[rows[x].parent].deleted = Nil
      BY <1>0, <3>2, <3>3 DEF Forest, Trashed, Live
    <3> QED BY <1>1, <2>1, <3>1, <3>2, <3>3, <3>4
  <2> QED BY <2>1 DEF TopsListed, TopOfTrash, Trashed, Live
<1>3. CASE PurgeBegin
  <2>1. rows' = rows /\ DOMAIN sweep' = Batch
    BY <1>3 DEF PurgeBegin
  <2>2. ASSUME NEW x \in Batch PROVE TopOfTrash(x)
    <3>1. /\ x \in Live /\ Trashed(x) /\ rows[x].deleted < now - Retention
          /\ rows[x].parent \notin Expired
      BY DEF Batch, Expired
    <3>2. ASSUME rows[x].parent # Nil, Trashed(rows[x].parent) PROVE FALSE
      <4>1. rows[rows[x].parent].deleted = rows[x].deleted
        BY <3>1, <3>2 DEF SameDate
      <4>2. rows[x].parent \in Live
        BY <3>2 DEF Trashed
      <4> QED BY <3>1, <3>2, <4>1, <4>2 DEF Expired
    <3> QED BY <3>1, <3>2 DEF TopOfTrash
  <2> QED BY <2>1, <2>2 DEF TopsListed, TopOfTrash, Trashed, Live
<1> QED BY <1>0, <1>2, <1>3, ClockStep

-----------------------------------------------------------------------------
(* All steps together. *)

LEMMA ChangeAgrees ==
  ASSUME Settled, TopsListed, NEW L, Agrees(L), Untidy = {}, Forest(rows'),
         NEW x \in Live, Change(x)
  PROVE  AgreesNext
<1>1. CASE \E size \in Sizes : ReplaceContent(x, size)
  BY <1>1, ReplaceContentAgrees
<1>2. ASSUME NEW p \in Live \cup {Nil}, TidyParent(p), NEW name \in Requests, Move(x, name, p)
      PROVE  AgreesNext
  BY <1>2, MoveAgrees
<1>3. ASSUME NEW p \in Live \cup {Nil}, TidyParent(p), NEW u \in Users, CopyFolder(u, x, p)
      PROVE  AgreesNext
  BY <1>3, CopyFolderAgrees
<1>4. CASE TidyDelete(x) /\ Delete(x)
  BY <1>4, DeleteAgrees
<1>5. CASE TidyTrash(x) /\ TidyRestore(x) /\ Restore(x)
  BY <1>5, RestoreAgrees
<1>6. CASE TidyTrash(x) /\ TidyPurge(x) /\ PermanentlyDelete(x)
  <2>1. TopOfTrash(x) /\ Erase(x)
    BY <1>6 DEF TidyTrash, PermanentlyDelete
  <2> QED BY <1>6, <2>1, EraseAgrees
<1>7. CASE TidyPurge(x) /\ PurgeItem(x)
  <2>1. TopOfTrash(x) /\ Erase(x)
    BY <1>7 DEF PurgeItem, SweepTurn, TopsListed
  <2> QED BY <1>7, <2>1, EraseAgrees
<1> QED BY <1>1, <1>2, <1>3, <1>4, <1>5, <1>6, <1>7 DEF Change

LEMMA NextAgrees ==
  ASSUME Settled, TopsListed, NEW L, Agrees(L), Untidy = {}, [Next]_vars
  PROVE  AgreesNext
<1>1. Forest(rows')
  BY ForestNext
<1>2. ASSUME UNCHANGED <<rows, disk>> PROVE AgreesNext
  BY <1>2, TableKept DEF Agrees
<1>3. ASSUME NEW x \in Ids, Create(x) PROVE AgreesNext
  BY <1>3, CreateAgrees
<1>4. ASSUME NEW x \in Live, Change(x) PROVE AgreesNext
  BY <1>1, <1>4, ChangeAgrees
<1>5. ASSUME \/ PurgeBegin \/ Restart \/ Tick \/ UNCHANGED vars
             \/ \E x \in DOMAIN sweep : PurgeSkip(x)
             \/ \E x \in Live : CreateShare(x) \/ RevokeShare(x)
      PROVE  AgreesNext
  <2>1. UNCHANGED <<rows, disk>>
    BY <1>5 DEF PurgeBegin, Restart, Tick, vars, PurgeSkip, CreateShare, RevokeShare
  <2> QED BY <1>2, <2>1
<1> QED BY <1>3, <1>4, <1>5 DEF Next

\* The inductive invariant: the tree, the lists of the purge, and a place for
\* every row with the disk as the places say.
DiskInv ==
  /\ Settled
  /\ Listed
  /\ SameDate
  /\ TopsListed
  /\ \E L : Agrees(L)

LEMMA InitDisk == Init => DiskInv
<1> SUFFICES ASSUME Init PROVE DiskInv
  OBVIOUS
<1>1. DOMAIN rows = {} /\ DOMAIN disk = {} /\ DOMAIN sweep = {} /\ Live = {}
  BY DEF Init, Live
<1>2. Settled
  <2>1. Inv
    BY InitInv
  <2>2. ParentsAreReal /\ NoLoop(rows) /\ NamesUnique(rows) /\ DistinctInTrash(rows)
    BY <1>1 DEF ParentsAreReal, NoLoop, NamesUnique, DistinctInTrash
  <2> QED BY <2>1, <2>2 DEF Settled
<1>3. Listed /\ SameDate /\ TopsListed
  BY <1>1 DEF Listed, SameDate, TopsListed
<1>4. Agrees(rows)
  BY <1>1 DEF Agrees, Places, Mirrors, Reals
<1> QED BY <1>2, <1>3, <1>4 DEF DiskInv

LEMMA DiskInvStep == ASSUME Untidy = {}, DiskInv, [Next]_vars PROVE DiskInv'
<1>0. Settled /\ Listed /\ SameDate /\ TopsListed /\ Inv /\ "restore_listed" \notin Untidy
  BY DEF DiskInv, Settled
<1>1. Settled'
  BY <1>0, SettledStep
<1>2. Listed'
  BY <1>0, ListedStep
<1>3. TrashKept
  BY <1>0, TrashIsKept
<1>4. SameDate'
  BY <1>0, <1>3, SameDateStep
<1>5. TopsListed'
  BY <1>0, <1>2, <1>3, TopsListedStep
<1>6. PICK L : Agrees(L)
  BY DEF DiskInv
<1>7. PICK M : Places(rows', M) /\ Mirrors(rows', M, disk')
  BY <1>0, <1>6, NextAgrees DEF AgreesNext
<1>8. (\E K : Agrees(K))'
  BY <1>7 DEF Agrees
<1> QED BY <1>1, <1>2, <1>4, <1>5, <1>8 DEF DiskInv

LEMMA DiskNow == DiskInv => DiskMatchesTree
<1> SUFFICES ASSUME DiskInv PROVE DiskMatchesTree
  OBVIOUS
<1>1. PICK L : Agrees(L)
  BY DEF DiskInv
<1>2. Settled /\ Places(rows, L) /\ Mirrors(rows, L, disk)
  BY <1>1 DEF DiskInv, Agrees
<1>3. {x \in Live : IsReal(x)} = Reals(rows)
  BY DEF Reals, IsReal, Live
<1>4. \A x \in Reals(rows) : Location(x) = L[x]
  BY <1>2, LocationIsPlace DEF Reals, Live
<1>5. \A x \in Reals(rows) : Bytes(rows, x) = IF IsFolder(x) THEN Dir ELSE x
  BY DEF Bytes, IsFolder
<1>6. /\ DOMAIN disk = {Location(x) : x \in Reals(rows)}
      /\ \A x \in Reals(rows) : disk[Location(x)] = IF IsFolder(x) THEN Dir ELSE x
  BY <1>2, <1>4, <1>5 DEF Mirrors
<1> QED BY <1>3, <1>6 DEF DiskMatchesTree

\* The disk says what the table says, as long as callers keep the web UI's
\* habits: every real item has its one file or directory at its place in the
\* tree or in the trash, with the bytes written for it, and there is nothing else
\* -- through every creation, save, move, copy, deletion, restore and purge, and
\* also where one of these fails halfway.
THEOREM DiskAndTableAgree ==
  ASSUME Untidy = {}
  PROVE  Spec => []DiskMatchesTree
<1>1. DiskInv /\ [Next]_vars => DiskInv'
  BY DiskInvStep
<1> QED BY <1>1, InitDisk, DiskNow, PTL DEF Spec

\* What a step takes off the disk at the top of a trashed tree has no row in trash after it.
LEMMA ErasesWhole ==
  ASSUME Untidy = {}, DiskInv, DiskInv', [Next]_vars, NEW x \in Live,
         TopOfTrash(x), IsReal(x), Location(x) \in DOMAIN disk, Location(x) \notin DOMAIN disk'
  PROVE  x \notin DOMAIN rows' \/ rows'[x].deleted = Nil
<1> SUFFICES ASSUME x \in DOMAIN rows', rows'[x].deleted # Nil PROVE FALSE
  OBVIOUS
<1>1. PICK L : Agrees(L)
  BY DEF DiskInv
<1>2. Settled /\ Places(rows, L) /\ Forest(rows) /\ x \in DOMAIN rows
  BY <1>1, ForestNow DEF DiskInv, Agrees, Live
<1>3. AgreesNext
  BY <1>1, <1>2, NextAgrees DEF DiskInv
<1>4. PICK M : Places(rows', M) /\ Mirrors(rows', M, disk')
  BY <1>3 DEF AgreesNext
<1>5. TrashKept
  BY <1>2, TrashIsKept
<1>6. Kept(x)
  BY <1>5 DEF TrashKept
<1>7. TopIn(rows, x)
  BY <1>2 DEF TopOfTrash, TopIn, Trashed, Forest, Live
<1>8. TopIn(rows', x) /\ First(rows', x) = First(rows, x)
  BY <1>6, <1>7 DEF Kept, TopIn, First
<1>9. L[x] = First(rows, x) /\ M[x] = First(rows', x)
  BY <1>2, <1>4, <1>7, <1>8 DEF Places, PlaceOf, Start
<1>10. Location(x) = L[x]
  BY <1>2, LocationIsPlace
<1>11. x \in Reals(rows')
  BY <1>6 DEF Kept, Reals, IsReal
<1>12. M[x] \in DOMAIN disk'
  BY <1>4, <1>11 DEF Mirrors
<1> QED BY <1>8, <1>9, <1>10, <1>12

\* For the same callers no bytes are lost to a row that stays in trash: what a
\* permanent delete or a purge takes off the disk, it takes off the table.
THEOREM NothingHalfErased ==
  ASSUME Untidy = {}
  PROVE  Spec => EraseIsWhole
<1>1. DiskInv /\ [Next]_vars => DiskInv'
  BY DiskInvStep
<1>2. DiskInv /\ DiskInv' /\ [Next]_vars =>
        [\A x \in Live :
           /\ TopOfTrash(x) /\ IsReal(x)
           /\ Location(x) \in DOMAIN disk /\ Location(x) \notin DOMAIN disk'
           => x \notin DOMAIN rows' \/ rows'[x].deleted = Nil]_vars
  BY ErasesWhole
<1> QED BY <1>1, <1>2, InitDisk, PTL DEF Spec, EraseIsWhole
=============================================================================
