--------------------------- MODULE UploadsProofs ---------------------------
(***************************************************************************)
(* Theorems about Uploads for any numbers of requests, ids, names, sizes   *)
(* and restarts.                                                           *)
(***************************************************************************)
EXTENDS Uploads, Sums

\* What a request under way holds, whatever it overlaps with.
Typed(r) ==
  r.at # "idle" =>
    /\ r.id \in Ids /\ r.item \in Ids
    /\ r.name \in FinalName
    /\ r.new \in Sizes
    /\ r.at \in {"insert", "save_quota", "save_place", "save_row"} => r.sum \in Ids

\* Bytes that are still being written to belong to an upload, which has a name.
Named == {e \in Stage : e.left > 0 => e.name \in Names}

TypeInv ==
  /\ TypeOK
  /\ Table(staged, Ids, Named)
  /\ IsFiniteSet(DOMAIN rows)
  /\ \A q \in Procs : Typed(req[q])

-----------------------------------------------------------------------------
(* Lemmas about the operators. *)

LEMMA MinExists ==
  ASSUME NEW S \in SUBSET Nat, S # {}
  PROVE  \E x \in S : \A y \in S : x <= y
  <1>1. PICK x \in S : \A y \in S : <<y, x>> \notin OpToRel(<, Nat)
    BY WFMin, NatLessThanWellFounded
  <1>2. \A y \in S : ~(y < x)
    BY <1>1 DEF OpToRel
  <1> QED BY <1>2

LEMMA MinIsIn ==
  ASSUME NEW S \in SUBSET Nat, S # {}
  PROVE  Min(S) \in S
  BY MinExists DEF Min

\* More suffixes are tried than there are rows to take them, so that one is free.
LEMMA SomeNameIsFree ==
  ASSUME TypeOK, IsFiniteSet(DOMAIN rows), NEW n \in Names
  PROVE  \E k \in 0..Cardinality(DOMAIN rows) : ~Taken(<<n, k>>)
  <1> DEFINE K == 0..Cardinality(DOMAIN rows)
             f == [k \in K |-> CHOOSE x \in DOMAIN rows : rows[x].name = <<n, k>>]
  <1>1. Cardinality(DOMAIN rows) \in Nat
    BY FS_CardinalityType
  <1>2. IsFiniteSet(K) /\ Cardinality(K) = Cardinality(DOMAIN rows) + 1
    BY <1>1, FS_Interval
  <1> SUFFICES ASSUME \A k \in K : Taken(<<n, k>>)
               PROVE  FALSE
    OBVIOUS
  <1>3. \A k \in K : f[k] \in DOMAIN rows /\ rows[f[k]].name = <<n, k>>
    BY DEF Taken
  <1>4. f \in [K -> DOMAIN rows]
    BY <1>3
  <1>5. Cardinality(DOMAIN rows) < Cardinality(K)
    BY <1>1, <1>2
  <1> HIDE DEF f
  <1>6. PICK x, y \in K : x # y /\ f[x] = f[y]
    BY <1>2, <1>4, <1>5, FS_PigeonHole
  <1> QED BY <1>3, <1>6

\* uniqueName returns a name of the kind asked for that no row has.
LEMMA UniqueNameIsFree ==
  ASSUME TypeOK, IsFiniteSet(DOMAIN rows), NEW n \in FinalName
  PROVE  /\ UniqueName(n) \in FinalName /\ UniqueName(n)[1] = n[1]
         /\ ~Taken(UniqueName(n))
  <1> DEFINE free == {k \in 0..Cardinality(DOMAIN rows) : ~Taken(<<n[1], k>>)}
  <1>1. n[1] \in Names
    BY DEF FinalName
  <1>2. free # {}
    BY <1>1, SomeNameIsFree
  <1>3. free \in SUBSET Nat
    BY FS_CardinalityType
  <1>4. Min(free) \in free
    BY <1>2, <1>3, MinIsIn
  <1>5. UniqueName(n) = <<n[1], Min(free)>>
    BY DEF UniqueName
  <1>6. Min(free) \in Nat /\ ~Taken(<<n[1], Min(free)>>)
    BY <1>3, <1>4
  <1> QED BY <1>1, <1>5, <1>6 DEF FinalName

LEMMA PutType ==
  ASSUME NEW f, NEW K, NEW R, Table(f, K, R), NEW k \in K, NEW v \in R
  PROVE  Table(Put(f, k, v), K, R)
  BY DEF Table, Put

LEMMA WithoutType ==
  ASSUME NEW f, NEW K, NEW R, Table(f, K, R), NEW S
  PROVE  Table(Without(f, S), K, R)
  BY DEF Table, Without

LEMMA StageTypes ==
  ASSUME NEW e \in Named
  PROVE  /\ \A i, d \in BOOLEAN : [e EXCEPT !.info = i, !.data = d] \in Named
         /\ e.left > 0 => [e EXCEPT !.left = e.left - 1, !.old = FALSE] \in Named
         /\ [e EXCEPT !.old = TRUE] \in Named
  <1>1. ASSUME NEW i \in BOOLEAN, NEW d \in BOOLEAN
        PROVE  [e EXCEPT !.info = i, !.data = d] \in Named
    BY DEF Named, Stage
  <1>2. ASSUME e.left > 0
        PROVE  [e EXCEPT !.left = e.left - 1, !.old = FALSE] \in Named
    <2>1. e.left - 1 \in 0..Chunks
      BY <1>2, ChunksIsPositive DEF Named, Stage
    <2> QED BY <1>2, <2>1 DEF Named, Stage
  <1>3. [e EXCEPT !.old = TRUE] \in Named
    BY DEF Named, Stage
  <1> QED BY <1>1, <1>2, <1>3

LEMMA KeepType ==
  ASSUME Table(staged, Ids, Named), NEW x \in DOMAIN staged,
         NEW info \in BOOLEAN, NEW data \in BOOLEAN
  PROVE  Table(Keep(x, info, data), Ids, Named)
  <1> DEFINE e == [staged[x] EXCEPT !.info = info, !.data = data]
  <1>1. e \in Named
    BY StageTypes DEF Table
  <1>2. CASE info \/ data
    <2>1. Keep(x, info, data) = [staged EXCEPT ![x] = e]
      BY <1>2 DEF Keep
    <2> HIDE DEF e
    <2> QED BY <1>1, <2>1 DEF Table
  <1>3. CASE ~(info \/ data)
    BY <1>3, WithoutType DEF Keep
  <1> QED BY <1>2, <1>3

LEMMA NamedTable ==
  ASSUME NEW f, Table(f, Ids, Named)
  PROVE  Table(f, Ids, Stage)
  BY DEF Table, Named

\* Bytes without an .info file, as a save stages them and as a failed commit
\* leaves them.
LEMMA StagedBytes ==
  ASSUME NEW size \in Sizes
  PROVE  [name |-> Nil, size |-> size, left |-> 0, old |-> FALSE, info |-> FALSE,
          data |-> TRUE] \in Named
  BY ChunksIsPositive DEF Named, Stage

LEMMA IdleType == Idle \in Request /\ Typed(Idle)
  BY DEF Idle, Request, Places, Typed

\* A request with one field set.
Set(r, f, v) == [r EXCEPT ![f] = v]

LEMMA SetType ==
  ASSUME NEW r \in Request
  PROVE  /\ \A a \in Places : Set(r, "at", a) \in Request
         /\ \A x \in Ids \cup {Nil} : Set(r, "id", x) \in Request
         /\ \A x \in Ids \cup {Nil} : Set(r, "item", x) \in Request
         /\ \A n \in FinalName \cup {Nil} : Set(r, "name", n) \in Request
         /\ \A s \in Sizes \cup {0} : Set(r, "new", s) \in Request
         /\ \A x \in Ids \cup {Nil} : Set(r, "sum", x) \in Request
  BY DEF Set, Request

LEMMA SetFields ==
  ASSUME NEW r \in Request
  PROVE  \A a \in Places :
           /\ Set(r, "at", a).at = a
           /\ Set(r, "at", a).id = r.id /\ Set(r, "at", a).item = r.item
           /\ Set(r, "at", a).name = r.name /\ Set(r, "at", a).new = r.new
           /\ Set(r, "at", a).was = r.was /\ Set(r, "at", a).sum = r.sum
  BY DEF Set, Request

\* A step that only moves a request on.
LEMMA GotoType ==
  ASSUME TypeInv, NEW p \in Procs, NEW r \in Request, Typed(r), Goto(p, r)
  PROVE  req' \in [Procs -> Request] /\ \A q \in Procs : Typed(req'[q])
  BY DEF TypeInv, TypeOK, Goto

\* A request that goes on to a place where its sum does not matter yet, or where
\* it has one.
LEMMA OnwardType ==
  ASSUME NEW r \in Request, Typed(r), r.at # "idle", NEW a \in Places,
         a \in {"insert", "save_quota", "save_place", "save_row"} => r.sum \in Ids
  PROVE  Set(r, "at", a) \in Request /\ Typed(Set(r, "at", a))
  <1>1. Set(r, "at", a) \in Request
    BY SetType
  <1>2. Typed(Set(r, "at", a))
    BY SetFields DEF Typed
  <1> QED BY <1>1, <1>2

-----------------------------------------------------------------------------
(* Every action keeps TypeInv. *)

LEMMA PostType ==
  ASSUME TypeInv, NEW x \in Ids, NEW n \in Names, NEW s \in Sizes, NEW d \in BOOLEAN,
         Post(x, n, s, d)
  PROVE  TypeInv'
  <1> DEFINE e == [name |-> n, size |-> s, left |-> Chunks, old |-> FALSE, info |-> TRUE,
                   data |-> TRUE]
  <1>1. e \in Named
    BY ChunksIsPositive DEF Named, Stage
  <1> HIDE DEF e
  <1>2. staged' = Put(staged, x, e)
    BY DEF Post, e
  <1>3. Table(staged', Ids, Named)
    BY <1>1, <1>2, PutType DEF TypeInv, TypeOK
  <1> QED BY <1>3, NamedTable DEF Post, TypeInv, TypeOK

LEMMA WriteType ==
  ASSUME TypeInv, NEW p \in Procs, NEW x \in Ids, Write(p, x)
  PROVE  TypeInv'
  <1> DEFINE e == [staged[x] EXCEPT !.left = staged[x].left - 1, !.old = FALSE]
  <1>1. x \in DOMAIN staged /\ staged[x] \in Named /\ staged[x].left > 0
    BY DEF Write, Writable, Resumable, TypeInv, TypeOK, Table
  <1>2. e \in Named
    BY <1>1, StageTypes
  <1>3. staged' = [staged EXCEPT ![x] = e]
    BY DEF Write
  <1>4. Table(staged', Ids, Named)
    <2> HIDE DEF e
    <2> QED BY <1>1, <1>2, <1>3 DEF TypeInv, TypeOK, Table
  <1>5. req' \in [Procs -> Request] /\ \A q \in Procs : Typed(req'[q])
    <2>1. CASE staged[x].left > 1
      BY <2>1 DEF Write, TypeInv, TypeOK
    <2>2. CASE ~(staged[x].left > 1)
      <3> DEFINE r == [at |-> "name", id |-> x, item |-> x, name |-> <<staged[x].name, 0>>,
                       was |-> 0, new |-> staged[x].size, sum |-> Nil]
      <3>1. Goto(p, r)
        BY <2>2 DEF Write
      <3>2. staged[x].name \in Names /\ staged[x].size \in Sizes
        BY <1>1 DEF Named, Stage
      <3>3. r \in Request /\ Typed(r)
        BY <3>2 DEF Request, Places, FinalName, Typed
      <3> HIDE DEF r
      <3> QED BY <3>1, <3>3, GotoType
    <2> QED BY <2>1, <2>2
  <1> QED BY <1>4, <1>5, NamedTable DEF Write, TypeInv, TypeOK

LEMMA TerminateType ==
  ASSUME TypeInv, NEW x \in Ids, Terminate(x)
  PROVE  TypeInv'
  <1>1. Table(staged', Ids, Named)
    BY WithoutType DEF Terminate, TypeInv, TypeOK
  <1> QED BY <1>1, NamedTable DEF Terminate, TypeInv, TypeOK

LEMMA AgeType ==
  ASSUME TypeInv, NEW x \in Ids, Age(x)
  PROVE  TypeInv'
  <1> DEFINE e == [staged[x] EXCEPT !.old = TRUE]
  <1>1. x \in DOMAIN staged /\ staged[x] \in Named
    BY DEF Age, TypeInv, TypeOK, Table
  <1>2. e \in Named
    BY <1>1, StageTypes
  <1>3. staged' = [staged EXCEPT ![x] = e]
    BY DEF Age
  <1> HIDE DEF e
  <1>4. Table(staged', Ids, Named)
    BY <1>1, <1>2, <1>3 DEF TypeInv, TypeOK, Table
  <1> QED BY <1>4, NamedTable DEF Age, TypeInv, TypeOK

\* A request that goes on, and changes nothing but itself and what is listed.
LEMMA StepType ==
  ASSUME TypeInv, NEW p \in Procs, NEW r \in Request, Typed(r), Goto(p, r),
         Table(staged', Ids, Named), Table(files', FinalName, Bytes), Table(rows', Ids, Row),
         IsFiniteSet(DOMAIN rows'), used' \in Int, UNCHANGED <<sweep, stops>>
  PROVE  TypeInv'
  <1>1. req' \in [Procs -> Request] /\ \A q \in Procs : Typed(req'[q])
    BY GotoType
  <1> QED BY <1>1, NamedTable DEF TypeInv, TypeOK

\* What a busy request holds.
LEMMA BusyType ==
  ASSUME TypeInv, NEW p \in Procs, req[p].at # "idle"
  PROVE  /\ req[p] \in Request /\ Typed(req[p])
         /\ req[p].id \in Ids /\ req[p].item \in Ids /\ req[p].name \in FinalName
         /\ req[p].new \in Sizes
  BY DEF TypeInv, TypeOK, Typed

LEMMA ChooseNameType ==
  ASSUME TypeInv, NEW p \in Procs, ChooseName(p)
  PROVE  TypeInv'
  <1> DEFINE r == req[p]
             n == UniqueName(r.name)
             s == Set(r, "name", n)
             t == Set(s, "at", "quota")
  <1>1. r \in Request /\ Typed(r) /\ r.at = "name" /\ r.name \in FinalName
    BY BusyType DEF ChooseName
  <1>2. n \in FinalName
    BY <1>1, UniqueNameIsFree DEF TypeInv
  <1>3. s \in Request /\ Typed(s) /\ s.at # "idle"
    <2> HIDE DEF r, n
    <2>1. s \in Request
      BY <1>1, <1>2, SetType
    <2> QED BY <1>1, <1>2, <2>1 DEF Set, Typed, Request
  <1>4. t \in Request /\ Typed(t)
    <2> HIDE DEF s
    <2> QED BY <1>3, OnwardType DEF Places
  <1>5. Goto(p, t)
    BY <1>1 DEF ChooseName, Set, Request
  <1> HIDE DEF t
  <1> QED BY <1>4, <1>5, StepType DEF ChooseName, TypeInv, TypeOK

LEMMA CheckUploadType ==
  ASSUME TypeInv, NEW p \in Procs, CheckUpload(p)
  PROVE  TypeInv'
  <1> DEFINE r == req[p]
             t == IF Fits(r) THEN Set(r, "at", "place") ELSE Idle
  <1>1. r \in Request /\ Typed(r) /\ r.at = "quota"
    BY BusyType DEF CheckUpload
  <1>2. t \in Request /\ Typed(t)
    <2> HIDE DEF r
    <2> QED BY <1>1, OnwardType, IdleType DEF Places
  <1>3. Goto(p, t)
    BY DEF CheckUpload, Set
  <1> HIDE DEF t
  <1> QED BY <1>2, <1>3, StepType DEF CheckUpload, TypeInv, TypeOK

\* Bytes that are placed come from a request.
LEMMA PlacedType ==
  ASSUME TypeInv, NEW r \in Request, Typed(r), r.at # "idle"
  PROVE  Table(Put(files, r.name, [of |-> r.item, sum |-> r.id]), FinalName, Bytes)
  <1>1. r.name \in FinalName /\ [of |-> r.item, sum |-> r.id] \in Bytes
    BY DEF Typed, Bytes
  <1>2. Table(files, FinalName, Bytes)
    BY DEF TypeInv, TypeOK
  <1> DEFINE n == r.name
             b == [of |-> r.item, sum |-> r.id]
  <1> HIDE DEF n, b
  <1>3. Table(Put(files, n, b), FinalName, Bytes)
    BY <1>1, <1>2, PutType DEF n, b
  <1> QED BY <1>3 DEF n, b

LEMMA PlaceUploadType ==
  ASSUME TypeInv, NEW p \in Procs, PlaceUpload(p)
  PROVE  TypeInv'
  <1> DEFINE r == req[p]
             t == Set(r, "at", "sum")
  <1>1. r \in Request /\ Typed(r) /\ r.at = "place"
    BY BusyType DEF PlaceUpload
  <1>2. CASE r.id \in DOMAIN staged /\ staged[r.id].data
    <2>1. t \in Request /\ Typed(t)
      <3> HIDE DEF r
      <3> QED BY <1>1, OnwardType DEF Places
    <2>2. Goto(p, t)
      BY <1>2 DEF PlaceUpload, Set
    <2>3. Table(files', FinalName, Bytes)
      BY <1>1, <1>2, PlacedType DEF PlaceUpload
    <2>4. staged[r.id].info \in BOOLEAN
      BY <1>2 DEF TypeInv, TypeOK, Table, Stage
    <2>5. staged' = Keep(r.id, staged[r.id].info, FALSE)
      BY <1>2 DEF PlaceUpload
    <2>6. Table(staged', Ids, Named)
      BY <1>2, <2>4, <2>5, KeepType DEF TypeInv
    <2> HIDE DEF t
    <2> QED BY <2>1, <2>2, <2>3, <2>6, StepType DEF PlaceUpload, TypeInv, TypeOK
  <1>3. CASE ~(r.id \in DOMAIN staged /\ staged[r.id].data)
    <2>1. Goto(p, Idle) /\ UNCHANGED <<staged, files>>
      BY <1>3 DEF PlaceUpload
    <2> QED BY <2>1, IdleType, StepType DEF PlaceUpload, TypeInv, TypeOK
  <1> QED BY <1>2, <1>3

LEMMA ChecksumType ==
  ASSUME TypeInv, NEW p \in Procs, Checksum(p)
  PROVE  TypeInv'
  <1> DEFINE r == req[p]
             s == Set(r, "sum", files[r.name].sum)
             t == Set(s, "at", "insert")
  <1>1. r \in Request /\ Typed(r) /\ r.at = "sum"
    BY BusyType DEF Checksum
  <1>2. CASE r.name \in DOMAIN files
    <2>1. files[r.name].sum \in Ids
      BY <1>2 DEF TypeInv, TypeOK, Table, Bytes
    <2>2. s \in Request /\ Typed(s) /\ s.at # "idle" /\ s.sum \in Ids
      <3> DEFINE v == files[r.name].sum
      <3> HIDE DEF v, r
      <3>1. Set(r, "sum", v) \in Request
        BY <1>1, <2>1, SetType DEF v
      <3>2. Typed(Set(r, "sum", v)) /\ Set(r, "sum", v).at # "idle" /\ Set(r, "sum", v).sum = v
        BY <1>1 DEF Set, Typed, Request
      <3> QED BY <2>1, <3>1, <3>2 DEF v
    <2>3. t \in Request /\ Typed(t)
      <3> HIDE DEF s
      <3> QED BY <2>2, OnwardType DEF Places
    <2>4. Goto(p, t)
      BY <1>1, <1>2 DEF Checksum, Set, Request
    <2> HIDE DEF t
    <2> QED BY <2>3, <2>4, StepType DEF Checksum, TypeInv, TypeOK
  <1>3. CASE r.name \notin DOMAIN files
    <2>1. Goto(p, Idle)
      BY <1>3 DEF Checksum
    <2> QED BY <2>1, IdleType, StepType DEF Checksum, TypeInv, TypeOK
  <1> QED BY <1>2, <1>3
LEMMA RollBackType ==
  ASSUME TypeInv, NEW r \in Request, Typed(r), r.at # "idle", RollBack(r)
  PROVE  Table(staged', Ids, Named) /\ Table(files', FinalName, Bytes)
  <1>1. Table(staged, Ids, Named) /\ Table(files, FinalName, Bytes)
    BY DEF TypeInv, TypeOK
  <1>2. CASE r.name \notin DOMAIN files
    BY <1>1, <1>2 DEF RollBack
  <1>3. CASE r.name \in DOMAIN files
    <2>1. Table(files', FinalName, Bytes)
      BY <1>1, <1>3, WithoutType DEF RollBack
    <2>2. CASE r.id \in DOMAIN staged
      <3>1. staged[r.id].info \in BOOLEAN
        BY <1>1, <2>2 DEF Table, Named, Stage
      <3>2. staged' = Keep(r.id, staged[r.id].info, TRUE)
        BY <1>3, <2>2 DEF RollBack
      <3> QED BY <1>1, <2>1, <2>2, <3>1, <3>2, KeepType
    <2>3. CASE r.id \notin DOMAIN staged
      <3> DEFINE x == r.id
                 e == [name |-> Nil, size |-> r.new, left |-> 0, old |-> FALSE,
                       info |-> FALSE, data |-> TRUE]
      <3>1. x \in Ids /\ e \in Named
        BY StagedBytes DEF Typed
      <3>2. staged' = Put(staged, x, e)
        BY <1>3, <2>3 DEF RollBack
      <3> HIDE DEF x, e
      <3>3. Table(Put(staged, x, e), Ids, Named)
        BY <1>1, <3>1, PutType
      <3> QED BY <2>1, <3>2, <3>3
    <2> QED BY <2>2, <2>3
  <1> QED BY <1>2, <1>3

LEMMA InsertRowType ==
  ASSUME TypeInv, NEW p \in Procs, InsertRow(p)
  PROVE  TypeInv'
  <1> DEFINE r == req[p]
             t == Set(r, "at", "charge")
  <1>1. r \in Request /\ Typed(r) /\ r.at = "insert"
    BY BusyType DEF InsertRow
  <1>2. CASE Taken(r.name)
    <2>1. RollBack(r) /\ Goto(p, Idle) /\ UNCHANGED rows
      BY <1>2 DEF InsertRow
    <2>2. Table(staged', Ids, Named) /\ Table(files', FinalName, Bytes)
      BY <1>1, <2>1, RollBackType
    <2> QED BY <2>1, <2>2, IdleType, StepType DEF InsertRow, TypeInv, TypeOK
  <1>3. CASE ~Taken(r.name)
    <2> DEFINE x == r.item
               e == [name |-> r.name, size |-> r.new, sum |-> r.sum]
    <2>1. t \in Request /\ Typed(t)
      <3> HIDE DEF r
      <3> QED BY <1>1, OnwardType DEF Places
    <2>2. Goto(p, t) /\ rows' = Put(rows, x, e) /\ UNCHANGED <<staged, files>>
      BY <1>3 DEF InsertRow, Set
    <2>3. x \in Ids /\ e \in Row
      BY <1>1 DEF Typed, Row
    <2> HIDE DEF t, x, e
    <2>4. Table(rows', Ids, Row)
      BY <2>2, <2>3, PutType DEF TypeInv, TypeOK
    <2>5. IsFiniteSet(DOMAIN rows')
      BY <2>2, FS_AddElement DEF Put, TypeInv
    <2> QED BY <2>1, <2>2, <2>4, <2>5, StepType DEF InsertRow, TypeInv, TypeOK
  <1> QED BY <1>2, <1>3

LEMMA ChargeType ==
  ASSUME TypeInv, NEW p \in Procs, Charge(p)
  PROVE  TypeInv'
  <1>0. req[p].new \in Sizes \cup {0} /\ req[p].was \in Sizes \cup {0} /\ used \in Int
    BY DEF TypeInv, TypeOK, Request
  <1>1. Sizes \cup {0} \subseteq Int
    BY SizesAreNat
  <1>2. used' \in Int
    BY <1>0, <1>1 DEF Charge, Delta
  <1> QED BY <1>2, IdleType, StepType DEF Charge, TypeInv, TypeOK

LEMMA SaveType ==
  ASSUME TypeInv, NEW p \in Procs, NEW x \in Ids, NEW y \in Ids, NEW size \in Sizes,
         Save(p, x, y, size)
  PROVE  TypeInv'
  <1> DEFINE e == [name |-> Nil, size |-> size, left |-> 0, old |-> FALSE, info |-> FALSE,
                   data |-> TRUE]
             t == [at |-> "save_quota", id |-> y, item |-> x, name |-> rows[x].name,
                   was |-> rows[x].size, new |-> size, sum |-> y]
  <1>1. rows[x].name \in FinalName /\ rows[x].size \in Sizes
    BY DEF Save, TypeInv, TypeOK, Table, Row
  <1>2. t \in Request /\ Typed(t)
    BY <1>1 DEF Request, Places, Typed
  <1>3. e \in Named
    BY StagedBytes
  <1>4. Goto(p, t) /\ staged' = Put(staged, y, e)
    BY DEF Save
  <1> HIDE DEF e, t
  <1>5. Table(staged', Ids, Named)
    BY <1>3, <1>4, PutType DEF TypeInv
  <1> QED BY <1>2, <1>4, <1>5, StepType DEF Save, TypeInv, TypeOK

LEMMA CheckSaveType ==
  ASSUME TypeInv, NEW p \in Procs, CheckSave(p)
  PROVE  TypeInv'
  <1> DEFINE r == req[p]
             t == Set(r, "at", "save_place")
  <1>1. r \in Request /\ Typed(r) /\ r.at = "save_quota" /\ r.sum \in Ids
    BY BusyType DEF CheckSave, Typed
  <1>2. CASE CheckQuota(Delta(r))
    <2>1. t \in Request /\ Typed(t)
      <3> HIDE DEF r
      <3> QED BY <1>1, OnwardType DEF Places
    <2>2. Goto(p, t) /\ UNCHANGED staged
      BY <1>2 DEF CheckSave, Set
    <2> HIDE DEF t
    <2> QED BY <2>1, <2>2, StepType DEF CheckSave, TypeInv, TypeOK
  <1>3. CASE ~CheckQuota(Delta(r))
    <2>1. Goto(p, Idle) /\ staged' = Without(staged, {r.id})
      BY <1>3 DEF CheckSave
    <2>2. Table(staged', Ids, Named)
      BY <2>1, WithoutType DEF TypeInv
    <2> QED BY <2>1, <2>2, IdleType, StepType DEF CheckSave, TypeInv, TypeOK
  <1> QED BY <1>2, <1>3

LEMMA PlaceSaveType ==
  ASSUME TypeInv, NEW p \in Procs, PlaceSave(p)
  PROVE  TypeInv'
  <1> DEFINE r == req[p]
             t == Set(r, "at", "save_row")
  <1>1. r \in Request /\ Typed(r) /\ r.at = "save_place" /\ r.sum \in Ids
    BY BusyType DEF PlaceSave, Typed
  <1>2. t \in Request /\ Typed(t)
    <2> HIDE DEF r
    <2> QED BY <1>1, OnwardType DEF Places
  <1>3. Goto(p, t) /\ staged' = Without(staged, {r.id})
    BY DEF PlaceSave, Set
  <1>4. Table(staged', Ids, Named)
    BY <1>3, WithoutType DEF TypeInv
  <1>5. Table(files', FinalName, Bytes)
    BY <1>1, PlacedType DEF PlaceSave
  <1> HIDE DEF t
  <1> QED BY <1>2, <1>3, <1>4, <1>5, StepType DEF PlaceSave, TypeInv, TypeOK

LEMMA UpdateRowType ==
  ASSUME TypeInv, NEW p \in Procs, UpdateRow(p)
  PROVE  TypeInv'
  <1> DEFINE r == req[p]
             t == Set(r, "at", "charge")
             e == [rows[r.item] EXCEPT !.size = r.new, !.sum = r.sum]
  <1>1. r \in Request /\ Typed(r) /\ r.at = "save_row" /\ r.sum \in Ids /\ r.new \in Sizes
    BY BusyType DEF UpdateRow, Typed
  <1>2. t \in Request /\ Typed(t)
    <2> HIDE DEF r
    <2> QED BY <1>1, OnwardType DEF Places
  <1>3. Goto(p, t)
    BY DEF UpdateRow, Set
  <1>4. Table(rows', Ids, Row) /\ DOMAIN rows' = DOMAIN rows
    <2>1. CASE r.item \in DOMAIN rows
      <3>1. rows[r.item] \in Row
        BY <2>1 DEF TypeInv, TypeOK, Table
      <3>2. e \in Row
        BY <1>1, <3>1 DEF Row
      <3>3. rows' = [rows EXCEPT ![r.item] = e]
        BY <2>1 DEF UpdateRow
      <3> HIDE DEF e, r
      <3> QED BY <2>1, <3>2, <3>3 DEF TypeInv, TypeOK, Table
    <2>2. CASE r.item \notin DOMAIN rows
      BY <2>2 DEF UpdateRow, TypeInv, TypeOK
    <2> QED BY <2>1, <2>2
  <1> HIDE DEF t
  <1> QED BY <1>2, <1>3, <1>4, StepType DEF UpdateRow, TypeInv, TypeOK

LEMMA EraseType ==
  ASSUME TypeInv, NEW x \in Ids, Erase(x)
  PROVE  TypeInv'
  <1>1. Table(files', FinalName, Bytes) /\ Table(rows', Ids, Row)
    BY WithoutType DEF Erase, TypeInv, TypeOK
  <1>2. rows[x].size \in Int /\ used \in Int
    BY SizesAreNat DEF Erase, TypeInv, TypeOK, Table, Row
  <1>3. used' \in Int
    BY <1>2 DEF Erase
  <1>4. IsFiniteSet(DOMAIN rows')
    BY FS_RemoveElement DEF Erase, Without, TypeInv
  <1> QED BY <1>1, <1>3, <1>4 DEF Erase, TypeInv, TypeOK

LEMMA RemovedType ==
  ASSUME TypeInv, NEW x \in DOMAIN staged, NEW info \in {FALSE, staged[x].info},
         NEW data \in {FALSE, staged[x].data}
  PROVE  Table(Keep(x, info, data), Ids, Named)
  <1>1. info \in BOOLEAN /\ data \in BOOLEAN
    BY DEF TypeInv, TypeOK, Table, Stage
  <1> QED BY <1>1, KeepType DEF TypeInv

LEMMA SweepType ==
  ASSUME TypeInv, Sweep
  PROVE  TypeInv'
  <1> USE DEF SweepAt
  <1>1. CASE Collect
    <2>1. {x \in DOMAIN staged : staged[x].info} \subseteq Ids
      BY DEF TypeInv, TypeOK, Table
    <2> QED BY <1>1, <2>1 DEF Collect, TypeInv, TypeOK
  <1>2. ASSUME NEW x \in Ids, Look(x)
        PROVE  TypeInv'
    BY <1>2 DEF Look, Done, TypeInv, TypeOK
  <1>3. CASE RemoveInfo
    <2>1. Table(staged', Ids, Named)
      <3>1. CASE sweep.id \in DOMAIN staged
        BY <1>3, <3>1, RemovedType DEF RemoveInfo
      <3>2. CASE sweep.id \notin DOMAIN staged
        BY <1>3, <3>2 DEF RemoveInfo, TypeInv
      <3> QED BY <3>1, <3>2
    <2> QED BY <1>3, <2>1, NamedTable DEF RemoveInfo, TypeInv, TypeOK
  <1>4. CASE RemoveBytes
    <2>1. Table(staged', Ids, Named)
      <3>1. CASE sweep.id \in DOMAIN staged
        BY <1>4, <3>1, RemovedType DEF RemoveBytes, RemoveData
      <3>2. CASE sweep.id \notin DOMAIN staged
        BY <1>4, <3>2 DEF RemoveBytes, RemoveData, TypeInv
      <3> QED BY <3>1, <3>2
    <2> QED BY <1>4, <2>1, NamedTable DEF RemoveBytes, Done, TypeInv, TypeOK
  <1>5. CASE CollectEnd
    BY <1>5 DEF CollectEnd, Off, TypeInv, TypeOK
  <1> QED BY <1>1, <1>2, <1>3, <1>4, <1>5 DEF Sweep

LEMMA StopType ==
  ASSUME TypeInv, Stop
  PROVE  TypeInv'
  <1>1. req' \in [Procs -> Request] /\ \A q \in Procs : Typed(req'[q])
    BY IdleType DEF Stop
  <1>2. stops' \in 0..MaxStops
    BY StopsAreNat DEF Stop, TypeInv, TypeOK
  <1> QED BY <1>1, <1>2 DEF Stop, Off, SweepAt, TypeInv, TypeOK

LEMMA InitType == Init => TypeInv
  <1> SUFFICES ASSUME Init PROVE TypeInv
    OBVIOUS
  <1>1. DOMAIN Empty = {}
    BY DEF Empty
  <1>2. \A K, R : Table(Empty, K, R)
    BY DEF Empty, Table
  <1>3. IsFiniteSet(DOMAIN rows)
    BY <1>1, FS_EmptySet DEF Init
  <1> QED BY <1>2, <1>3, IdleType, StopsAreNat DEF Init, Off, SweepAt, TypeInv, TypeOK

LEMMA NextType ==
  ASSUME TypeInv, [Next]_vars
  PROVE  TypeInv'
  <1>1. ASSUME NEW x \in Ids, NEW name \in Names, NEW size \in Sizes, NEW deferred \in BOOLEAN,
               Post(x, name, size, deferred)
        PROVE  TypeInv'
    BY <1>1, PostType
  <1>2. ASSUME NEW x \in Ids, Terminate(x) \/ Age(x) \/ Erase(x)
        PROVE  TypeInv'
    BY <1>2, TerminateType, AgeType, EraseType
  <1>3. ASSUME NEW p \in Procs, NEW x \in Ids, Write(p, x)
        PROVE  TypeInv'
    BY <1>3, WriteType
  <1>4. ASSUME NEW p \in Procs, NEW x \in Ids, NEW s \in Ids, NEW size \in Sizes,
               Save(p, x, s, size)
        PROVE  TypeInv'
    BY <1>4, SaveType
  <1>5. ASSUME NEW p \in Procs, Step(p)
        PROVE  TypeInv'
    BY <1>5, ChooseNameType, CheckUploadType, PlaceUploadType, ChecksumType, InsertRowType,
       CheckSaveType, PlaceSaveType, UpdateRowType, ChargeType DEF Step
  <1>6. CASE Sweep
    BY <1>6, SweepType
  <1>7. CASE Stop
    BY <1>7, StopType
  <1>8. CASE UNCHANGED vars
    BY <1>8 DEF vars, TypeInv, TypeOK
  <1> QED BY <1>1, <1>2, <1>3, <1>4, <1>5, <1>6, <1>7, <1>8 DEF Next

\* Spec => []TypeOK: whatever overlaps, and wherever requests and the collection
\* of uploads are cut short, every variable keeps to its type.
THEOREM UploadsTypeCorrect == Spec => []TypeOK
  <1>1. TypeInv => TypeOK
    BY DEF TypeInv
  <1> QED BY <1>1, InitType, NextType, PTL DEF Spec

-----------------------------------------------------------------------------
(* Every row has its bytes, when nothing overlaps that Habits lists.       *)

Waiting(r) == r.at \in {"name", "quota", "place", "sum", "insert"}
Saver(r) == r.at # "idle" /\ Saves(r)

\* An upload's name stays free until its row is there, and from the rename on its
\* bytes have that name on disk and are no longer staged.
UploadOK(r, st, fs, rs) ==
  Waiting(r) =>
    /\ ~Saves(r)
    /\ r.item \notin DOMAIN rs
    /\ r.at # "name" => \A x \in DOMAIN rs : rs[x].name # r.name
    /\ r.at \in {"sum", "insert"} =>
         /\ r.name \in DOMAIN fs
         /\ fs[r.name].of = r.item
         /\ r.id \in DOMAIN st => ~st[r.id].data
    /\ r.at = "insert" => fs[r.name].sum = r.sum

\* A save's item stays where it is, and its row and its bytes differ only from
\* the rename to the update.
SaveOK(r, fs, rs, n) ==
  Saver(r) =>
    /\ ~Waiting(r)
    /\ r.item \in DOMAIN rs
    /\ r.name = rs[r.item].name
    /\ r.at \in {"save_quota", "save_place", "save_row"} => r.sum = r.id
    /\ r.at \in {"save_quota", "save_place"} /\ n = 0 => fs[r.name].sum = rs[r.item].sum
    /\ r.at = "save_row" => fs[r.name].sum = r.sum
    /\ r.at = "charge" => fs[r.name].sum = rs[r.item].sum

Apart(r, s) ==
  /\ Waiting(r) /\ Waiting(s) => r.item # s.item /\ r.name[1] # s.name[1]
  /\ Saver(r) /\ Saver(s) => r.item # s.item

NamesDiffer == \A x, y \in DOMAIN rows : rows[x].name = rows[y].name => x = y

\* Bytes that are still staged are not an item's yet.
StagedOnly == \A x \in DOMAIN staged : staged[x].data => x \notin DOMAIN rows

RequestsOK ==
  /\ \A p \in Procs : UploadOK(req[p], staged, files, rows) /\ SaveOK(req[p], files, rows, stops)
  /\ \A p \in Procs : req[p].at \in {"save_quota", "save_place", "save_row"} => Saves(req[p])
  /\ \A p, q \in Procs : p # q => Apart(req[p], req[q])

RowsInv == TypeInv /\ RowsHaveTheirBytes /\ NamesDiffer /\ StagedOnly /\ RequestsOK

\* What is staged anew is nobody's yet.
Restaged ==
  \A x \in DOMAIN staged' :
    staged'[x].data => \/ x \in DOMAIN staged /\ staged[x].data
                       \/ x \notin Held \cup DOMAIN rows

\* A request that changes what it knows, and perhaps the staging directory.
LEMMA RequestMoves ==
  ASSUME RowsInv, TypeInv', UNCHANGED <<files, rows, stops>>, Restaged,
         NEW p \in Procs, NEW r, Goto(p, r),
         UploadOK(r, staged', files, rows), SaveOK(r, files, rows, stops),
         r.at \in {"save_quota", "save_place", "save_row"} => Saves(r),
         \A q \in Procs : q # p => Apart(r, req[q]),
         Saver(req[p]) => \/ Saver(r) /\ r.item = req[p].item
                          \/ stops > 0
                          \/ files[req[p].name].sum = rows[req[p].item].sum
  PROVE  RowsInv'
  <1>1. /\ req'[p] = r
        /\ \A q \in Procs : q # p => req'[q] = req[q]
    BY DEF Goto, RowsInv, TypeInv, TypeOK
  <1>2. RowsHaveTheirBytes'
    <2> SUFFICES ASSUME NEW x \in DOMAIN rows
                 PROVE  /\ rows[x].name \in DOMAIN files
                        /\ files[rows[x].name].of = x
                        /\ stops = 0 /\ Saving(x)' = {} => files[rows[x].name].sum = rows[x].sum
      BY DEF RowsHaveTheirBytes
    <2>1. ASSUME stops = 0, Saving(x)' = {}
          PROVE  files[rows[x].name].sum = rows[x].sum
      <3>1. CASE Saving(x) = {}
        BY <2>1, <3>1 DEF RowsInv, RowsHaveTheirBytes
      <3>2. CASE Saving(x) # {}
        <4>1. PICK q \in Procs : Saver(req[q]) /\ req[q].item = x
          BY <3>2 DEF Saving, Busy, Saver
        <4>2. ~(Saver(req'[q]) /\ req'[q].item = x)
          BY <2>1, <4>1 DEF Saving, Busy, Saver
        <4>3. q = p /\ ~(Saver(r) /\ r.item = x)
          BY <1>1, <4>1, <4>2
        <4>4. rows[x].name = req[p].name
          BY <4>1, <4>3 DEF RowsInv, RequestsOK, SaveOK
        <4> QED BY <2>1, <4>1, <4>3, <4>4
      <3> QED BY <3>1, <3>2
    <2> QED BY <2>1 DEF RowsInv, RowsHaveTheirBytes
  <1>3. NamesDiffer'
    BY DEF RowsInv, NamesDiffer
  <1>4. StagedOnly'
    BY DEF RowsInv, StagedOnly, Restaged
  <1>5. ASSUME NEW q \in Procs, q # p
        PROVE  UploadOK(req[q], staged', files, rows)
    <2>1. UploadOK(req[q], staged, files, rows)
      BY DEF RowsInv, RequestsOK
    <2>2. Waiting(req[q]) => req[q].id \in Held
      BY DEF Waiting, Held, Busy
    <2> QED BY <2>1, <2>2 DEF UploadOK, Restaged
  <1>6. RequestsOK'
    <2>1. \A q \in Procs : UploadOK(req'[q], staged', files', rows')
      BY <1>1, <1>5
    <2>2. \A q \in Procs : SaveOK(req'[q], files', rows', stops')
      BY <1>1 DEF RowsInv, RequestsOK
    <2>3. \A q \in Procs : req'[q].at \in {"save_quota", "save_place", "save_row"} => Saves(req'[q])
      BY <1>1 DEF RowsInv, RequestsOK
    <2>4. \A q, s \in Procs : q # s => Apart(req'[q], req'[s])
      BY <1>1 DEF RowsInv, RequestsOK, Apart
    <2> QED BY <2>1, <2>2, <2>3, <2>4 DEF RequestsOK
  <1> QED BY <1>2, <1>3, <1>4, <1>6 DEF RowsInv

\* A step of the staging directory only.
LEMMA StagingMoves ==
  ASSUME RowsInv, TypeInv', UNCHANGED <<files, rows, req, stops>>, Restaged
  PROVE  RowsInv'
  <1>1. RowsHaveTheirBytes' /\ NamesDiffer'
    BY DEF RowsInv, RowsHaveTheirBytes, NamesDiffer, Saving, Busy
  <1>2. StagedOnly'
    BY DEF RowsInv, StagedOnly, Restaged
  <1>3. ASSUME NEW q \in Procs
        PROVE  UploadOK(req[q], staged', files, rows)
    <2>1. UploadOK(req[q], staged, files, rows)
      BY DEF RowsInv, RequestsOK
    <2>2. Waiting(req[q]) => req[q].id \in Held
      BY DEF Waiting, Held, Busy
    <2> QED BY <2>1, <2>2 DEF UploadOK, Restaged
  <1>4. RequestsOK'
    BY <1>3 DEF RowsInv, RequestsOK
  <1> QED BY <1>1, <1>2, <1>4 DEF RowsInv
LEMMA PostRows ==
  ASSUME RowsInv, NEW x \in Ids, NEW n \in Names, NEW s \in Sizes, NEW d \in BOOLEAN,
         Post(x, n, s, d)
  PROVE  RowsInv'
  <1>1. TypeInv'
    BY PostType DEF RowsInv
  <1>2. Restaged
    BY DEF Restaged, Post, Put, Fresh
  <1> QED BY <1>1, <1>2, StagingMoves DEF Post

\* What is only taken from the staging directory.
LEMMA LessStaged ==
  ASSUME Table(staged, Ids, Stage), NEW x \in DOMAIN staged, NEW info, NEW data,
         data => staged[x].data, staged' = Keep(x, info, data) \/ staged' = Without(staged, {x})
  PROVE  Restaged
  <1>1. CASE staged' = Without(staged, {x})
    BY <1>1 DEF Without, Restaged
  <1>2. CASE staged' = [staged EXCEPT ![x].info = info, ![x].data = data]
    <2>1. DOMAIN staged' = DOMAIN staged
      BY <1>2
    <2>2. \A y \in DOMAIN staged : y # x => staged'[y] = staged[y]
      BY <1>2
    <2>3. staged'[x].data = data
      BY <1>2 DEF Table, Stage
    <2> QED BY <2>1, <2>2, <2>3 DEF Restaged
  <1> QED BY <1>1, <1>2 DEF Keep

LEMMA WriteRows ==
  ASSUME RowsInv, Overlaps = {}, NEW p \in Procs, NEW x \in Ids, Write(p, x)
  PROVE  RowsInv'
  <1>1. TypeInv'
    BY WriteType DEF RowsInv
  <1>2. x \in DOMAIN staged /\ staged[x] \in Stage /\ staged[x].data /\ x \notin Held
    BY DEF Write, Writable, Resumable, RowsInv, TypeInv, TypeOK, Table
  <1>3. Restaged
    <2>1. DOMAIN staged' = DOMAIN staged
      BY DEF Write
    <2>2. \A y \in DOMAIN staged : y # x => staged'[y] = staged[y]
      BY DEF Write
    <2> QED BY <1>2, <2>1, <2>2 DEF Restaged
  <1>4. CASE staged[x].left > 1
    BY <1>1, <1>3, <1>4, StagingMoves DEF Write
  <1>5. CASE ~(staged[x].left > 1)
    <2> DEFINE r == [at |-> "name", id |-> x, item |-> x, name |-> <<staged[x].name, 0>>,
                     was |-> 0, new |-> staged[x].size, sum |-> Nil]
    <2>1. Goto(p, r) /\ \A q \in Unlisted : req[q].name[1] # staged[x].name
      BY <1>5 DEF Write
    <2>2. ~Saver(req[p])
      BY DEF Write, Saver
    <2>3. r.at = "name" /\ ~Saves(r) /\ r.item = x /\ r.name[1] = staged[x].name
      BY DEF Saves
    <2>4. UNCHANGED <<files, rows, stops>>
      BY DEF Write
    <2> HIDE DEF r
    <2>5. x \notin DOMAIN rows
      BY <1>2 DEF RowsInv, StagedOnly
    <2>6. UploadOK(r, staged', files, rows) /\ SaveOK(r, files, rows, stops)
      BY <2>3, <2>5 DEF UploadOK, SaveOK, Saver, Waiting
    <2>7. ASSUME NEW q \in Procs, q # p
          PROVE  Apart(r, req[q])
      <3>1. Waiting(req[q]) => q \in Unlisted
        BY DEF Waiting, Busy, Unlisted, RowsInv, RequestsOK, UploadOK
      <3>2. Waiting(req[q]) => req[q].item # x
        BY <1>2 DEF Held, Busy, Waiting
      <3> QED BY <2>1, <2>3, <3>1, <3>2 DEF Apart, Saver
    <2> QED BY <1>1, <1>3, <2>1, <2>2, <2>3, <2>4, <2>6, <2>7, RequestMoves
  <1> QED BY <1>4, <1>5

LEMMA TerminateRows ==
  ASSUME RowsInv, NEW x \in Ids, Terminate(x)
  PROVE  RowsInv'
  <1>1. TypeInv'
    BY TerminateType DEF RowsInv
  <1>2. Restaged
    BY DEF Terminate, Without, Restaged
  <1> QED BY <1>1, <1>2, StagingMoves DEF Terminate

LEMMA AgeRows ==
  ASSUME RowsInv, NEW x \in Ids, Age(x)
  PROVE  RowsInv'
  <1>1. TypeInv'
    BY AgeType DEF RowsInv
  <1>2. x \in DOMAIN staged /\ staged[x] \in Stage
    BY DEF Age, RowsInv, TypeInv, TypeOK, Table
  <1>3. Restaged
    <2>1. DOMAIN staged' = DOMAIN staged
      BY DEF Age
    <2>2. \A y \in DOMAIN staged : y # x => staged'[y] = staged[y]
      BY DEF Age
    <2>3. staged'[x].data = staged[x].data
      BY <1>2 DEF Age, Stage
    <2> QED BY <1>2, <2>1, <2>2, <2>3 DEF Restaged
  <1> QED BY <1>1, <1>3, StagingMoves DEF Age

\* A request that goes on with the same item, name and bytes.
LEMMA OnwardRows ==
  ASSUME RowsInv, TypeInv', UNCHANGED <<staged, files, rows, stops>>,
         NEW p \in Procs, NEW r \in Request, Goto(p, r),
         Waiting(req[p]), Waiting(r), r.id = req[p].id, r.item = req[p].item,
         r.name[1] = req[p].name[1], UploadOK(r, staged, files, rows)
  PROVE  RowsInv'
  <1>1. Restaged
    BY DEF Restaged
  <1>2. ~Saves(req[p])
    BY DEF RowsInv, RequestsOK, UploadOK
  <1>3. ~Saver(r) /\ ~Saver(req[p])
    BY <1>2 DEF Saver, Saves
  <1>4. SaveOK(r, files, rows, stops)
    BY <1>3 DEF SaveOK
  <1>5. \A q \in Procs : q # p => Apart(r, req[q])
    BY <1>3 DEF RowsInv, RequestsOK, Apart
  <1>6. r.at \notin {"save_quota", "save_place", "save_row"}
    BY DEF Waiting
  <1> QED BY <1>1, <1>3, <1>4, <1>5, <1>6, RequestMoves

\* A request that ends, and has no row and bytes that differ.
LEMMA EndRows ==
  ASSUME RowsInv, TypeInv', UNCHANGED <<files, rows, stops>>, Restaged,
         NEW p \in Procs, Goto(p, Idle),
         Saver(req[p]) => stops > 0 \/ files[req[p].name].sum = rows[req[p].item].sum
  PROVE  RowsInv'
  <1>1. ~Saver(Idle) /\ ~Waiting(Idle) /\ Idle.at = "idle"
    BY DEF Saver, Waiting, Idle
  <1>2. UploadOK(Idle, staged', files, rows) /\ SaveOK(Idle, files, rows, stops)
    BY <1>1 DEF UploadOK, SaveOK
  <1>3. \A q \in Procs : q # p => Apart(Idle, req[q])
    BY <1>1 DEF Apart
  <1> QED BY <1>1, <1>2, <1>3, RequestMoves

LEMMA ChooseNameRows ==
  ASSUME RowsInv, NEW p \in Procs, ChooseName(p)
  PROVE  RowsInv'
  <1> DEFINE r == req[p]
             n == UniqueName(r.name)
             t == Set(Set(r, "name", n), "at", "quota")
  <1>1. TypeInv'
    BY ChooseNameType DEF RowsInv
  <1>2. r \in Request /\ r.at = "name" /\ r.name \in FinalName
    BY BusyType DEF ChooseName, RowsInv
  <1>3. n \in FinalName /\ n[1] = r.name[1] /\ ~Taken(n)
    BY <1>2, UniqueNameIsFree DEF RowsInv, TypeInv
  <1>4. Goto(p, t)
    BY <1>2 DEF ChooseName, Set, Request
  <1>5. t \in Request /\ t.at = "quota" /\ t.id = r.id /\ t.item = r.item /\ t.name = n
    <2> HIDE DEF r, n
    <2>1. Set(r, "name", n) \in Request
      BY <1>2, <1>3, SetType
    <2>2. Set(r, "name", n).id = r.id /\ Set(r, "name", n).item = r.item /\ Set(r, "name", n).name = n
      BY <1>2 DEF Set, Request
    <2> QED BY <2>1, <2>2, SetType, SetFields DEF Places
  <1> HIDE DEF t
  <1>6. UploadOK(t, staged, files, rows)
    BY <1>2, <1>3, <1>5 DEF RowsInv, RequestsOK, UploadOK, Waiting, Taken, Saves
  <1>7. Waiting(r) /\ Waiting(t)
    BY <1>2, <1>5 DEF Waiting
  <1> QED BY <1>1, <1>3, <1>4, <1>5, <1>6, <1>7, OnwardRows DEF ChooseName

LEMMA CheckUploadRows ==
  ASSUME RowsInv, NEW p \in Procs, CheckUpload(p)
  PROVE  RowsInv'
  <1> DEFINE r == req[p]
             t == Set(r, "at", "place")
  <1>1. TypeInv'
    BY CheckUploadType DEF RowsInv
  <1>2. r \in Request /\ r.at = "quota"
    BY BusyType DEF CheckUpload, RowsInv
  <1>3. CASE Fits(r)
    <2>1. Goto(p, t)
      BY <1>3 DEF CheckUpload, Set
    <2>2. /\ t \in Request /\ t.at = "place"
          /\ t.id = r.id /\ t.item = r.item /\ t.name = r.name
      BY <1>2, SetType, SetFields DEF Places
    <2> HIDE DEF t
    <2>3. UploadOK(t, staged, files, rows) /\ Waiting(r) /\ Waiting(t)
      BY <1>2, <2>2 DEF RowsInv, RequestsOK, UploadOK, Waiting, Saves
    <2> QED BY <1>1, <2>1, <2>2, <2>3, OnwardRows DEF CheckUpload
  <1>4. CASE ~Fits(r)
    <2>1. Goto(p, Idle) /\ Restaged
      BY <1>4 DEF CheckUpload, Restaged
    <2>2. ~Saver(r)
      BY <1>2 DEF RowsInv, RequestsOK, SaveOK, Waiting
    <2> QED BY <1>1, <2>1, <2>2, EndRows DEF CheckUpload
  <1> QED BY <1>3, <1>4

LEMMA ChecksumRows ==
  ASSUME RowsInv, NEW p \in Procs, Checksum(p)
  PROVE  RowsInv'
  <1> DEFINE r == req[p]
             v == files[r.name].sum
             t == Set(Set(r, "sum", v), "at", "insert")
  <1>1. TypeInv'
    BY ChecksumType DEF RowsInv
  <1>2. r \in Request /\ r.at = "sum"
    BY BusyType DEF Checksum, RowsInv
  <1>3. r.name \in DOMAIN files
    BY <1>2 DEF RowsInv, RequestsOK, UploadOK, Waiting
  <1>4. v \in Ids
    BY <1>3 DEF RowsInv, TypeInv, TypeOK, Table, Bytes
  <1>5. Goto(p, t)
    BY <1>2, <1>3 DEF Checksum, Set, Request
  <1>6. /\ t \in Request /\ t.at = "insert" /\ t.sum = v
        /\ t.id = r.id /\ t.item = r.item /\ t.name = r.name
    <2> HIDE DEF r, v
    <2>1. Set(r, "sum", v) \in Request
      BY <1>2, <1>4, SetType
    <2>2. /\ Set(r, "sum", v).id = r.id /\ Set(r, "sum", v).item = r.item
          /\ Set(r, "sum", v).name = r.name /\ Set(r, "sum", v).sum = v
      BY <1>2 DEF Set, Request
    <2> QED BY <2>1, <2>2, SetType, SetFields DEF Places
  <1> HIDE DEF t
  <1>7. UploadOK(t, staged, files, rows) /\ Waiting(r) /\ Waiting(t)
    BY <1>2, <1>6 DEF RowsInv, RequestsOK, UploadOK, Waiting, Saves
  <1> QED BY <1>1, <1>5, <1>6, <1>7, OnwardRows DEF Checksum
LEMMA PlaceUploadRows ==
  ASSUME RowsInv, NEW p \in Procs, PlaceUpload(p)
  PROVE  RowsInv'
  <1> DEFINE r == req[p]
             t == Set(r, "at", "sum")
             b == [of |-> r.item, sum |-> r.id]
  <1>1. TypeInv'
    BY PlaceUploadType DEF RowsInv
  <1>2. r \in Request /\ r.at = "place"
    BY BusyType DEF PlaceUpload, RowsInv
  <1>3. /\ ~Saves(r) /\ ~Saver(r) /\ Waiting(r) /\ r.item \notin DOMAIN rows
        /\ \A x \in DOMAIN rows : rows[x].name # r.name
    BY <1>2 DEF RowsInv, RequestsOK, UploadOK, Waiting, Saver
  <1>4. CASE r.id \in DOMAIN staged /\ staged[r.id].data
    <2>1. Goto(p, t) /\ staged' = Keep(r.id, staged[r.id].info, FALSE)
      BY <1>4 DEF PlaceUpload, Set
    <2>2. files' = Put(files, r.name, b) /\ UNCHANGED <<rows, stops>>
      BY <1>4 DEF PlaceUpload
    <2>3. /\ t \in Request /\ t.at = "sum"
          /\ t.id = r.id /\ t.item = r.item /\ t.name = r.name
      BY <1>2, SetType, SetFields DEF Places
    <2>4. files'[r.name].of = r.item /\ r.name \in DOMAIN files'
      BY <2>2 DEF Put
    <2>5. \A n \in DOMAIN files : n # r.name => n \in DOMAIN files' /\ files'[n] = files[n]
      BY <2>2 DEF Put
    <2> HIDE DEF t, b
    <2>6. Restaged
      BY <1>4, <2>1, LessStaged DEF RowsInv, TypeInv, TypeOK
    <2>7. r.id \in DOMAIN staged' => ~staged'[r.id].data
      BY <1>4, <2>1 DEF Keep, Without, RowsInv, TypeInv, TypeOK, Table, Stage
    <2>8. req'[p] = t /\ \A q \in Procs : q # p => req'[q] = req[q]
      BY <2>1 DEF Goto, RowsInv, TypeInv, TypeOK
    <2>9. ~Saves(t) /\ ~Saver(t) /\ Waiting(t)
      BY <1>3, <2>3 DEF Saves, Saver, Waiting
    <2>10. \A x : Saving(x)' = Saving(x)
      BY <1>3, <2>8, <2>9 DEF Saving, Busy, Saver
    <2>11. RowsHaveTheirBytes' /\ NamesDiffer' /\ StagedOnly'
      BY <1>3, <2>2, <2>5, <2>6, <2>10
         DEF RowsInv, RowsHaveTheirBytes, NamesDiffer, StagedOnly, Restaged
    <2>12. UploadOK(t, staged', files', rows)
      BY <1>3, <2>3, <2>4, <2>7, <2>9 DEF UploadOK
    <2>13. ASSUME NEW q \in Procs, q # p
           PROVE  UploadOK(req[q], staged', files', rows) /\ SaveOK(req[q], files', rows, stops)
      <3>1. Waiting(req[q]) => req[q].name # r.name
        BY <1>3, <2>13 DEF RowsInv, RequestsOK, Apart
      <3>2. Waiting(req[q]) => req[q].id \in Held
        BY DEF Waiting, Held, Busy
      <3>3. UploadOK(req[q], staged, files, rows) /\ SaveOK(req[q], files, rows, stops)
        BY DEF RowsInv, RequestsOK
      <3>4. UploadOK(req[q], staged', files', rows)
        BY <2>5, <2>6, <3>1, <3>2, <3>3 DEF UploadOK, Restaged
      <3>5. Saver(req[q]) => req[q].name # r.name /\ req[q].name \in DOMAIN files
        BY <1>3, <3>3 DEF SaveOK, RowsInv, RowsHaveTheirBytes
      <3>6. SaveOK(req[q], files', rows, stops)
        BY <2>5, <3>3, <3>5 DEF SaveOK
      <3> QED BY <3>4, <3>6
    <2>14. RequestsOK'
      <3>1. SaveOK(t, files', rows, stops)
        BY <2>9 DEF SaveOK
      <3>2. \A q \in Procs : /\ UploadOK(req'[q], staged', files', rows')
                             /\ SaveOK(req'[q], files', rows', stops')
        BY <2>2, <2>8, <2>12, <2>13, <3>1
      <3>3. \A q \in Procs : req'[q].at \in {"save_quota", "save_place", "save_row"} => Saves(req'[q])
        BY <2>3, <2>8 DEF RowsInv, RequestsOK
      <3>4. \A q, s \in Procs : q # s => Apart(req'[q], req'[s])
        BY <1>3, <2>3, <2>8, <2>9 DEF RowsInv, RequestsOK, Apart
      <3> QED BY <3>2, <3>3, <3>4 DEF RequestsOK
    <2> QED BY <1>1, <2>11, <2>14 DEF RowsInv
  <1>5. CASE ~(r.id \in DOMAIN staged /\ staged[r.id].data)
    <2>1. Goto(p, Idle) /\ Restaged /\ UNCHANGED <<files, rows, stops>>
      BY <1>5 DEF PlaceUpload, Restaged
    <2> QED BY <1>1, <1>3, <2>1, EndRows
  <1> QED BY <1>4, <1>5

LEMMA InsertRowRows ==
  ASSUME RowsInv, NEW p \in Procs, InsertRow(p)
  PROVE  RowsInv'
  <1> DEFINE r == req[p]
             t == Set(r, "at", "charge")
             e == [name |-> r.name, size |-> r.new, sum |-> r.sum]
  <1>1. TypeInv'
    BY InsertRowType DEF RowsInv
  <1>2. r \in Request /\ r.at = "insert"
    BY BusyType DEF InsertRow, RowsInv
  <1>3. /\ ~Saves(r) /\ ~Saver(r) /\ Waiting(r) /\ r.item \notin DOMAIN rows
        /\ \A x \in DOMAIN rows : rows[x].name # r.name
        /\ r.name \in DOMAIN files /\ files[r.name].of = r.item /\ files[r.name].sum = r.sum
        /\ r.id \in DOMAIN staged => ~staged[r.id].data
    BY <1>2 DEF RowsInv, RequestsOK, UploadOK, Waiting, Saver
  <1>4. rows' = Put(rows, r.item, e) /\ Goto(p, t) /\ UNCHANGED <<staged, files, stops>>
    BY <1>3 DEF InsertRow, Taken, Set
  <1>5. /\ DOMAIN rows' = DOMAIN rows \cup {r.item}
        /\ \A x \in DOMAIN rows : rows'[x] = rows[x]
        /\ rows'[r.item].name = r.name /\ rows'[r.item].sum = r.sum
    BY <1>3, <1>4 DEF Put
  <1>6. t \in Request /\ t.at = "charge" /\ t.id = r.id /\ t.item = r.item
    BY <1>2, SetType, SetFields DEF Places
  <1> HIDE DEF t, e
  <1>7. req'[p] = t /\ \A q \in Procs : q # p => req'[q] = req[q]
    BY <1>4 DEF Goto, RowsInv, TypeInv, TypeOK
  <1>8. ~Saver(t) /\ ~Waiting(t)
    BY <1>3, <1>6 DEF Saves, Saver, Waiting
  <1>9. \A x : Saving(x)' = Saving(x)
    BY <1>3, <1>7, <1>8 DEF Saving, Busy, Saver
  <1>10. r.id = r.item
    BY <1>3 DEF Saves
  <1>11. RowsHaveTheirBytes'
    BY <1>3, <1>4, <1>5, <1>9 DEF RowsInv, RowsHaveTheirBytes
  <1>12. NamesDiffer' /\ StagedOnly'
    BY <1>3, <1>4, <1>5, <1>10 DEF RowsInv, NamesDiffer, StagedOnly
  <1>13. ASSUME NEW q \in Procs, q # p
         PROVE  UploadOK(req[q], staged, files, rows') /\ SaveOK(req[q], files, rows', stops)
    <2>1. UploadOK(req[q], staged, files, rows) /\ SaveOK(req[q], files, rows, stops)
      BY DEF RowsInv, RequestsOK
    <2>2. Waiting(req[q]) => req[q].item # r.item /\ req[q].name # r.name
      BY <1>3, <1>13 DEF RowsInv, RequestsOK, Apart
    <2>3. UploadOK(req[q], staged, files, rows')
      BY <1>5, <2>1, <2>2 DEF UploadOK
    <2>4. SaveOK(req[q], files, rows', stops)
      BY <1>5, <2>1 DEF SaveOK
    <2> QED BY <2>3, <2>4
  <1>14. RequestsOK'
    <2>1. UploadOK(t, staged, files, rows') /\ SaveOK(t, files, rows', stops)
      BY <1>8 DEF UploadOK, SaveOK
    <2>2. \A q \in Procs : /\ UploadOK(req'[q], staged', files', rows')
                           /\ SaveOK(req'[q], files', rows', stops')
      BY <1>4, <1>7, <1>13, <2>1
    <2>3. \A q \in Procs : req'[q].at \in {"save_quota", "save_place", "save_row"} => Saves(req'[q])
      BY <1>6, <1>7 DEF RowsInv, RequestsOK
    <2>4. \A q, s \in Procs : q # s => Apart(req'[q], req'[s])
      BY <1>7, <1>8 DEF RowsInv, RequestsOK, Apart
    <2> QED BY <2>2, <2>3, <2>4 DEF RequestsOK
  <1> QED BY <1>1, <1>11, <1>12, <1>14 DEF RowsInv

LEMMA ChargeRows ==
  ASSUME RowsInv, NEW p \in Procs, Charge(p)
  PROVE  RowsInv'
  <1>1. TypeInv'
    BY ChargeType DEF RowsInv
  <1>2. Saver(req[p]) => files[req[p].name].sum = rows[req[p].item].sum
    BY DEF Charge, RowsInv, RequestsOK, SaveOK
  <1>3. Restaged
    BY DEF Charge, Restaged
  <1> QED BY <1>1, <1>2, <1>3, EndRows DEF Charge

LEMMA SaveRows ==
  ASSUME RowsInv, Overlaps = {}, NEW p \in Procs, NEW x \in Ids, NEW y \in Ids,
         NEW size \in Sizes, Save(p, x, y, size)
  PROVE  RowsInv'
  <1> DEFINE r == [at |-> "save_quota", id |-> y, item |-> x, name |-> rows[x].name,
                   was |-> rows[x].size, new |-> size, sum |-> y]
  <1>1. TypeInv'
    BY SaveType DEF RowsInv
  <1>2. x \in DOMAIN rows /\ y \notin DOMAIN rows /\ y \notin Held /\ Saving(x) = {}
    BY DEF Save, Fresh
  <1>3. Restaged
    BY <1>2 DEF Save, Put, Restaged
  <1>4. Goto(p, r) /\ ~Saver(req[p])
    BY DEF Save, Saver
  <1>5. r.at = "save_quota" /\ r.id = y /\ r.item = x /\ r.name = rows[x].name /\ r.sum = y
    OBVIOUS
  <1> HIDE DEF r
  <1>6. Saves(r) /\ ~Waiting(r)
    BY <1>2, <1>5 DEF Saves, Waiting
  <1>7. stops = 0 => files[rows[x].name].sum = rows[x].sum
    BY <1>2 DEF RowsInv, RowsHaveTheirBytes
  <1>8. SaveOK(r, files, rows, stops) /\ UploadOK(r, staged', files, rows)
    BY <1>2, <1>5, <1>6, <1>7 DEF SaveOK, UploadOK
  <1>9. \A q \in Procs : q # p => Apart(r, req[q])
    BY <1>2, <1>5, <1>6 DEF Apart, Saving, Busy, Saver
  <1> QED BY <1>1, <1>3, <1>4, <1>6, <1>8, <1>9, RequestMoves DEF Save

LEMMA CheckSaveRows ==
  ASSUME RowsInv, NEW p \in Procs, CheckSave(p)
  PROVE  RowsInv'
  <1> DEFINE r == req[p]
             t == Set(r, "at", "save_place")
  <1>1. TypeInv'
    BY CheckSaveType DEF RowsInv
  <1>2. r \in Request /\ r.at = "save_quota" /\ Saves(r) /\ Saver(r)
    BY BusyType DEF CheckSave, RowsInv, RequestsOK, Saver
  <1>3. SaveOK(r, files, rows, stops)
    BY DEF RowsInv, RequestsOK
  <1>4. CASE CheckQuota(Delta(r))
    <2>1. Goto(p, t) /\ Restaged
      BY <1>4 DEF CheckSave, Set, Restaged
    <2>2. /\ t \in Request /\ t.at = "save_place"
          /\ t.id = r.id /\ t.item = r.item /\ t.name = r.name /\ t.sum = r.sum
      BY <1>2, SetType, SetFields DEF Places
    <2> HIDE DEF t
    <2>3. Saves(t) /\ Saver(t) /\ ~Waiting(t)
      BY <1>2, <2>2 DEF Saves, Saver, Waiting
    <2>4. SaveOK(t, files, rows, stops) /\ UploadOK(t, staged', files, rows)
      BY <1>2, <1>3, <2>2, <2>3 DEF SaveOK, UploadOK
    <2>5. \A q \in Procs : q # p => Apart(t, req[q])
      BY <1>2, <2>2, <2>3 DEF RowsInv, RequestsOK, Apart
    <2> QED BY <1>1, <2>1, <2>2, <2>3, <2>4, <2>5, RequestMoves DEF CheckSave
  <1>5. CASE ~CheckQuota(Delta(r))
    <2>1. Goto(p, Idle) /\ Restaged
      BY <1>5 DEF CheckSave, Without, Restaged
    <2>2. stops > 0 \/ files[r.name].sum = rows[r.item].sum
      BY <1>2, <1>3 DEF SaveOK, RowsInv, TypeInv, TypeOK
    <2> QED BY <1>1, <2>1, <2>2, EndRows DEF CheckSave
  <1> QED BY <1>4, <1>5
\* The item and the file of a save are no other request's.
LEMMA OthersAreElsewhere ==
  ASSUME RowsInv, NEW p \in Procs, Saver(req[p]), NEW q \in Procs, q # p
  PROVE  /\ Waiting(req[q]) => req[q].item # req[p].item
         /\ Waiting(req[q]) /\ req[q].at # "name" => req[q].name # req[p].name
         /\ Saver(req[q]) => /\ req[q].item # req[p].item
                             /\ req[q].item \in DOMAIN rows
                             /\ req[q].name # req[p].name
                             /\ req[q].name \in DOMAIN files
  <1>1. req[p].item \in DOMAIN rows /\ req[p].name = rows[req[p].item].name
    BY DEF RowsInv, RequestsOK, SaveOK
  <1>2. UploadOK(req[q], staged, files, rows) /\ SaveOK(req[q], files, rows, stops)
    BY DEF RowsInv, RequestsOK
  <1>3. Apart(req[q], req[p])
    BY DEF RowsInv, RequestsOK
  <1>4. ASSUME Saver(req[q])
        PROVE  /\ req[q].item # req[p].item /\ req[q].item \in DOMAIN rows
               /\ req[q].name # req[p].name /\ req[q].name \in DOMAIN files
    BY <1>1, <1>2, <1>3, <1>4 DEF SaveOK, Apart, RowsInv, NamesDiffer, RowsHaveTheirBytes
  <1> QED BY <1>1, <1>2, <1>4 DEF UploadOK

LEMMA PlaceSaveRows ==
  ASSUME RowsInv, NEW p \in Procs, PlaceSave(p)
  PROVE  RowsInv'
  <1> DEFINE r == req[p]
             t == Set(r, "at", "save_row")
             b == [of |-> r.item, sum |-> r.id]
  <1>1. TypeInv'
    BY PlaceSaveType DEF RowsInv
  <1>2. r \in Request /\ r.at = "save_place" /\ Saves(r) /\ Saver(r)
    BY BusyType DEF PlaceSave, RowsInv, RequestsOK, Saver
  <1>3. /\ r.item \in DOMAIN rows /\ r.name = rows[r.item].name /\ r.sum = r.id
        /\ ~Waiting(r)
    BY <1>2 DEF RowsInv, RequestsOK, SaveOK
  <1>4. /\ Goto(p, t) /\ staged' = Without(staged, {r.id})
        /\ files' = Put(files, r.name, b) /\ UNCHANGED <<rows, stops>>
    BY DEF PlaceSave, Set
  <1>5. /\ r.name \in DOMAIN files' /\ files'[r.name].of = r.item /\ files'[r.name].sum = r.id
        /\ \A n \in DOMAIN files : n # r.name => n \in DOMAIN files' /\ files'[n] = files[n]
    BY <1>4 DEF Put
  <1>6. /\ t \in Request /\ t.at = "save_row" /\ t.id = r.id /\ t.item = r.item
        /\ t.name = r.name /\ t.sum = r.sum
    BY <1>2, SetType, SetFields DEF Places
  <1> HIDE DEF t, b
  <1>7. req'[p] = t /\ \A q \in Procs : q # p => req'[q] = req[q]
    BY <1>4 DEF Goto, RowsInv, TypeInv, TypeOK
  <1>8. Saves(t) /\ Saver(t) /\ ~Waiting(t)
    BY <1>2, <1>6 DEF Saves, Saver, Waiting
  <1>9. /\ \A x : Saving(x)' = Saving(x)
        /\ Saving(r.item) # {}
    BY <1>2, <1>6, <1>7, <1>8 DEF Saving, Busy, Saver
  <1>10. Restaged
    BY <1>4 DEF Without, Restaged
  <1>11. RowsHaveTheirBytes'
    <2>1. \A x \in DOMAIN rows : x # r.item => rows[x].name # r.name
      BY <1>3 DEF RowsInv, NamesDiffer
    <2> QED BY <1>3, <1>4, <1>5, <1>9, <2>1 DEF RowsInv, RowsHaveTheirBytes
  <1>12. NamesDiffer' /\ StagedOnly'
    BY <1>4, <1>10 DEF RowsInv, NamesDiffer, StagedOnly, Restaged
  <1>13. ASSUME NEW q \in Procs, q # p
         PROVE  UploadOK(req[q], staged', files', rows) /\ SaveOK(req[q], files', rows, stops)
    <2>1. UploadOK(req[q], staged, files, rows) /\ SaveOK(req[q], files, rows, stops)
      BY DEF RowsInv, RequestsOK
    <2>2. Waiting(req[q]) => req[q].id \in Held
      BY DEF Waiting, Held, Busy
    <2>3. Waiting(req[q]) /\ req[q].at # "name" => req[q].name # r.name
      BY <1>2, <1>13, OthersAreElsewhere
    <2>4. Saver(req[q]) => req[q].name # r.name /\ req[q].name \in DOMAIN files
      BY <1>2, <1>13, OthersAreElsewhere
    <2>5. UploadOK(req[q], staged', files', rows)
      BY <1>5, <1>10, <2>1, <2>2, <2>3 DEF UploadOK, Restaged
    <2>6. SaveOK(req[q], files', rows, stops)
      BY <1>5, <2>1, <2>4 DEF SaveOK
    <2> QED BY <2>5, <2>6
  <1>14. RequestsOK'
    <2>1. UploadOK(t, staged', files', rows) /\ SaveOK(t, files', rows, stops)
      BY <1>3, <1>5, <1>6, <1>8 DEF UploadOK, SaveOK
    <2>2. \A q \in Procs : /\ UploadOK(req'[q], staged', files', rows')
                           /\ SaveOK(req'[q], files', rows', stops')
      BY <1>4, <1>7, <1>13, <2>1
    <2>3. \A q \in Procs : req'[q].at \in {"save_quota", "save_place", "save_row"} => Saves(req'[q])
      BY <1>7, <1>8 DEF RowsInv, RequestsOK
    <2>4. \A q, s \in Procs : q # s => Apart(req'[q], req'[s])
      BY <1>2, <1>6, <1>7, <1>8 DEF RowsInv, RequestsOK, Apart
    <2> QED BY <2>2, <2>3, <2>4 DEF RequestsOK
  <1> QED BY <1>1, <1>11, <1>12, <1>14 DEF RowsInv

LEMMA UpdateRowRows ==
  ASSUME RowsInv, NEW p \in Procs, UpdateRow(p)
  PROVE  RowsInv'
  <1> DEFINE r == req[p]
             t == Set(r, "at", "charge")
             e == [rows[r.item] EXCEPT !.size = r.new, !.sum = r.sum]
  <1>1. TypeInv'
    BY UpdateRowType DEF RowsInv
  <1>2. r \in Request /\ r.at = "save_row" /\ Saves(r) /\ Saver(r)
    BY BusyType DEF UpdateRow, RowsInv, RequestsOK, Saver
  <1>3. /\ r.item \in DOMAIN rows /\ r.name = rows[r.item].name /\ ~Waiting(r)
        /\ files[r.name].sum = r.sum
    BY <1>2 DEF RowsInv, RequestsOK, SaveOK
  <1>4. Goto(p, t) /\ rows' = [rows EXCEPT ![r.item] = e] /\ UNCHANGED <<staged, files, stops>>
    BY <1>3 DEF UpdateRow, Set
  <1>5. e.name = rows[r.item].name /\ e.sum = r.sum
    <2>1. rows[r.item] \in Row
      BY <1>3 DEF RowsInv, TypeInv, TypeOK, Table
    <2> QED BY <2>1 DEF Row
  <1>6. /\ DOMAIN rows' = DOMAIN rows
        /\ \A x \in DOMAIN rows : rows'[x].name = rows[x].name
        /\ \A x \in DOMAIN rows : x # r.item => rows'[x] = rows[x]
        /\ rows'[r.item].sum = r.sum
    <2> HIDE DEF e
    <2> QED BY <1>3, <1>4, <1>5
  <1>7. /\ t \in Request /\ t.at = "charge" /\ t.id = r.id /\ t.item = r.item
        /\ t.name = r.name
    BY <1>2, SetType, SetFields DEF Places
  <1> HIDE DEF t, e
  <1>8. req'[p] = t /\ \A q \in Procs : q # p => req'[q] = req[q]
    BY <1>4 DEF Goto, RowsInv, TypeInv, TypeOK
  <1>9. Saves(t) /\ Saver(t) /\ ~Waiting(t)
    BY <1>2, <1>7 DEF Saves, Saver, Waiting
  <1>10. /\ \A x : Saving(x)' = Saving(x)
         /\ Saving(r.item) # {}
    BY <1>2, <1>7, <1>8, <1>9 DEF Saving, Busy, Saver
  <1>11. RowsHaveTheirBytes'
    BY <1>4, <1>6, <1>10 DEF RowsInv, RowsHaveTheirBytes
  <1>12. NamesDiffer' /\ StagedOnly'
    BY <1>4, <1>6 DEF RowsInv, NamesDiffer, StagedOnly
  <1>13. ASSUME NEW q \in Procs, q # p
         PROVE  UploadOK(req[q], staged, files, rows') /\ SaveOK(req[q], files, rows', stops)
    <2>1. UploadOK(req[q], staged, files, rows) /\ SaveOK(req[q], files, rows, stops)
      BY DEF RowsInv, RequestsOK
    <2>2. UploadOK(req[q], staged, files, rows')
      BY <1>6, <2>1 DEF UploadOK
    <2>3. Saver(req[q]) => req[q].item # r.item /\ req[q].item \in DOMAIN rows
      BY <1>2, <1>13, OthersAreElsewhere
    <2>4. SaveOK(req[q], files, rows', stops)
      BY <1>6, <2>1, <2>3 DEF SaveOK
    <2> QED BY <2>2, <2>4
  <1>14. RequestsOK'
    <2>1. UploadOK(t, staged, files, rows') /\ SaveOK(t, files, rows', stops)
      BY <1>3, <1>6, <1>7, <1>9 DEF UploadOK, SaveOK
    <2>2. \A q \in Procs : /\ UploadOK(req'[q], staged', files', rows')
                           /\ SaveOK(req'[q], files', rows', stops')
      BY <1>4, <1>8, <1>13, <2>1
    <2>3. \A q \in Procs : req'[q].at \in {"save_quota", "save_place", "save_row"} => Saves(req'[q])
      BY <1>7, <1>8 DEF RowsInv, RequestsOK
    <2>4. \A q, s \in Procs : q # s => Apart(req'[q], req'[s])
      BY <1>2, <1>7, <1>8, <1>9 DEF RowsInv, RequestsOK, Apart
    <2> QED BY <2>2, <2>3, <2>4 DEF RequestsOK
  <1> QED BY <1>1, <1>11, <1>12, <1>14 DEF RowsInv

LEMMA EraseRows ==
  ASSUME RowsInv, Overlaps = {}, NEW x \in Ids, Erase(x)
  PROVE  RowsInv'
  <1>1. TypeInv'
    BY EraseType DEF RowsInv
  <1>2. x \in DOMAIN rows /\ Saving(x) = {} /\ UNCHANGED <<staged, req, stops>>
    BY DEF Erase
  <1>3. /\ DOMAIN rows' = DOMAIN rows \ {x}
        /\ \A y \in DOMAIN rows' : rows'[y] = rows[y]
        /\ \A n \in DOMAIN files : n # rows[x].name => n \in DOMAIN files' /\ files'[n] = files[n]
    BY DEF Erase, Without
  <1>4. \A y \in DOMAIN rows : y # x => rows[y].name # rows[x].name
    BY <1>2 DEF RowsInv, NamesDiffer
  <1>5. RowsHaveTheirBytes'
    BY <1>2, <1>3, <1>4 DEF RowsInv, RowsHaveTheirBytes, Saving, Busy
  <1>6. NamesDiffer' /\ StagedOnly'
    BY <1>2, <1>3 DEF RowsInv, NamesDiffer, StagedOnly
  <1>7. ASSUME NEW q \in Procs
        PROVE  UploadOK(req[q], staged, files', rows') /\ SaveOK(req[q], files', rows', stops)
    <2>1. UploadOK(req[q], staged, files, rows) /\ SaveOK(req[q], files, rows, stops)
      BY DEF RowsInv, RequestsOK
    <2>2. UploadOK(req[q], staged, files', rows')
      BY <1>2, <1>3, <2>1 DEF UploadOK
    <2>3. Saver(req[q]) => req[q].item # x
      BY <1>2 DEF Saver, Saving, Busy
    <2>4. Saver(req[q]) => req[q].name \in DOMAIN files /\ req[q].name # rows[x].name
      BY <1>4, <2>1, <2>3 DEF SaveOK, RowsInv, RowsHaveTheirBytes
    <2>5. SaveOK(req[q], files', rows', stops)
      BY <1>3, <2>1, <2>3, <2>4 DEF SaveOK
    <2> QED BY <2>2, <2>5
  <1>8. RequestsOK'
    BY <1>2, <1>7 DEF RowsInv, RequestsOK
  <1> QED BY <1>1, <1>5, <1>6, <1>8 DEF RowsInv

LEMMA SweepRows ==
  ASSUME RowsInv, Sweep
  PROVE  RowsInv'
  <1>1. TypeInv' /\ Table(staged, Ids, Stage)
    BY SweepType DEF RowsInv, TypeInv, TypeOK
  <1>2. UNCHANGED <<files, rows, req, stops>>
    BY DEF Sweep, Collect, Look, RemoveInfo, RemoveBytes, CollectEnd
  <1>3. Restaged
    <2>1. CASE Collect \/ CollectEnd \/ \E x \in Ids : Look(x)
      BY <2>1 DEF Collect, CollectEnd, Look, Restaged
    <2>2. CASE RemoveInfo
      <3>1. CASE sweep.id \in DOMAIN staged
        <4> DEFINE d == staged[sweep.id].data
        <4>1. staged' = Keep(sweep.id, FALSE, d) /\ (d => staged[sweep.id].data)
          BY <2>2, <3>1 DEF RemoveInfo
        <4> HIDE DEF d
        <4> QED BY <1>1, <3>1, <4>1, LessStaged
      <3>2. CASE sweep.id \notin DOMAIN staged
        BY <2>2, <3>2 DEF RemoveInfo, Restaged
      <3> QED BY <3>1, <3>2
    <2>3. CASE RemoveBytes
      <3>1. CASE sweep.id \in DOMAIN staged
        BY <1>1, <2>3, <3>1, LessStaged DEF RemoveBytes, RemoveData
      <3>2. CASE sweep.id \notin DOMAIN staged
        BY <2>3, <3>2 DEF RemoveBytes, RemoveData, Restaged
      <3> QED BY <3>1, <3>2
    <2> QED BY <2>1, <2>2, <2>3 DEF Sweep
  <1> QED BY <1>1, <1>2, <1>3, StagingMoves

LEMMA StopRows ==
  ASSUME RowsInv, Stop
  PROVE  RowsInv'
  <1>1. TypeInv'
    BY StopType DEF RowsInv
  <1>2. stops' > 0 /\ UNCHANGED <<staged, files, rows>>
    BY DEF Stop, RowsInv, TypeInv, TypeOK
  <1>3. \A q \in Procs : req'[q] = Idle
    BY DEF Stop
  <1>4. RowsHaveTheirBytes' /\ NamesDiffer' /\ StagedOnly'
    BY <1>2 DEF RowsInv, RowsHaveTheirBytes, NamesDiffer, StagedOnly
  <1>5. ~Saver(Idle) /\ ~Waiting(Idle) /\ Idle.at = "idle"
    BY DEF Saver, Waiting, Idle
  <1>6. RequestsOK'
    BY <1>3, <1>5 DEF RequestsOK, UploadOK, SaveOK, Apart
  <1> QED BY <1>1, <1>4, <1>6 DEF RowsInv

LEMMA InitRows == Init => RowsInv
  <1> SUFFICES ASSUME Init PROVE RowsInv
    OBVIOUS
  <1>1. DOMAIN rows = {} /\ DOMAIN staged = {}
    BY DEF Init, Empty
  <1>2. \A q \in Procs : req[q] = Idle
    BY DEF Init
  <1>3. ~Saver(Idle) /\ ~Waiting(Idle) /\ Idle.at = "idle"
    BY DEF Saver, Waiting, Idle
  <1>4. RequestsOK
    BY <1>2, <1>3 DEF RequestsOK, UploadOK, SaveOK, Apart
  <1> QED BY <1>1, <1>4, InitType DEF RowsInv, RowsHaveTheirBytes, NamesDiffer, StagedOnly

LEMMA NextRows ==
  ASSUME RowsInv, Overlaps = {}, [Next]_vars
  PROVE  RowsInv'
  <1>1. ASSUME NEW x \in Ids, NEW name \in Names, NEW size \in Sizes, NEW deferred \in BOOLEAN,
               Post(x, name, size, deferred)
        PROVE  RowsInv'
    BY <1>1, PostRows
  <1>2. ASSUME NEW x \in Ids, Terminate(x) \/ Age(x) \/ Erase(x)
        PROVE  RowsInv'
    BY <1>2, TerminateRows, AgeRows, EraseRows
  <1>3. ASSUME NEW p \in Procs, NEW x \in Ids, Write(p, x)
        PROVE  RowsInv'
    BY <1>3, WriteRows
  <1>4. ASSUME NEW p \in Procs, NEW x \in Ids, NEW s \in Ids, NEW size \in Sizes,
               Save(p, x, s, size)
        PROVE  RowsInv'
    BY <1>4, SaveRows
  <1>5. ASSUME NEW p \in Procs, Step(p)
        PROVE  RowsInv'
    BY <1>5, ChooseNameRows, CheckUploadRows, PlaceUploadRows, ChecksumRows, InsertRowRows,
       CheckSaveRows, PlaceSaveRows, UpdateRowRows, ChargeRows DEF Step
  <1>6. CASE Sweep
    BY <1>6, SweepRows
  <1>7. CASE Stop
    BY <1>7, StopRows
  <1>8. CASE UNCHANGED vars
    <2>1. TypeInv'
      BY <1>8, NextType DEF RowsInv
    <2>2. Restaged /\ UNCHANGED <<files, rows, req, stops>>
      BY <1>8 DEF vars, Restaged
    <2> QED BY <2>1, <2>2, StagingMoves
  <1> QED BY <1>1, <1>2, <1>3, <1>4, <1>5, <1>6, <1>7, <1>8 DEF Next

\* When no upload is finished while another of its name has no row yet, and no
\* document is saved twice at a time or erased while it is saved, every item has
\* its bytes on disk, nobody else's, and while the server has not stopped and no
\* save of it is under way the checksum of these bytes.
THEOREM ItemsHaveTheirBytes ==
  ASSUME Overlaps = {}
  PROVE  Spec => []RowsHaveTheirBytes
  <1>1. RowsInv /\ [Next]_vars => RowsInv'
    BY NextRows
  <1>2. RowsInv => RowsHaveTheirBytes
    BY DEF RowsInv
  <1> QED BY <1>1, <1>2, InitRows, PTL DEF Spec

-----------------------------------------------------------------------------
(* How far the counter passes the quota.  A request that is past its check  *)
(* and brings bytes is still to add them; that the last one to pass found   *)
(* room for its own is what bounds the rest.                                *)

Bringing(r) ==
  /\ r.at \in {"place", "sum", "insert", "save_place", "save_row", "charge"}
  /\ Delta(r) > 0

Bringers == {p \in Procs : Bringing(req[p])}

Ceiling == Quota + (Cardinality(Procs) - 1) * MaxSize

Roomy ==
  \/ used + Cardinality(Bringers) * MaxSize <= Ceiling
  \/ \E p \in Bringers :
       used + Delta(req[p]) + (Cardinality(Bringers) - 1) * MaxSize <= Ceiling

LEMMA MaxSizeFacts ==
  /\ MaxSize \in Nat
  /\ \A s \in Sizes : s <= MaxSize
  /\ Cardinality(Procs) \in Nat /\ Cardinality(Procs) > 0
  /\ Ceiling \in Int
<1> DEFINE P == {T \in SUBSET Sizes : T # {} => \E x \in T : \A y \in T : y <= x}
<1>1. ASSUME NEW T \in SUBSET Sizes, \A x \in T : T \ {x} \in P
      PROVE  T \in P
  <2> SUFFICES ASSUME NEW c \in T PROVE \E x \in T : \A y \in T : y <= x
    OBVIOUS
  <2>1. CASE T \ {c} = {}
    BY <2>1, SizesAreNat
  <2>2. CASE T \ {c} # {}
    <3>1. PICK x \in T \ {c} : \A y \in T \ {c} : y <= x
      BY <1>1, <2>2
    <3>2. CASE c <= x
      BY <3>1, <3>2
    <3>3. CASE ~(c <= x)
      <4>1. \A y \in T : y <= c
        BY <3>1, <3>3, SizesAreNat
      <4> QED BY <4>1
    <3> QED BY <3>2, <3>3
  <2> QED BY <2>1, <2>2
<1> HIDE DEF P
<1>2. \A T \in SUBSET Sizes : (\A x \in T : T \ {x} \in P) => T \in P
  BY <1>1
<1>3. \A T \in SUBSET Sizes : T \in P
  BY ONLY <1>2, SizesHaveMax, RemovalInduction
<1>4. Sizes \in P
  BY <1>3
<1>5. \E x \in Sizes : \A y \in Sizes : y <= x
  BY <1>4, SizesHaveMax DEF P
<1>6. MaxSize \in Sizes /\ \A y \in Sizes : y <= MaxSize
  BY <1>5 DEF MaxSize, Max
<1>7. Cardinality(Procs) \in Nat /\ Cardinality(Procs) # 0
  BY ProcsFinite, FS_CardinalityType, FS_EmptySet
<1>8. MaxSize \in Nat
  BY <1>6, SizesAreNat
<1>9. (Cardinality(Procs) - 1) * MaxSize \in Int
  BY <1>7, <1>8
<1> QED BY <1>6, <1>7, <1>8, <1>9, SizesAreNat DEF Ceiling

\* What a request adds is at most the largest size.
LEMMA DeltaFacts ==
  ASSUME NEW r \in Request
  PROVE  Delta(r) \in Int /\ Delta(r) <= MaxSize /\ -MaxSize <= Delta(r)
<1>1. r.new \in Sizes \cup {0} /\ r.was \in Sizes \cup {0}
  BY DEF Request
<1>a. \A s \in Sizes \cup {0} : s \in Nat /\ s <= MaxSize
  BY MaxSizeFacts, SizesAreNat
<1>2. r.new \in Nat /\ r.was \in Nat /\ r.new <= MaxSize /\ r.was <= MaxSize
  BY <1>1, <1>a
<1> QED BY <1>2, MaxSizeFacts DEF Delta

LEMMA BringersFacts ==
  ASSUME TypeOK
  PROVE  /\ IsFiniteSet(Bringers) /\ Cardinality(Bringers) \in Nat
         /\ Cardinality(Bringers) <= Cardinality(Procs)
         /\ \A p \in Bringers : /\ p \in Procs
                                /\ Delta(req[p]) \in Int
                                /\ 0 < Delta(req[p]) /\ Delta(req[p]) <= MaxSize
<1>1. IsFiniteSet(Bringers) /\ Cardinality(Bringers) <= Cardinality(Procs)
  BY ProcsFinite, FS_Subset DEF Bringers
<1>2. ASSUME NEW p \in Bringers
      PROVE  /\ p \in Procs
             /\ Delta(req[p]) \in Int
             /\ 0 < Delta(req[p]) /\ Delta(req[p]) <= MaxSize
  <2>1. p \in Procs /\ req[p] \in Request /\ Delta(req[p]) > 0
    BY DEF Bringers, Bringing, TypeOK
  <2> QED BY <2>1, DeltaFacts
<1> QED BY <1>1, <1>2, FS_CardinalityType

LEMMA RoomIsBound ==
  ASSUME TypeOK, Roomy
  PROVE  OvershootIsBounded
<1> DEFINE n == Cardinality(Bringers)
<1>1. used \in Int /\ n \in Nat /\ MaxSize \in Nat /\ Ceiling \in Int
  BY BringersFacts, MaxSizeFacts DEF TypeOK
<1>2. CASE used + n * MaxSize <= Ceiling
  <2>1. n * MaxSize \in Nat
    BY <1>1
  <2> HIDE DEF n
  <2> QED BY <1>1, <1>2, <2>1 DEF OvershootIsBounded, Ceiling
<1>3. ASSUME NEW p \in Bringers, used + Delta(req[p]) + (n - 1) * MaxSize <= Ceiling
      PROVE  OvershootIsBounded
  <2>1. n # 0
    BY BringersFacts, FS_EmptySet
  <2>2. (n - 1) * MaxSize \in Nat
    BY <1>1, <2>1
  <2>3. Delta(req[p]) \in Int /\ 0 < Delta(req[p])
    BY BringersFacts
  <2> HIDE DEF n
  <2> QED BY <1>1, <1>3, <2>2, <2>3 DEF OvershootIsBounded, Ceiling
<1> QED BY <1>2, <1>3 DEF Roomy

LEMMA NotMore ==
  ASSUME NEW u \in Int, NEW v \in Int, v <= u, NEW i \in Int, NEW j \in Int, i <= j,
         NEW c \in Int, u + j <= c
  PROVE  v + i <= c
OBVIOUS

\* Where nothing is added and nobody passes a check.
LEMMA FewerBring ==
  ASSUME TypeOK, TypeOK', Roomy, used' <= used,
         \A p \in Procs : Bringing(req'[p]) => Bringing(req[p]) /\ Delta(req'[p]) = Delta(req[p])
  PROVE  Roomy'
<1> DEFINE B == Bringers
           C == {p \in Procs : Bringing(req'[p])}
           n == Cardinality(B)
           m == Cardinality(C)
<1>1. C \subseteq B /\ \A p \in C : Delta(req'[p]) = Delta(req[p])
  BY DEF Bringers
<1>2. IsFiniteSet(B) /\ n \in Nat /\ m \in Nat /\ m <= n
  BY <1>1, BringersFacts, FS_Subset, FS_CardinalityType
<1>3. /\ used \in Int /\ used' \in Int /\ used' <= used
      /\ MaxSize \in Nat /\ Ceiling \in Int
  BY MaxSizeFacts DEF TypeOK
<1>4. n * MaxSize \in Int /\ m * MaxSize \in Int /\ m * MaxSize <= n * MaxSize
  BY <1>2, <1>3, TimesGrows
<1>5. CASE used + n * MaxSize <= Ceiling
  <2>1. used' + m * MaxSize <= Ceiling
    <3> HIDE DEF n, m
    <3> QED BY <1>3, <1>4, <1>5
  <2> QED BY <2>1 DEF Roomy, Bringers, Ceiling
<1>6. ASSUME NEW p \in B, used + Delta(req[p]) + (n - 1) * MaxSize <= Ceiling
      PROVE  Roomy'
  <2>1. Delta(req[p]) \in Int /\ 0 < Delta(req[p])
    BY BringersFacts
  <2>2. CASE p \in C
    <3>1. (m - 1) * MaxSize <= (n - 1) * MaxSize
          /\ (m - 1) * MaxSize \in Int /\ (n - 1) * MaxSize \in Int
      BY <1>2, <1>3, TimesGrows
    <3>2. used' + Delta(req'[p]) + (m - 1) * MaxSize <= Ceiling
      <4>1. Delta(req'[p]) = Delta(req[p])
        BY <1>1, <2>2
      <4> DEFINE d == Delta(req[p])
                 i == (m - 1) * MaxSize
                 j == (n - 1) * MaxSize
      <4>2. used + d \in Int /\ used' + d \in Int /\ used' + d <= used + d
        BY <1>3, <2>1
      <4>3. i \in Int /\ j \in Int /\ i <= j /\ (used + d) + j <= Ceiling
        BY <1>6, <3>1
      <4> HIDE DEF d, i, j
      <4>4. (used' + d) + i <= Ceiling
        BY <1>3, <4>2, <4>3, NotMore
      <4> QED BY <4>1, <4>4 DEF d, i
    <3> QED BY <2>2, <3>2 DEF Roomy, Bringers, Ceiling
  <2>3. CASE p \notin C
    <3>1. m <= n - 1
      <4>1. C \subseteq B \ {p}
        BY <1>1, <2>3
      <4>2. IsFiniteSet(B \ {p}) /\ Cardinality(B \ {p}) = n - 1
        BY <1>2, FS_RemoveElement
      <4> QED BY <4>1, <4>2, FS_Subset
    <3>2. m * MaxSize <= (n - 1) * MaxSize /\ (n - 1) * MaxSize \in Int
      BY <1>2, <1>3, <3>1, TimesGrows
    <3>3. used' + m * MaxSize <= Ceiling
      <4> DEFINE d == Delta(req[p])
                 i == m * MaxSize
                 j == (n - 1) * MaxSize
      <4>1. used + d \in Int /\ used' <= used + d
        BY <1>3, <2>1
      <4>2. i \in Int /\ j \in Int /\ i <= j /\ (used + d) + j <= Ceiling
        BY <1>4, <1>6, <3>2
      <4> HIDE DEF d, i, j
      <4>3. used' + i <= Ceiling
        BY <1>3, <4>1, <4>2, NotMore
      <4> QED BY <4>3 DEF i
    <3> QED BY <3>3 DEF Roomy, Bringers, Ceiling
  <2> QED BY <2>2, <2>3
<1> QED BY <1>5, <1>6 DEF Roomy

\* A request that passes its check found room for what it brings.
LEMMA PassingBrings ==
  ASSUME TypeOK, TypeOK', Roomy, UNCHANGED used, NEW p \in Procs,
         \A q \in Procs : q # p => req'[q] = req[q],
         used + Delta(req'[p]) <= Quota
  PROVE  Roomy'
<1> DEFINE C == {q \in Procs : Bringing(req'[q])}
           m == Cardinality(C)
<1>1. CASE ~Bringing(req'[p])
  <2>1. \A q \in Procs : Bringing(req'[q]) =>
          Bringing(req[q]) /\ Delta(req'[q]) = Delta(req[q])
    BY <1>1
  <2>2. used' <= used
    BY DEF TypeOK
  <2> QED BY <2>1, <2>2, FewerBring
<1>2. CASE Bringing(req'[p])
  <2>1. IsFiniteSet(C) /\ m \in Nat /\ m <= Cardinality(Procs)
    BY ProcsFinite, FS_Subset, FS_CardinalityType
  <2>2. (m - 1) * MaxSize <= (Cardinality(Procs) - 1) * MaxSize
        /\ (m - 1) * MaxSize \in Int /\ (Cardinality(Procs) - 1) * MaxSize \in Int
    BY <2>1, MaxSizeFacts, TimesGrows
  <2>3. used \in Int /\ Delta(req'[p]) \in Int /\ Quota \in Int
    BY SizesAreNat, DeltaFacts DEF TypeOK
  <2> DEFINE d == Delta(req'[p])
             i == (m - 1) * MaxSize
             j == (Cardinality(Procs) - 1) * MaxSize
  <2>4. /\ used + d \in Int /\ used + d <= Quota /\ Quota \in Int /\ Quota + j \in Int
        /\ Quota + j <= Quota + j /\ i \in Int /\ j \in Int /\ i <= j
    BY <2>2, <2>3
  <2> HIDE DEF d, i, j
  <2>5. (used + d) + i <= Quota + j
    BY <2>4, NotMore
  <2>6. used' + d + i <= Ceiling'
    BY <2>5 DEF Ceiling, j
  <2> QED BY <1>2, <2>6 DEF Roomy, Bringers, Ceiling, d, i
<1> QED BY <1>1, <1>2

LEMMA ChargedBrings ==
  ASSUME TypeOK, TypeOK', Roomy, NEW p \in Procs, Charge(p)
  PROVE  Roomy'
<1> DEFINE B == Bringers
           C == {q \in Procs : Bringing(req'[q])}
           n == Cardinality(B)
           m == Cardinality(C)
           d == Delta(req[p])
<1>1. req'[p] = Idle /\ \A q \in Procs : q # p => req'[q] = req[q]
  BY DEF Charge, Goto, TypeOK
<1>2. ~Bringing(Idle) /\ used' = used + d /\ req[p].at = "charge"
  BY DEF Charge, Bringing, Idle
<1>3. used \in Int /\ used' \in Int /\ MaxSize \in Nat /\ Ceiling \in Int
      /\ d \in Int /\ d <= MaxSize
  BY MaxSizeFacts, DeltaFacts DEF TypeOK
<1>4. CASE p \notin B
  <2>1. d <= 0
    BY <1>2, <1>3, <1>4 DEF Bringers, Bringing
  <2>2. used' <= used
    <3> HIDE DEF d
    <3> QED BY <1>2, <1>3, <2>1
  <2>3. \A q \in Procs : Bringing(req'[q]) =>
          Bringing(req[q]) /\ Delta(req'[q]) = Delta(req[q])
    BY <1>1, <1>2
  <2> QED BY <2>2, <2>3, FewerBring
<1>5. CASE p \in B
  <2>1. C = B \ {p}
    BY <1>1, <1>2 DEF Bringers
  <2>2. IsFiniteSet(B) /\ n \in Nat /\ m = n - 1 /\ m \in Nat
    BY <1>5, <2>1, BringersFacts, FS_RemoveElement, FS_CardinalityType
  <2>3. /\ (n - 1) * MaxSize \in Int /\ (m - 1) * MaxSize \in Int
        /\ (m - 1) * MaxSize + MaxSize = m * MaxSize
        /\ m * MaxSize + MaxSize = n * MaxSize
    <3>1. (m - 1) * MaxSize \in Int /\ ((m - 1) + 1) * MaxSize = (m - 1) * MaxSize + MaxSize
      BY <1>3, <2>2, TimesGrows
    <3>2. m * MaxSize \in Int /\ (m + 1) * MaxSize = m * MaxSize + MaxSize
      BY <1>3, <2>2, TimesGrows
    <3>3. (m - 1) + 1 = m /\ m + 1 = n
      BY <2>2
    <3> HIDE DEF m, n
    <3> QED BY <2>2, <3>1, <3>2, <3>3
  <2>4. CASE used + n * MaxSize <= Ceiling
    <3> DEFINE i == m * MaxSize
    <3>1. i \in Int /\ used + (i + MaxSize) <= Ceiling
      BY <1>3, <2>2, <2>3, <2>4
    <3> HIDE DEF d, i
    <3>2. used' + i <= Ceiling
      BY <1>2, <1>3, <3>1
    <3> QED BY <3>2 DEF Roomy, Bringers, Ceiling, i
  <2>5. ASSUME NEW q \in B, used + Delta(req[q]) + (n - 1) * MaxSize <= Ceiling, q = p
        PROVE  Roomy'
    <3>1. used' + m * MaxSize <= Ceiling
      BY <1>2, <2>2, <2>5
    <3> QED BY <3>1 DEF Roomy, Bringers, Ceiling
  <2>6. ASSUME NEW q \in B, used + Delta(req[q]) + (n - 1) * MaxSize <= Ceiling, q # p
        PROVE  Roomy'
    <3>1. q \in C /\ req'[q] = req[q]
      BY <1>1, <2>1, <2>6 DEF Bringers
    <3> DEFINE e == Delta(req[q])
               i == (m - 1) * MaxSize
    <3>2. i \in Int /\ e \in Int /\ used + e + (i + MaxSize) <= Ceiling
      BY <1>3, <2>2, <2>3, <2>6, BringersFacts
    <3> HIDE DEF d, e, i
    <3>3. used' + e + i <= Ceiling
      BY <1>2, <1>3, <3>2
    <3>4. used' + Delta(req'[q]) + (m - 1) * MaxSize <= Ceiling
      BY <3>1, <3>3 DEF e, i
    <3> QED BY <3>1, <3>4 DEF Roomy, Bringers, Ceiling
  <2> QED BY <2>4, <2>5, <2>6 DEF Roomy
<1> QED BY <1>4, <1>5

\* A request that goes on to where it brings nothing, or has brought it before.
LEMMA GoesOnBrings ==
  ASSUME TypeOK, TypeOK', Roomy, UNCHANGED used, NEW p \in Procs, NEW r, Goto(p, r),
         Bringing(r) => Bringing(req[p]) /\ r.was = req[p].was /\ r.new = req[p].new
  PROVE  Roomy'
<1>1. req'[p] = r /\ \A q \in Procs : q # p => req'[q] = req[q]
  BY DEF Goto, TypeOK
<1>2. \A q \in Procs : Bringing(req'[q]) =>
        Bringing(req[q]) /\ Delta(req'[q]) = Delta(req[q])
  BY <1>1 DEF Delta
<1>3. used' <= used
  BY DEF TypeOK
<1> QED BY <1>2, <1>3, FewerBring

LEMMA StepBrings ==
  ASSUME TypeOK, TypeOK', Roomy, NEW p \in Procs, Step(p)
  PROVE  Roomy'
<1> DEFINE r == req[p]
<1>0. r \in Request
  BY DEF TypeOK
<1>a. ~Bringing(Idle)
  BY DEF Bringing, Idle
<1>1. CASE ChooseName(p)
  <2>1. Goto(p, [r EXCEPT !.at = "quota", !.name = UniqueName(r.name)]) /\ UNCHANGED used
    BY <1>1 DEF ChooseName
  <2>2. [r EXCEPT !.at = "quota", !.name = UniqueName(r.name)].at = "quota"
    BY <1>0 DEF Request
  <2> QED BY <2>1, <2>2, GoesOnBrings DEF Bringing
<1>2. CASE CheckUpload(p)
  <2>1. CASE Fits(r)
    <3> DEFINE t == [r EXCEPT !.at = "place"]
    <3>1. Goto(p, t) /\ UNCHANGED used
      BY <1>2, <2>1 DEF CheckUpload
    <3>2. req'[p] = t /\ \A q \in Procs : q # p => req'[q] = req[q]
      BY <3>1 DEF Goto, TypeOK
    <3>3. t.new = r.new /\ t.was = r.was
      BY <1>0 DEF Request
    <3>4. used \in Int /\ Quota \in Int /\ r.new \in Nat /\ r.was \in Nat
      <4>1. r.new \in Sizes \cup {0} /\ r.was \in Sizes \cup {0}
        BY <1>0 DEF Request
      <4>2. Sizes \cup {0} \subseteq Nat
        BY SizesAreNat
      <4>3. r.new \in Nat /\ r.was \in Nat
        BY ONLY <4>1, <4>2
      <4>4. used \in Int /\ Quota \in Int
        BY SizesAreNat DEF TypeOK
      <4> QED BY <4>3, <4>4
    <3>5. used + r.new <= Quota
      BY <2>1 DEF Fits, CheckQuota
    <3>6. Delta(req'[p]) = r.new - r.was
      BY <3>2, <3>3 DEF Delta
    <3> DEFINE i == r.new
               j == r.was
    <3>7. used + (i - j) <= Quota
      <4>1. i \in Nat /\ j \in Nat /\ used + i <= Quota
        BY <3>4, <3>5
      <4> HIDE DEF i, j
      <4> QED BY <3>4, <4>1
    <3>8. used + Delta(req'[p]) <= Quota
      BY <3>6, <3>7
    <3> QED BY <3>1, <3>2, <3>8, PassingBrings
  <2>2. CASE ~Fits(r)
    <3>1. Goto(p, Idle) /\ UNCHANGED used
      BY <1>2, <2>2 DEF CheckUpload
    <3> QED BY <1>a, <3>1, GoesOnBrings
  <2> QED BY <2>1, <2>2
\* Places past the check, one after the other.
<1>3. ASSUME NEW a \in Places, NEW v \in Ids \cup {Nil},
             Goto(p, [r EXCEPT !.at = a, !.sum = v]) \/ Goto(p, [r EXCEPT !.at = a]) \/ Goto(p, Idle),
             r.at \in {"place", "sum", "insert", "save_place", "save_row", "charge"},
             UNCHANGED used
      PROVE  Roomy'
  <2>1. ASSUME NEW t, t = [r EXCEPT !.at = a, !.sum = v] \/ t = [r EXCEPT !.at = a]
        PROVE  t.was = r.was /\ t.new = r.new
    BY <1>0, <2>1 DEF Request
  <2>2. ASSUME NEW t, t = [r EXCEPT !.at = a, !.sum = v] \/ t = [r EXCEPT !.at = a], Goto(p, t)
        PROVE  Roomy'
    <3>1. Bringing(t) => Bringing(r)
      BY <1>3, <2>1, <2>2 DEF Bringing, Delta
    <3> QED BY <1>3, <2>1, <2>2, <3>1, GoesOnBrings
  <2>3. CASE Goto(p, Idle)
    BY <1>3, <1>a, <2>3, GoesOnBrings
  <2> QED BY <1>3, <2>2, <2>3
<1>4. CASE PlaceUpload(p)
  BY <1>3, <1>4 DEF PlaceUpload, Places
<1>5. CASE Checksum(p)
  <2>1. CASE r.name \in DOMAIN files
    <3>1. files[r.name].sum \in Ids
      BY <2>1 DEF TypeOK, Table, Bytes
    <3>2. Goto(p, [r EXCEPT !.at = "insert", !.sum = files[r.name].sum])
      BY <1>5, <2>1 DEF Checksum
    <3> QED BY <1>3, <1>5, <3>1, <3>2 DEF Checksum, Places
  <2>2. CASE r.name \notin DOMAIN files
    BY <1>3, <1>5, <2>2 DEF Checksum, Places
  <2> QED BY <2>1, <2>2
<1>6. CASE InsertRow(p)
  BY <1>3, <1>6 DEF InsertRow, Places
<1>7. CASE CheckSave(p)
  <2>1. CASE CheckQuota(Delta(r))
    <3> DEFINE t == [r EXCEPT !.at = "save_place"]
    <3>1. Goto(p, t) /\ UNCHANGED used
      BY <1>7, <2>1 DEF CheckSave
    <3>2. req'[p] = t /\ \A q \in Procs : q # p => req'[q] = req[q]
      BY <3>1 DEF Goto, TypeOK
    <3>3. t.new = r.new /\ t.was = r.was
      BY <1>0 DEF Request
    <3>4. Delta(req'[p]) = Delta(r)
      BY <3>2, <3>3 DEF Delta
    <3>5. used + Delta(req'[p]) <= Quota
      BY <2>1, <3>4 DEF CheckQuota
    <3> QED BY <3>1, <3>2, <3>5, PassingBrings
  <2>2. CASE ~CheckQuota(Delta(r))
    <3>1. Goto(p, Idle) /\ UNCHANGED used
      BY <1>7, <2>2 DEF CheckSave
    <3> QED BY <1>a, <3>1, GoesOnBrings
  <2> QED BY <2>1, <2>2
<1>8. CASE PlaceSave(p)
  BY <1>3, <1>8 DEF PlaceSave, Places
<1>9. CASE UpdateRow(p)
  BY <1>3, <1>9 DEF UpdateRow, Places
<1>10. CASE Charge(p)
  BY <1>10, ChargedBrings
<1> QED BY <1>1, <1>2, <1>4, <1>5, <1>6, <1>7, <1>8, <1>9, <1>10 DEF Step

LEMMA NextBrings ==
  ASSUME TypeOK, TypeOK', Roomy, [Next]_vars
  PROVE  Roomy'
<1>1. ASSUME UNCHANGED req, used' <= used PROVE Roomy'
  BY <1>1, FewerBring
<1>2. ASSUME UNCHANGED <<req, used>> PROVE Roomy'
  BY <1>1, <1>2 DEF TypeOK
<1>3. ~Bringing(Idle)
  BY DEF Bringing, Idle
<1>4. ASSUME NEW x \in Ids, NEW name \in Names, NEW size \in Sizes, NEW deferred \in BOOLEAN,
             Post(x, name, size, deferred)
      PROVE  Roomy'
  BY <1>2, <1>4 DEF Post
<1>5. ASSUME NEW x \in Ids, Terminate(x) \/ Age(x) PROVE Roomy'
  BY <1>2, <1>5 DEF Terminate, Age
<1>6. ASSUME NEW x \in Ids, Erase(x) PROVE Roomy'
  <2>1. rows[x].size \in Sizes /\ used' = used - rows[x].size /\ UNCHANGED req
    BY <1>6 DEF Erase, TypeOK, Table, Row
  <2>2. rows[x].size \in Nat /\ used \in Int
    BY <2>1, SizesAreNat DEF TypeOK
  <2> QED BY <1>1, <2>1, <2>2
<1>7. ASSUME NEW p \in Procs, NEW x \in Ids, Write(p, x) PROVE Roomy'
  <2>1. CASE UNCHANGED req
    BY <1>2, <1>7, <2>1 DEF Write
  <2> DEFINE r == [at |-> "name", id |-> x, item |-> x, name |-> <<staged[x].name, 0>>,
                   was |-> 0, new |-> staged[x].size, sum |-> Nil]
  <2>2. CASE Goto(p, r)
    <3>1. ~Bringing(r) /\ UNCHANGED used
      BY <1>7 DEF Bringing, Write
    <3> QED BY <2>2, <3>1, GoesOnBrings
  <2> QED BY <1>7, <2>1, <2>2 DEF Write
<1>8. ASSUME NEW p \in Procs, NEW x \in Ids, NEW s \in Ids, NEW size \in Sizes,
             Save(p, x, s, size)
      PROVE  Roomy'
  <2> DEFINE r == [at |-> "save_quota", id |-> s, item |-> x, name |-> rows[x].name,
                   was |-> rows[x].size, new |-> size, sum |-> s]
  <2>1. Goto(p, r) /\ UNCHANGED used
    BY <1>8 DEF Save
  <2>2. ~Bringing(r)
    BY DEF Bringing
  <2> QED BY <2>1, <2>2, GoesOnBrings
<1>9. ASSUME NEW p \in Procs, Step(p) PROVE Roomy'
  BY <1>9, StepBrings
<1>10. CASE Sweep
  BY <1>2, <1>10 DEF Sweep, Collect, Look, RemoveInfo, RemoveBytes, CollectEnd
<1>11. CASE Stop
  <2>1. \A q \in Procs : req'[q] = Idle
    BY <1>11 DEF Stop
  <2>2. used' <= used
    BY <1>11 DEF Stop, TypeOK
  <2> QED BY <1>3, <2>1, <2>2, FewerBring
<1>12. CASE UNCHANGED vars
  BY <1>2, <1>12 DEF vars
<1> QED BY <1>4, <1>5, <1>6, <1>7, <1>8, <1>9, <1>10, <1>11, <1>12 DEF Next

LEMMA InitRoom == Init => Roomy
<1> SUFFICES ASSUME Init PROVE Roomy
  OBVIOUS
<1>1. Bringers = {}
  BY DEF Init, Bringers, Bringing, Idle
<1>2. used = 0 /\ Cardinality(Bringers) = 0
  BY <1>1, FS_EmptySet DEF Init
<1>3. (Cardinality(Procs) - 1) * MaxSize \in Nat
  BY MaxSizeFacts
<1> QED BY <1>2, <1>3, MaxSizeFacts, SizesAreNat DEF Roomy, Ceiling

\* The storage counter passes the quota by what all but one of the requests under
\* way can bring, and never by more, for any number of requests, whatever of
\* Habits overlaps and wherever the server stops: each request checks and adds in
\* two steps, but the last of them to check has seen all that was added before.
THEOREM OvershootStaysBounded == Spec => []OvershootIsBounded
<1>1. TypeInv => TypeOK
  BY DEF TypeInv
<1>2. Init => TypeInv /\ Roomy
  BY InitType, InitRoom
<1>3. TypeInv /\ Roomy /\ [Next]_vars => TypeInv' /\ Roomy'
  BY NextType, NextBrings DEF TypeInv
<1>4. TypeInv /\ Roomy => OvershootIsBounded
  BY RoomIsBound DEF TypeInv
<1> QED BY <1>2, <1>3, <1>4, PTL DEF Spec

-----------------------------------------------------------------------------
(* How far the counter is from the sizes of the items.  What requests at    *)
(* "charge" are still to add is counted with it.                            *)

SizesIn(rs) == [x \in DOMAIN rs |-> rs[x].size]

Total(rs) == SumFunctionOnSet(SizesIn(rs), DOMAIN rs)

Owes(r) == IF r.at = "charge" THEN Delta(r) ELSE 0

Pending(rq) == SumFunctionOnSet([p \in Procs |-> Owes(rq[p])], Procs)

Lost == stops * Cardinality(Procs) * MaxSize

Balanced == used + Pending(req) - Total(rows) \in (-Lost)..Lost

\* Until it changes the row, a save knows what size the item has.
Tracked ==
  \A p \in Procs :
    /\ Waiting(req[p]) => req[p].was = 0
    /\ req[p].at \in {"save_quota", "save_place", "save_row"} =>
         rows[req[p].item].size = req[p].was

BooksInv == RowsInv /\ Balanced /\ Tracked

LEMMA OwesFacts ==
  ASSUME NEW r \in Request
  PROVE  Owes(r) \in Int /\ -MaxSize <= Owes(r) /\ Owes(r) <= MaxSize
<1>1. MaxSize \in Nat
  BY MaxSizeFacts
<1> QED BY <1>1, DeltaFacts DEF Owes

LEMMA PendingIsInt ==
  ASSUME NEW rq \in [Procs -> Request]
  PROVE  /\ Pending(rq) \in Int
         /\ Pending(rq) <= Cardinality(Procs) * MaxSize
         /\ -(Cardinality(Procs) * MaxSize) <= Pending(rq)
<1> DEFINE f == [p \in Procs |-> Owes(rq[p])]
<1>1. \A p \in Procs : f[p] \in Int /\ -MaxSize <= f[p] /\ f[p] <= MaxSize
  BY OwesFacts
<1>2. MaxSize \in Nat /\ IsFiniteSet(Procs)
  BY MaxSizeFacts, ProcsFinite
<1>3. \A p \in Procs : f[p] \in Int
  BY <1>1
<1> HIDE DEF f
<1>4. SumFunctionOnSet(f, Procs) \in Int
  BY <1>2, <1>3, SumIsInt
<1>5. /\ SumFunctionOnSet(f, Procs) <= Cardinality(Procs) * MaxSize
      /\ -(Cardinality(Procs) * MaxSize) <= SumFunctionOnSet(f, Procs)
  BY <1>1, <1>2, SumBounded
<1> QED BY <1>4, <1>5 DEF Pending, f

\* When no request is under way, none is to add anything.
LEMMA NothingPending ==
  ASSUME NEW rq \in [Procs -> Request], \A p \in Procs : rq[p].at # "charge"
  PROVE  Pending(rq) = 0
<1> DEFINE f == [p \in Procs |-> Owes(rq[p])]
<1>1. \A p \in Procs : f[p] = 0
  BY DEF Owes
<1>2. 0 \in Nat /\ IsFiniteSet(Procs) /\ \A p \in Procs : f[p] \in Int /\ -0 <= f[p] /\ f[p] <= 0
  BY <1>1, ProcsFinite
<1>3. \A p \in Procs : f[p] \in Int
  BY <1>1
<1> HIDE DEF f
<1>4. SumFunctionOnSet(f, Procs) \in Int
  BY <1>2, <1>3, SumIsInt
<1>5. /\ SumFunctionOnSet(f, Procs) <= Cardinality(Procs) * 0
      /\ -(Cardinality(Procs) * 0) <= SumFunctionOnSet(f, Procs)
  BY <1>2, SumBounded
<1>6. Cardinality(Procs) * 0 = 0
  BY MaxSizeFacts
<1>7. SumFunctionOnSet(f, Procs) = 0
  BY <1>4, <1>5, <1>6
<1> QED BY <1>7 DEF Pending, f

LEMMA PendingMoves ==
  ASSUME NEW rq \in [Procs -> Request], NEW p \in Procs, NEW r \in Request,
         NEW rs, rs = [rq EXCEPT ![p] = r]
  PROVE  Pending(rs) = Pending(rq) - Owes(rq[p]) + Owes(r)
<1> DEFINE f == [q \in Procs |-> Owes(rq[q])]
           g == [q \in Procs |-> Owes(rs[q])]
           Q == Procs \ {p}
<1>1. rs \in [Procs -> Request] /\ rs[p] = r /\ \A q \in Q : rs[q] = rq[q]
  OBVIOUS
<1>2. /\ \A q \in Procs : f[q] \in Int /\ g[q] \in Int
      /\ \A q \in Q : f[q] = g[q]
      /\ f[p] = Owes(rq[p]) /\ g[p] = Owes(r)
  BY <1>1, OwesFacts
<1>3. IsFiniteSet(Procs) /\ IsFiniteSet(Q) /\ Q \subseteq Procs
  BY ProcsFinite, FS_Subset
<1> HIDE DEF f, g
<1>4. SumFunctionOnSet(f, Procs) = f[p] + SumFunctionOnSet(f, Q)
  BY <1>2, <1>3, SumSplits
<1>5. SumFunctionOnSet(g, Procs) = g[p] + SumFunctionOnSet(g, Q)
  BY <1>2, <1>3, SumSplits
<1>6. SumFunctionOnSet(f, Q) = SumFunctionOnSet(g, Q)
  BY <1>2, <1>3, SumSame
<1>7. SumFunctionOnSet(f, Q) \in Int
  BY <1>2, <1>3, SumIsInt
<1>8. SumFunctionOnSet(g, Procs) = SumFunctionOnSet(f, Procs) - f[p] + g[p]
  BY <1>2, <1>3, <1>4, <1>5, <1>6, <1>7
<1> QED BY <1>2, <1>8 DEF Pending, f, g

IsTable(rs) == Table(rs, Ids, Row) /\ IsFiniteSet(DOMAIN rs)

LEMMA SizesFacts ==
  ASSUME NEW rs, IsTable(rs)
  PROVE  /\ \A x \in DOMAIN rs : SizesIn(rs)[x] = rs[x].size /\ SizesIn(rs)[x] \in Int
         /\ Total(rs) \in Int
<1>1. \A x \in DOMAIN rs : SizesIn(rs)[x] = rs[x].size /\ rs[x].size \in Sizes
  BY DEF IsTable, Table, Row, SizesIn
<1>a. \A s \in Sizes : s \in Int
  BY SizesAreNat
<1>2. \A x \in DOMAIN rs : SizesIn(rs)[x] \in Int
  BY <1>1, <1>a
<1> QED BY <1>1, <1>2, SumIsInt DEF Total, IsTable

LEMMA TotalSplits ==
  ASSUME NEW rs, IsTable(rs), NEW x \in DOMAIN rs
  PROVE  Total(rs) = rs[x].size + SumFunctionOnSet(SizesIn(rs), DOMAIN rs \ {x})
BY SizesFacts, SumSplits DEF Total, IsTable

\* Tables that agree but for the item x.
LEMMA TotalElsewhere ==
  ASSUME NEW rs, IsTable(rs), NEW ts, IsTable(ts), NEW S, S \subseteq DOMAIN rs,
         S \subseteq DOMAIN ts, \A y \in S : ts[y].size = rs[y].size
  PROVE  /\ SumFunctionOnSet(SizesIn(ts), S) = SumFunctionOnSet(SizesIn(rs), S)
         /\ SumFunctionOnSet(SizesIn(rs), S) \in Int
<1>1. IsFiniteSet(S)
  BY FS_Subset DEF IsTable
<1>2. \A y \in S : SizesIn(rs)[y] \in Int /\ SizesIn(rs)[y] = SizesIn(ts)[y]
  BY SizesFacts
<1> QED BY <1>1, <1>2, SumSame, SumIsInt

LEMMA TotalLess ==
  ASSUME NEW rs, IsTable(rs), NEW x \in DOMAIN rs, NEW ts, IsTable(ts),
         DOMAIN ts = DOMAIN rs \ {x}, \A y \in DOMAIN ts : ts[y].size = rs[y].size
  PROVE  Total(rs) = rs[x].size + Total(ts)
<1>1. SumFunctionOnSet(SizesIn(ts), DOMAIN ts) = SumFunctionOnSet(SizesIn(rs), DOMAIN ts)
  BY TotalElsewhere
<1> QED BY <1>1, TotalSplits DEF Total

LEMMA TotalChanges ==
  ASSUME NEW rs, IsTable(rs), NEW x \in DOMAIN rs, NEW ts, IsTable(ts),
         DOMAIN ts = DOMAIN rs, \A y \in DOMAIN ts \ {x} : ts[y].size = rs[y].size
  PROVE  Total(ts) = Total(rs) + ts[x].size - rs[x].size
<1> DEFINE S == DOMAIN rs \ {x}
<1>1. /\ SumFunctionOnSet(SizesIn(ts), S) = SumFunctionOnSet(SizesIn(rs), S)
      /\ SumFunctionOnSet(SizesIn(rs), S) \in Int
  BY TotalElsewhere
<1>2. /\ Total(rs) = rs[x].size + SumFunctionOnSet(SizesIn(rs), S)
      /\ Total(ts) = ts[x].size + SumFunctionOnSet(SizesIn(ts), S)
  BY TotalSplits
<1>3. rs[x].size \in Int /\ ts[x].size \in Int
  BY SizesFacts
<1> HIDE DEF S
<1> QED BY <1>1, <1>2, <1>3

\* A step keeps the balance when it changes the counter, what is pending and the
\* items alike.
LEMMA BalanceKept ==
  ASSUME RowsInv, RowsInv', Balanced, UNCHANGED stops,
         used' + Pending(req') - Total(rows') = used + Pending(req) - Total(rows)
  PROVE  Balanced'
BY DEF Balanced, Lost

LEMMA TablesNow == ASSUME RowsInv PROVE IsTable(rows)
BY DEF RowsInv, TypeInv, TypeOK, IsTable

LEMMA SumsAreInt ==
  ASSUME RowsInv
  PROVE  used \in Int /\ Pending(req) \in Int /\ Total(rows) \in Int
BY TablesNow, SizesFacts, PendingIsInt DEF RowsInv, TypeInv, TypeOK

\* A request that goes on, to where it owes as much as before.
LEMMA GoesOnBalanced ==
  ASSUME RowsInv, RowsInv', Balanced, UNCHANGED <<used, rows, stops>>,
         NEW p \in Procs, NEW r, Goto(p, r), Owes(r) = Owes(req[p])
  PROVE  Balanced'
<1>1. req \in [Procs -> Request] /\ req' \in [Procs -> Request] /\ req' = [req EXCEPT ![p] = r]
  BY DEF Goto, RowsInv, TypeInv, TypeOK
<1>2. r \in Request /\ req[p] \in Request
  BY <1>1
<1>3. Pending(req') = Pending(req) - Owes(req[p]) + Owes(r)
  <2>1. \A rq \in [Procs -> Request] : \A rs : rs = [rq EXCEPT ![p] = r] =>
          Pending(rs) = Pending(rq) - Owes(rq[p]) + Owes(r)
    BY ONLY p \in Procs, <1>2, PendingMoves
  <2> QED BY <1>1, <2>1
<1>4. Pending(req') = Pending(req)
  BY <1>2, <1>3, OwesFacts, SumsAreInt
<1> QED BY <1>4, BalanceKept

\* A save that goes on to another place before its update, and an upload that
\* goes on to another one before its row.
LEMMA GoesOnTracked ==
  ASSUME RowsInv, Tracked, UNCHANGED rows, NEW p \in Procs, NEW r, Goto(p, r),
         /\ Waiting(r) => r.was = 0
         /\ r.at \in {"save_quota", "save_place", "save_row"} => rows[r.item].size = r.was
  PROVE  Tracked'
BY DEF Tracked, Goto, RowsInv, TypeInv, TypeOK

LEMMA IdleBalanced ==
  ASSUME RowsInv, RowsInv', Balanced, Tracked, UNCHANGED <<used, rows, stops>>,
         NEW p \in Procs, req[p].at # "charge", Goto(p, Idle)
  PROVE  Balanced' /\ Tracked'
<1>1. Owes(Idle) = Owes(req[p]) /\ ~Waiting(Idle) /\ Idle.at = "idle"
  BY DEF Owes, Idle, Waiting
<1> QED BY <1>1, GoesOnBalanced, GoesOnTracked

\* A request moved on without its item, its size before or its size to come.
LEMMA OnwardBalanced ==
  ASSUME RowsInv, RowsInv', Balanced, Tracked, UNCHANGED <<used, rows, stops>>,
         NEW p \in Procs, NEW r, Goto(p, r), r.was = req[p].was, r.item = req[p].item,
         req[p].at # "charge", r.at # "charge",
         Waiting(r) => Waiting(req[p]),
         r.at \in {"save_quota", "save_place", "save_row"} =>
           req[p].at \in {"save_quota", "save_place", "save_row"}
  PROVE  Balanced' /\ Tracked'
<1>1. Owes(r) = Owes(req[p])
  BY DEF Owes
<1>2. /\ Waiting(r) => r.was = 0
      /\ r.at \in {"save_quota", "save_place", "save_row"} => rows[r.item].size = r.was
  BY DEF Tracked
<1> QED BY <1>1, <1>2, GoesOnBalanced, GoesOnTracked

LEMMA ChargeBooks ==
  ASSUME BooksInv, RowsInv', NEW p \in Procs, Charge(p)
  PROVE  Balanced' /\ Tracked'
<1>0. RowsInv /\ Balanced /\ Tracked
  BY DEF BooksInv
<1>1. Goto(p, Idle) /\ used' = used + Delta(req[p]) /\ req[p].at = "charge"
      /\ UNCHANGED <<rows, stops>>
  BY DEF Charge
<1>2. req \in [Procs -> Request] /\ Idle \in Request /\ req' = [req EXCEPT ![p] = Idle]
  BY <1>0, <1>1, IdleType DEF RowsInv, TypeInv, TypeOK, Goto
<1>3. Pending(req') = Pending(req) - Owes(req[p]) + Owes(Idle)
  BY <1>2, PendingMoves
<1>4. Owes(req[p]) = Delta(req[p]) /\ Owes(Idle) = 0 /\ Owes(req[p]) \in Int
  <2>1. req[p] \in Request /\ Idle.at = "idle"
    BY <1>2 DEF Idle
  <2> QED BY <1>1, <2>1, OwesFacts DEF Owes
<1>5. used \in Int /\ Pending(req) \in Int /\ Total(rows) \in Int
  BY <1>0, SumsAreInt
<1>6. used' + Pending(req') - Total(rows') = used + Pending(req) - Total(rows)
  <2>1. Total(rows') = Total(rows)
    BY <1>1
  <2> DEFINE i == Pending(req)
             j == Pending(req')
             t == Total(rows)
             d == Delta(req[p])
  <2>2. used' = used + d /\ j = i - d + 0 /\ d \in Int /\ i \in Int /\ t \in Int
    BY <1>1, <1>3, <1>4, <1>5
  <2> HIDE DEF i, j, t, d
  <2>3. used' + j - t = used + i - t
    BY <1>5, <2>2
  <2> QED BY <2>1, <2>3 DEF i, j, t
<1>7. Balanced'
  BY <1>0, <1>1, <1>6, BalanceKept
<1>8. ~Waiting(Idle) /\ Idle.at = "idle"
  BY DEF Idle, Waiting
<1>9. Tracked'
  BY <1>0, <1>1, <1>8, GoesOnTracked
<1> QED BY <1>7, <1>9

LEMMA InsertBooks ==
  ASSUME BooksInv, RowsInv', NEW p \in Procs, InsertRow(p)
  PROVE  Balanced' /\ Tracked'
<1> DEFINE r == req[p]
           t == [r EXCEPT !.at = "charge"]
           e == [name |-> r.name, size |-> r.new, sum |-> r.sum]
<1>0. RowsInv /\ Balanced /\ Tracked /\ UNCHANGED <<used, stops>> /\ r.at = "insert"
  BY DEF BooksInv, InsertRow
<1>1. CASE Taken(r.name)
  BY <1>0, <1>1, IdleBalanced DEF InsertRow
<1>2. CASE ~Taken(r.name)
  <2>1. rows' = Put(rows, r.item, e) /\ Goto(p, t)
    BY <1>2 DEF InsertRow
  <2>2. r \in Request /\ req \in [Procs -> Request]
    BY <1>0 DEF RowsInv, TypeInv, TypeOK
  <2>3. /\ t \in Request /\ t.at = "charge" /\ t.was = 0 /\ t.new = r.new
        /\ Owes(t) = r.new /\ Owes(r) = 0 /\ r.new \in Int
    <3>1. r.was = 0
      BY <1>0 DEF Tracked, Waiting
    <3>2. t \in Request /\ t.at = "charge" /\ t.was = r.was /\ t.new = r.new
      BY <2>2 DEF Request, Places
    <3>3. r.new \in Sizes \cup {0}
      BY <2>2 DEF Request
    <3>4. \A s \in Sizes \cup {0} : s \in Int /\ s - 0 = s
      BY SizesAreNat
    <3>5. r.new \in Int /\ r.new - 0 = r.new
      BY <3>3, <3>4
    <3> HIDE DEF t
    <3> QED BY <1>0, <3>1, <3>2, <3>5 DEF Owes, Delta
  <2>4. req' = [req EXCEPT ![p] = t]
    BY <2>1 DEF Goto
  <2>5. r.item \notin DOMAIN rows
    BY <1>0 DEF RowsInv, RequestsOK, UploadOK, Waiting
  <2>6. /\ DOMAIN rows' = DOMAIN rows \cup {r.item}
        /\ rows'[r.item].size = r.new
        /\ \A x \in DOMAIN rows : rows'[x] = rows[x]
    BY <2>1, <2>5 DEF Put
  <2>7. Total(rows') = r.new + Total(rows)
    <3>1. DOMAIN rows = DOMAIN rows' \ {r.item} /\ r.item \in DOMAIN rows'
      BY <2>5, <2>6
    <3>2. \A x \in DOMAIN rows : rows[x].size = rows'[x].size
      BY <2>6
    <3>3. IsTable(rows) /\ IsTable(rows')
      BY <1>0 DEF RowsInv, TypeInv, TypeOK, IsTable
    <3> HIDE DEF r
    <3>4. Total(rows') = rows'[r.item].size + Total(rows)
      BY <3>1, <3>2, <3>3, TotalLess
    <3> QED BY <2>6, <3>4
  <2>8. Pending(req') = Pending(req) + r.new
    <3>1. Pending(req') = Pending(req) - Owes(r) + Owes(t)
      <4>1. t \in Request
        BY <2>3
      <4> HIDE DEF t
      <4> QED BY ONLY p \in Procs, <2>2, <2>4, <4>1, PendingMoves
    <3>2. Pending(req) \in Int
      BY <1>0, SumsAreInt
    <3> HIDE DEF t
    <3> QED BY <2>3, <3>1, <3>2
  <2>9. used' + Pending(req') - Total(rows') = used + Pending(req) - Total(rows)
    <3>1. used \in Int /\ Pending(req) \in Int /\ Total(rows) \in Int
      BY <1>0, SumsAreInt
    <3> DEFINE i == Pending(req)
               j == Total(rows)
               n == r.new
    <3> HIDE DEF i, j, n, t
    <3>2. used' = used /\ n \in Int
      BY <1>0, <2>3 DEF n
    <3>3. Pending(req') = i + n /\ Total(rows') = n + j
      BY <2>7, <2>8 DEF i, j, n
    <3>4. used + (i + n) - (n + j) = used + i - j
      BY <3>1, <3>2 DEF i, j
    <3> QED BY <3>2, <3>3, <3>4 DEF i, j
  <2>10. Balanced'
    BY <1>0, <2>9, BalanceKept
  <2>11. Tracked'
    <3>1. ~Waiting(t) /\ t.at = "charge"
      BY <2>3 DEF Waiting
    <3>2. req'[p] = t /\ \A q \in Procs : q # p => req'[q] = req[q]
      BY <2>2, <2>4
    <3> HIDE DEF t
    <3>3. ASSUME NEW q \in Procs, req[q].at \in {"save_quota", "save_place", "save_row"}
          PROVE  req[q].item \in DOMAIN rows
      <4>1. Saver(req[q])
        BY <1>0, <3>3 DEF RowsInv, RequestsOK, Saver
      <4> QED BY <1>0, <4>1 DEF RowsInv, RequestsOK, SaveOK
    <3> QED BY <1>0, <2>6, <3>1, <3>2, <3>3 DEF Tracked
  <2> QED BY <2>10, <2>11
<1> QED BY <1>1, <1>2

LEMMA UpdateBooks ==
  ASSUME BooksInv, RowsInv', NEW p \in Procs, UpdateRow(p)
  PROVE  Balanced' /\ Tracked'
<1> DEFINE r == req[p]
           t == [r EXCEPT !.at = "charge"]
<1>0. RowsInv /\ Balanced /\ Tracked /\ UNCHANGED <<used, stops>> /\ r.at = "save_row"
  BY DEF BooksInv, UpdateRow
<1>1. Saver(r) /\ r.item \in DOMAIN rows /\ rows[r.item].size = r.was
  BY <1>0 DEF RowsInv, RequestsOK, SaveOK, Saver, Tracked
<1>2. Goto(p, t)
  BY DEF UpdateRow
<1>3. req \in [Procs -> Request] /\ r \in Request /\ req' = [req EXCEPT ![p] = t]
  BY <1>0, <1>2 DEF RowsInv, TypeInv, TypeOK, Goto
<1>4. /\ t \in Request /\ t.at = "charge" /\ Owes(t) = r.new - r.was /\ Owes(r) = 0
  <2>1. t \in Request /\ t.at = "charge" /\ t.was = r.was /\ t.new = r.new
    BY <1>3 DEF Request, Places
  <2> HIDE DEF t
  <2> QED BY <1>0, <2>1 DEF Owes, Delta
<1>5. /\ DOMAIN rows' = DOMAIN rows
      /\ rows'[r.item].size = r.new
      /\ \A x \in DOMAIN rows \ {r.item} : rows'[x] = rows[x]
  <2>1. rows' = [rows EXCEPT ![r.item].size = r.new, ![r.item].sum = r.sum]
    BY <1>1 DEF UpdateRow
  <2>2. rows[r.item] \in Row
    BY <1>0, <1>1 DEF RowsInv, TypeInv, TypeOK, Table
  <2> QED BY <1>1, <2>1, <2>2 DEF Row
<1>6. r.new \in Int /\ r.was \in Int
  <2>1. r.new \in Sizes \cup {0} /\ r.was \in Sizes \cup {0}
    BY <1>3 DEF Request
  <2>2. \A s \in Sizes \cup {0} : s \in Int
    BY SizesAreNat
  <2> QED BY <2>1, <2>2
<1>7. Total(rows') = Total(rows) + r.new - r.was
  <2>1. IsTable(rows) /\ IsTable(rows')
    BY <1>0 DEF RowsInv, TypeInv, TypeOK, IsTable
  <2>2. \A y \in DOMAIN rows' \ {r.item} : rows'[y].size = rows[y].size
    BY <1>5
  <2>3. DOMAIN rows' = DOMAIN rows /\ r.item \in DOMAIN rows
    BY <1>1, <1>5
  <2> HIDE DEF r
  <2>4. Total(rows') = Total(rows) + rows'[r.item].size - rows[r.item].size
    BY ONLY <2>1, <2>2, <2>3, TotalChanges
  <2> QED BY <1>1, <1>5, <2>4
<1>8. Pending(req') = Pending(req) - Owes(r) + Owes(t)
  <2>1. t \in Request
    BY <1>4
  <2> HIDE DEF t
  <2> QED BY ONLY p \in Procs, <1>3, <2>1, PendingMoves
<1>9. used' + Pending(req') - Total(rows') = used + Pending(req) - Total(rows)
  <2> DEFINE i == Pending(req)
             j == Total(rows)
             m == r.was
             n == r.new
  <2>1. used \in Int /\ i \in Int /\ j \in Int /\ used' = used /\ m \in Int /\ n \in Int
    BY <1>0, <1>6, SumsAreInt
  <2>2. Pending(req') = i - 0 + (n - m) /\ Total(rows') = j + n - m
    BY <1>4, <1>7, <1>8
  <2> HIDE DEF i, j, m, n, r, t
  <2>3. used' + (i - 0 + (n - m)) - (j + n - m) = used + i - j
    BY <2>1
  <2> QED BY <2>2, <2>3 DEF i, j
<1>10. Balanced'
  BY <1>0, <1>9, BalanceKept
<1>11. Tracked'
  <2>1. ~Waiting(t) /\ t.at = "charge"
    BY <1>4 DEF Waiting
  <2>2. req'[p] = t /\ \A q \in Procs : q # p => req'[q] = req[q]
    BY <1>3
  <2> HIDE DEF t
  <2>3. ASSUME NEW q \in Procs, q # p, req[q].at \in {"save_quota", "save_place", "save_row"}
        PROVE  req[q].item \in DOMAIN rows \ {r.item}
    <3>1. Saver(req[q])
      BY <1>0, <2>3 DEF RowsInv, RequestsOK, Saver
    <3> QED BY <1>0, <1>1, <2>3, <3>1, OthersAreElsewhere
  <2> QED BY <1>0, <1>5, <2>1, <2>2, <2>3 DEF Tracked
<1> QED BY <1>10, <1>11

LEMMA EraseBooks ==
  ASSUME BooksInv, RowsInv', Overlaps = {}, NEW x \in Ids, Erase(x)
  PROVE  Balanced' /\ Tracked'
<1>0. /\ RowsInv /\ Balanced /\ Tracked /\ UNCHANGED <<req, stops>>
      /\ x \in DOMAIN rows /\ Saving(x) = {} /\ rows' = Without(rows, {x})
      /\ used' = used - rows[x].size
  BY DEF BooksInv, Erase
<1>1. DOMAIN rows' = DOMAIN rows \ {x} /\ \A y \in DOMAIN rows' : rows'[y] = rows[y]
  BY <1>0 DEF Without
<1>2. IsTable(rows) /\ IsTable(rows')
  BY <1>0 DEF RowsInv, TypeInv, TypeOK, IsTable
<1>3. Total(rows) = rows[x].size + Total(rows')
  <2>1. \A y \in DOMAIN rows' : rows'[y].size = rows[y].size
    BY <1>1
  <2>2. DOMAIN rows' = DOMAIN rows \ {x} /\ x \in DOMAIN rows
    BY <1>0, <1>1
  <2> QED BY ONLY <1>2, <2>1, <2>2, TotalLess
<1>4. used' + Pending(req') - Total(rows') = used + Pending(req) - Total(rows)
  <2> DEFINE i == Pending(req)
             j == Total(rows')
             n == rows[x].size
  <2>1. used \in Int /\ i \in Int /\ j \in Int /\ n \in Int
    BY <1>0, <1>2, SumsAreInt, SizesFacts
  <2>2. used' = used - n /\ Total(rows) = n + j /\ Pending(req') = i
    BY <1>0, <1>3
  <2> HIDE DEF i, j, n
  <2>3. (used - n) + i - j = used + i - (n + j)
    BY <2>1
  <2> QED BY <2>2, <2>3 DEF i, j
<1>5. Balanced'
  BY <1>0, <1>4, BalanceKept
<1>6. ASSUME NEW q \in Procs, req[q].at \in {"save_quota", "save_place", "save_row"}
      PROVE  req[q].item \in DOMAIN rows'
  <2>1. Saver(req[q]) /\ q \in Busy /\ Saves(req[q])
    BY <1>0, <1>6 DEF RowsInv, RequestsOK, Saver, Busy
  <2>2. req[q].item \in DOMAIN rows
    BY <1>0, <2>1 DEF RowsInv, RequestsOK, SaveOK
  <2> QED BY <1>0, <1>1, <2>1, <2>2 DEF Saving
<1>7. Tracked'
  BY <1>0, <1>1, <1>6 DEF Tracked
<1> QED BY <1>5, <1>7

LEMMA StopBooks ==
  ASSUME BooksInv, RowsInv', Stop
  PROVE  Balanced' /\ Tracked'
<1>0. /\ RowsInv /\ Balanced /\ UNCHANGED <<used, rows>>
      /\ req' = [p \in Procs |-> Idle] /\ stops' = stops + 1 /\ stops \in Nat
  BY StopsAreNat DEF BooksInv, Stop, RowsInv, TypeInv, TypeOK
<1>1. \A p \in Procs : req'[p].at = "idle" /\ ~Waiting(req'[p])
  BY <1>0 DEF Idle, Waiting
<1>2. Tracked'
  BY <1>1 DEF Tracked
<1> DEFINE n == Cardinality(Procs)
           k == n * MaxSize
           i == Pending(req)
           j == Total(rows)
           l == Lost
<1>3. Pending(req') = 0
  <2>1. req' \in [Procs -> Request] /\ \A p \in Procs : req'[p].at # "charge"
    BY <1>1 DEF RowsInv, TypeInv, TypeOK
  <2> QED BY ONLY <2>1, NothingPending
<1>4. used \in Int /\ i \in Int /\ j \in Int /\ i <= k /\ -k <= i
  BY <1>0, SumsAreInt, PendingIsInt DEF RowsInv, TypeInv, TypeOK
<1>5. l \in Int /\ k \in Int /\ Lost' = l + k
  <2>1. n \in Nat /\ MaxSize \in Nat
    BY MaxSizeFacts
  <2> HIDE DEF n
  <2>2. stops * n \in Nat /\ (stops + 1) * n = stops * n + n
    BY <1>0, <2>1, TimesGrows
  <2>3. \A a, b, c \in Nat : (a + b) * c = a * c + b * c /\ a * c \in Nat
    OBVIOUS
  <2>4. (stops * n + n) * MaxSize = stops * n * MaxSize + n * MaxSize
        /\ stops * n * MaxSize \in Nat /\ n * MaxSize \in Nat
    BY <2>1, <2>2, <2>3
  <2>5. l = stops * n * MaxSize /\ Lost' = (stops + 1) * n * MaxSize
    BY <1>0 DEF Lost, n
  <2> QED BY <2>2, <2>4, <2>5
<1>6. used + i - j \in (-l)..l
  BY <1>0 DEF Balanced
<1>7. Balanced'
  <2>1. Total(rows') = j /\ used' = used
    BY <1>0
  <2>2. used + 0 - j \in (-(l + k))..(l + k)
    <3> HIDE DEF i, j, k, l
    <3> QED BY <1>4, <1>5, <1>6
  <2>3. used' + Pending(req') - Total(rows') \in (-Lost')..Lost'
    <3> HIDE DEF i, j, k, l
    <3> QED BY <1>3, <1>5, <2>1, <2>2
  <2> QED BY <2>3 DEF Balanced
<1> QED BY <1>2, <1>7

LEMMA WriteBooks ==
  ASSUME BooksInv, RowsInv', NEW p \in Procs, NEW x \in Ids, Write(p, x)
  PROVE  Balanced' /\ Tracked'
<1>0. RowsInv /\ Balanced /\ Tracked /\ UNCHANGED <<used, rows, stops>> /\ req[p].at = "idle"
  BY DEF BooksInv, Write
<1> DEFINE r == [at |-> "name", id |-> x, item |-> x, name |-> <<staged[x].name, 0>>,
                 was |-> 0, new |-> staged[x].size, sum |-> Nil]
<1>1. CASE UNCHANGED req
  BY <1>0, <1>1 DEF Balanced, Lost, Tracked
<1>2. CASE Goto(p, r)
  <2>1. Owes(r) = Owes(req[p])
    BY <1>0 DEF Owes
  <2>2. r.at = "name" /\ r.was = 0
    OBVIOUS
  <2> HIDE DEF r
  <2> QED BY <1>0, <1>2, <2>1, <2>2, GoesOnBalanced, GoesOnTracked
<1> QED BY <1>1, <1>2 DEF Write

LEMMA SaveBooks ==
  ASSUME BooksInv, RowsInv', NEW p \in Procs, NEW x \in Ids, NEW s \in Ids, NEW size \in Sizes,
         Save(p, x, s, size)
  PROVE  Balanced' /\ Tracked'
<1>0. RowsInv /\ Balanced /\ Tracked /\ UNCHANGED <<used, rows, stops>> /\ req[p].at = "idle"
  BY DEF BooksInv, Save
<1> DEFINE r == [at |-> "save_quota", id |-> s, item |-> x, name |-> rows[x].name,
                 was |-> rows[x].size, new |-> size, sum |-> s]
<1>1. Goto(p, r)
  BY DEF Save
<1>2. Owes(r) = Owes(req[p])
  BY <1>0 DEF Owes
<1>3. ~Waiting(r) /\ rows[r.item].size = r.was
  BY DEF Waiting
<1> HIDE DEF r
<1> QED BY <1>0, <1>1, <1>2, <1>3, GoesOnBalanced, GoesOnTracked

LEMMA StepBooks ==
  ASSUME BooksInv, RowsInv', NEW p \in Procs, Step(p)
  PROVE  Balanced' /\ Tracked'
<1> DEFINE r == req[p]
<1>0. RowsInv /\ Balanced /\ Tracked /\ r \in Request
  BY DEF BooksInv, RowsInv, TypeInv, TypeOK
\* From a place to the next, before the row.
<1>1. ASSUME UNCHANGED <<used, rows, stops>>, r.at # "charge", NEW t, Goto(p, t),
             t.was = r.was, t.item = r.item, t.at # "charge", Waiting(t) => Waiting(r),
             t.at \in {"save_quota", "save_place", "save_row"} =>
               r.at \in {"save_quota", "save_place", "save_row"}
      PROVE  Balanced' /\ Tracked'
  BY ONLY <1>0, <1>1, RowsInv', p \in Procs, OnwardBalanced
<1>2. ASSUME UNCHANGED <<used, rows, stops>>, r.at # "charge", Goto(p, Idle)
      PROVE  Balanced' /\ Tracked'
  BY <1>0, <1>2, IdleBalanced
<1>3. CASE ChooseName(p)
  <2> DEFINE t == [r EXCEPT !.at = "quota", !.name = UniqueName(@)]
  <2>1. t.was = r.was /\ t.item = r.item /\ t.at = "quota"
    BY <1>0 DEF Request
  <2>2. Goto(p, t) /\ UNCHANGED <<used, rows, stops>> /\ r.at = "name"
    BY <1>3 DEF ChooseName
  <2> HIDE DEF t
  <2> QED BY <1>1, <2>1, <2>2 DEF Waiting
<1>4. CASE CheckUpload(p)
  <2> DEFINE t == [r EXCEPT !.at = "place"]
  <2>1. t.was = r.was /\ t.item = r.item /\ t.at = "place"
    BY <1>0 DEF Request
  <2>2. (Goto(p, t) \/ Goto(p, Idle)) /\ UNCHANGED <<used, rows, stops>> /\ r.at = "quota"
    BY <1>4 DEF CheckUpload
  <2> HIDE DEF t
  <2> QED BY <1>1, <1>2, <2>1, <2>2 DEF Waiting
<1>5. CASE PlaceUpload(p)
  <2> DEFINE t == [r EXCEPT !.at = "sum"]
  <2>1. t.was = r.was /\ t.item = r.item /\ t.at = "sum"
    BY <1>0 DEF Request
  <2>2. (Goto(p, t) \/ Goto(p, Idle)) /\ UNCHANGED <<used, rows, stops>> /\ r.at = "place"
    BY <1>5 DEF PlaceUpload
  <2> HIDE DEF t
  <2> QED BY <1>1, <1>2, <2>1, <2>2 DEF Waiting
<1>6. CASE Checksum(p)
  <2> DEFINE t == [r EXCEPT !.at = "insert", !.sum = files[r.name].sum]
  <2>1. t.was = r.was /\ t.item = r.item /\ t.at = "insert"
    BY <1>0 DEF Request
  <2>2. (Goto(p, t) \/ Goto(p, Idle)) /\ UNCHANGED <<used, rows, stops>> /\ r.at = "sum"
    BY <1>6 DEF Checksum
  <2> HIDE DEF t
  <2> QED BY <1>1, <1>2, <2>1, <2>2 DEF Waiting
<1>7. CASE InsertRow(p)
  BY <1>7, InsertBooks
<1>8. CASE CheckSave(p)
  <2> DEFINE t == [r EXCEPT !.at = "save_place"]
  <2>1. t.was = r.was /\ t.item = r.item /\ t.at = "save_place"
    BY <1>0 DEF Request
  <2>2. (Goto(p, t) \/ Goto(p, Idle)) /\ UNCHANGED <<used, rows, stops>> /\ r.at = "save_quota"
    BY <1>8 DEF CheckSave
  <2> HIDE DEF t
  <2> QED BY <1>1, <1>2, <2>1, <2>2 DEF Waiting
<1>9. CASE PlaceSave(p)
  <2> DEFINE t == [r EXCEPT !.at = "save_row"]
  <2>1. t.was = r.was /\ t.item = r.item /\ t.at = "save_row"
    BY <1>0 DEF Request
  <2>2. Goto(p, t) /\ UNCHANGED <<used, rows, stops>> /\ r.at = "save_place"
    BY <1>9 DEF PlaceSave
  <2> HIDE DEF t
  <2> QED BY <1>1, <2>1, <2>2 DEF Waiting
<1>10. CASE UpdateRow(p)
  BY <1>10, UpdateBooks
<1>11. CASE Charge(p)
  BY <1>11, ChargeBooks
<1> QED BY <1>3, <1>4, <1>5, <1>6, <1>7, <1>8, <1>9, <1>10, <1>11 DEF Step

LEMMA NextBooks ==
  ASSUME BooksInv, Overlaps = {}, [Next]_vars
  PROVE  BooksInv'
<1>0. RowsInv'
  BY NextRows DEF BooksInv
<1> SUFFICES Balanced' /\ Tracked'
  BY <1>0 DEF BooksInv
<1>1. ASSUME UNCHANGED <<rows, used, req, stops>> PROVE Balanced' /\ Tracked'
  BY <1>1 DEF BooksInv, Balanced, Lost, Tracked
<1>2. ASSUME NEW x \in Ids, NEW name \in Names, NEW size \in Sizes, NEW deferred \in BOOLEAN,
             Post(x, name, size, deferred)
      PROVE  Balanced' /\ Tracked'
  BY <1>1, <1>2 DEF Post
<1>3. ASSUME NEW x \in Ids, Terminate(x) \/ Age(x) PROVE Balanced' /\ Tracked'
  BY <1>1, <1>3 DEF Terminate, Age
<1>4. ASSUME NEW x \in Ids, Erase(x) PROVE Balanced' /\ Tracked'
  BY <1>0, <1>4, EraseBooks
<1>5. ASSUME NEW p \in Procs, NEW x \in Ids, Write(p, x) PROVE Balanced' /\ Tracked'
  BY <1>0, <1>5, WriteBooks
<1>6. ASSUME NEW p \in Procs, NEW x \in Ids, NEW s \in Ids, NEW size \in Sizes,
             Save(p, x, s, size)
      PROVE  Balanced' /\ Tracked'
  BY <1>0, <1>6, SaveBooks
<1>7. ASSUME NEW p \in Procs, Step(p) PROVE Balanced' /\ Tracked'
  BY <1>0, <1>7, StepBooks
<1>8. CASE Sweep
  BY <1>1, <1>8 DEF Sweep, Collect, Look, RemoveInfo, RemoveBytes, CollectEnd
<1>9. CASE Stop
  BY <1>0, <1>9, StopBooks
<1>10. CASE UNCHANGED vars
  BY <1>1, <1>10 DEF vars
<1> QED BY <1>2, <1>3, <1>4, <1>5, <1>6, <1>7, <1>8, <1>9, <1>10 DEF Next

LEMMA InitBooks == Init => BooksInv
<1> SUFFICES ASSUME Init PROVE BooksInv
  OBVIOUS
<1>1. RowsInv
  BY InitRows
<1>2. \A p \in Procs : req[p].at = "idle" /\ ~Waiting(req[p])
  BY DEF Init, Idle, Waiting
<1>3. Pending(req) = 0
  <2>1. req \in [Procs -> Request] /\ \A p \in Procs : req[p].at # "charge"
    BY <1>1, <1>2 DEF RowsInv, TypeInv, TypeOK
  <2> QED BY ONLY <2>1, NothingPending
<1>4. Total(rows) = 0
  <2>1. DOMAIN rows = {}
    BY DEF Init, Empty
  <2> QED BY <2>1, SumOfNone DEF Total
<1>5. Lost = 0 /\ used = 0
  <2>1. \A n \in Nat : 0 * n = 0
    OBVIOUS
  <2>2. stops = 0 /\ Cardinality(Procs) \in Nat /\ MaxSize \in Nat
    BY MaxSizeFacts DEF Init
  <2> QED BY <2>1, <2>2 DEF Lost, Init
<1>6. Balanced
  BY <1>3, <1>4, <1>5 DEF Balanced
<1> QED BY <1>1, <1>2, <1>6 DEF BooksInv, Tracked

\* CounterIsNear sums the sizes by another fold.
LEMMA TotalIsSum ==
  ASSUME RowsInv
  PROVE  MapThenSumSet(LAMBDA x : rows[x].size, DOMAIN rows) = Total(rows)
<1> DEFINE T == DOMAIN rows
           f == SizesIn(rows)
           Iter(g) == g = [U \in SUBSET T |->
                             IF U = {} THEN 0
                             ELSE rows[CHOOSE x \in U : TRUE].size + g[U \ {CHOOSE x \in U : TRUE}]]
<1>1. MapThenSumSet(LAMBDA x : rows[x].size, DOMAIN rows) = (CHOOSE g : Iter(g))[T]
  BY DEF MapThenSumSet, MapThenFoldSet
<1>2. IsFiniteSet(T)
  BY TablesNow DEF IsTable
<1>3. ASSUME NEW g PROVE Iter(g) <=> Folds(f, T, g)
  <2>1. ASSUME NEW U \in SUBSET T
        PROVE  (IF U = {} THEN 0
                ELSE rows[CHOOSE x \in U : TRUE].size + g[U \ {CHOOSE x \in U : TRUE}])
               = Adds(f, g, U)
    <3>1. U # {} => f[CHOOSE x \in U : TRUE] = rows[CHOOSE x \in U : TRUE].size
      BY DEF SizesIn
    <3> QED BY <3>1 DEF Adds
  <2> HIDE DEF f, T
  <2> QED BY <2>1 DEF Folds
<1>4. \E g : Iter(g)
  <2> HIDE DEF Iter, T, f
  <2> QED BY <1>2, <1>3, FoldExists
<1> DEFINE g == CHOOSE g : Iter(g)
<1>5. Folds(f, T, g)
  <2> HIDE DEF f, T, Iter
  <2> QED BY <1>3, <1>4
<1>6. SumFunctionOnSet(f, T) = g[T]
  <2> DEFINE h == CHOOSE h : Folds(f, T, h)
  <2>1. SumFunctionOnSet(f, T) = h[T]
    BY SumUnfolds
  <2>2. Folds(f, T, h)
    BY <1>2, FoldExists
  <2> HIDE DEF f, T, g, h
  <2> QED BY <1>2, <1>5, <2>1, <2>2, FoldUnique
<1> HIDE DEF Iter
<1> QED BY <1>1, <1>6 DEF Total

LEMMA CounterNow == ASSUME BooksInv PROVE CounterIsNear
<1>0. RowsInv /\ Balanced
  BY DEF BooksInv
<1> SUFFICES ASSUME Busy = {}
             PROVE  used - Total(rows) \in (-Lost)..Lost
  BY <1>0, TotalIsSum DEF CounterIsNear, Lost
<1>1. Pending(req) = 0
  <2>1. req \in [Procs -> Request] /\ \A p \in Procs : req[p].at # "charge"
    BY <1>0 DEF RowsInv, TypeInv, TypeOK, Busy
  <2> QED BY ONLY <2>1, NothingPending
<1>2. used \in Int /\ used + 0 = used
  BY <1>0, SumsAreInt
<1> DEFINE I == (-Lost)..Lost
           t == Total(rows)
<1>3. used + 0 - t \in I
  <2>1. used + Pending(req) - t \in I
    BY <1>0 DEF Balanced
  <2> HIDE DEF I, t
  <2> QED BY <1>1, <2>1
<1>4. used + 0 - t = used - t
  <2>1. t \in Int
    BY <1>0, SumsAreInt
  <2> HIDE DEF t
  <2> QED BY <1>2, <2>1
<1>5. used - t \in I
  <2> DEFINE j == used + 0 - t
             k == used - t
  <2>1. j = k /\ j \in I
    BY <1>3, <1>4
  <2> HIDE DEF I, t, j, k
  <2>2. k \in I
    BY <2>1
  <2> QED BY <2>2 DEF k
<1> QED BY <1>5

\* With nothing overlapping that Habits lists, and no request under way, the
\* counter is the sum of the sizes of the items, except that each stop of the
\* server costs at most one charge of each request: the increments of
\* IncrementStorageUsed are the rows' changes, one by one, for any number of
\* requests, uploads, saves and deletions between one another's steps.
THEOREM CounterStaysNear ==
  ASSUME Overlaps = {}
  PROVE  Spec => []CounterIsNear
<1>1. BooksInv /\ [Next]_vars => BooksInv'
  BY NextBooks
<1>2. BooksInv => CounterIsNear
  BY CounterNow
<1> QED BY <1>1, <1>2, InitBooks, PTL DEF Spec
=============================================================================
