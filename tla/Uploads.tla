------------------------------ MODULE Uploads ------------------------------
(***************************************************************************)
(* How bytes come in: resumable uploads (internal/upload, tusd behind it), *)
(* their commit (FinalizeUpload), saves from the editor (ReplaceContent),  *)
(* and the collection of abandoned uploads (gc.go), one query, rename or   *)
(* removal per step.  One owner and one folder; Drive has the tree, Grants *)
(* the access checks.                                                      *)
(***************************************************************************)
EXTENDS Integers, FiniteSets, FiniteSetsExt

CONSTANTS
  Procs,     \* requests that finish an upload or save at a time
  Ids,       \* ids of uploads, of the items they become, of staged saves
  Names,     \* requested names
  Sizes,
  Quota,
  Chunks,    \* in how many writes an upload arrives
  MaxStops,  \* how often the server stops and starts again
  Overlaps,  \* what overlaps with what: see Habits
  Nil

(***************************************************************************)
(* "names": an upload is finished while another of its name has no row yet. *)
(* "saves": a document is saved twice at a time.                           *)
(* "erased": a document is deleted for good while it is saved.             *)
(***************************************************************************)
Habits == {"names", "saves", "erased"}

ASSUME NilIsNothing == Nil \notin Ids \cup Names
ASSUME SizesAreNat == Sizes \subseteq Nat /\ Quota \in Nat
ASSUME SizesHaveMax == IsFiniteSet(Sizes) /\ Sizes # {}
ASSUME ProcsFinite == IsFiniteSet(Procs) /\ Procs # {}
ASSUME ChunksIsPositive == Chunks \in Nat \ {0}
ASSUME StopsAreNat == MaxStops \in Nat
ASSUME OverlapsAreHabits == Overlaps \subseteq Habits

VARIABLES
  staged,   \* the staging directory: id -> what is known of the upload or save
  files,    \* the folder on disk: name -> the bytes there
  rows,     \* the folder in the items table
  used,     \* the owner's storage_used_bytes
  req,      \* requests that finish an upload or save: their next step
  sweep,    \* CollectGarbage: the entries to look at, and the one at hand
  stops

vars == <<staged, files, rows, used, req, sweep, stops>>

FinalName == Names \X Nat

\* left: writes to come.  old: not written to for DENIZEN_UPLOAD_GC_AFTER.
\* info, data: whether the .info file and the bytes are there.
Stage == [name: Names \cup {Nil}, size: Sizes, left: 0..Chunks, old: BOOLEAN,
          info: BOOLEAN, data: BOOLEAN]

\* Bytes are told apart by the id they were staged under; of: the item that
\* they were sent for.
Bytes == [of: Ids, sum: Ids]

Row == [name: FinalName, size: Sizes, sum: Ids]

Places == {"idle", "name", "quota", "place", "sum", "insert",
           "save_quota", "save_place", "save_row", "charge"}

\* id: under which the bytes are staged; was, new: the item's size as the request
\* read it (0 before an upload is one), and the size to come.
Request == [at: Places, id: Ids \cup {Nil}, item: Ids \cup {Nil}, name: FinalName \cup {Nil},
            was: Sizes \cup {0}, new: Sizes \cup {0}, sum: Ids \cup {Nil}]

Idle == [at |-> "idle", id |-> Nil, item |-> Nil, name |-> Nil, was |-> 0, new |-> 0, sum |-> Nil]

SweepAt == {"off", "list", "info", "data"}

Off == [at |-> "off", todo |-> {}, id |-> Nil]

Table(f, K, R) == DOMAIN f \subseteq K /\ f \in [DOMAIN f -> R]

TypeOK ==
  /\ Table(staged, Ids, Stage)
  /\ Table(files, FinalName, Bytes)
  /\ Table(rows, Ids, Row)
  /\ used \in Int
  /\ req \in [Procs -> Request]
  /\ sweep \in [at: SweepAt, todo: SUBSET Ids, id: Ids \cup {Nil}]
  /\ stops \in 0..MaxStops

Empty == [x \in {} |-> Nil]

Init ==
  /\ staged = Empty /\ files = Empty /\ rows = Empty
  /\ used = 0
  /\ req = [p \in Procs |-> Idle]
  /\ sweep = Off
  /\ stops = 0

-----------------------------------------------------------------------------
Put(f, k, v) == [x \in DOMAIN f \cup {k} |-> IF x = k THEN v ELSE f[x]]
Without(f, S) == [x \in DOMAIN f \ S |-> f[x]]

Goto(p, r) == req' = [req EXCEPT ![p] = r]
Busy == {p \in Procs : req[p].at # "idle"}

\* A save stages its bytes under an id of their own.
Saves(r) == r.id # r.item

\* Uploads that are being finished and have no row yet.
Unlisted == {p \in Busy : ~Saves(req[p]) /\ req[p].at # "charge"}

Held == {req[p].id : p \in Busy} \cup {req[p].item : p \in Busy}

\* idgen and tusd hand out ids that nothing bears yet.
Fresh(x) ==
  /\ x \notin DOMAIN staged \cup DOMAIN rows \cup Held \cup sweep.todo \cup {sweep.id}
  /\ \A n \in DOMAIN files : x \notin {files[n].of, files[n].sum}
  /\ \A y \in DOMAIN rows : rows[y].sum # x

CheckQuota(bytes) == used + bytes <= Quota

Taken(n) == \E x \in DOMAIN rows : rows[x].name = n

\* An entry of the staging directory with neither .info nor bytes is none.
Keep(x, info, data) ==
  IF info \/ data THEN [staged EXCEPT ![x].info = info, ![x].data = data]
  ELSE Without(staged, {x})

-----------------------------------------------------------------------------
(* Uploads: what tusd does between the hooks is from how the hooks use it.  *)

\* preCreate: the first check of the quota, which an upload of unknown length
\* (deferred) escapes; then tusd writes the .info file.
Post(x, name, size, deferred) ==
  /\ Fresh(x)
  /\ deferred \/ CheckQuota(size)
  /\ staged' = Put(staged, x, [name |-> name, size |-> size, left |-> Chunks, old |-> FALSE,
                               info |-> TRUE, data |-> TRUE])
  /\ UNCHANGED <<files, rows, used, req, sweep, stops>>

Resumable(x) == x \in DOMAIN staged /\ staged[x].info /\ staged[x].data /\ x \notin Held

\* Mutant: bytes are taken after the last.
WritableAlways(x) == Resumable(x)

Writable(x) == Resumable(x) /\ staged[x].left > 0

\* A PATCH, which touches the .info file; the last one makes preFinish call
\* FinalizeUpload.
Write(p, x) ==
  /\ req[p].at = "idle"
  /\ Writable(x)
  /\ staged' = [staged EXCEPT ![x].left = @ - 1, ![x].old = FALSE]
  /\ IF staged[x].left > 1 THEN UNCHANGED req
     ELSE /\ "names" \in Overlaps \/ \A q \in Unlisted : req[q].name[1] # staged[x].name
          /\ Goto(p, [at |-> "name", id |-> x, item |-> x, name |-> <<staged[x].name, 0>>,
                      was |-> 0, new |-> staged[x].size, sum |-> Nil])
  /\ UNCHANGED <<files, rows, used, sweep, stops>>

\* A DELETE (preTerminate lets the owner).
Terminate(x) ==
  /\ Resumable(x)
  /\ staged' = Without(staged, {x})
  /\ UNCHANGED <<files, rows, used, req, sweep, stops>>

Age(x) ==
  /\ x \in DOMAIN staged /\ ~staged[x].old
  /\ staged' = [staged EXCEPT ![x].old = TRUE]
  /\ UNCHANGED <<files, rows, used, req, sweep, stops>>

-----------------------------------------------------------------------------
(* FinalizeUpload. *)

\* Mutant: the name as it was sent.
NameAsSent(n) == n

\* uniqueName: the first suffix that no row has.
UniqueName(n) ==
  LET free == {k \in 0..Cardinality(DOMAIN rows) : ~Taken(<<n[1], k>>)}
  IN <<n[1], Min(free)>>

ChooseName(p) ==
  /\ req[p].at = "name"
  /\ Goto(p, [req[p] EXCEPT !.at = "quota", !.name = UniqueName(@)])
  /\ UNCHANGED <<staged, files, rows, used, sweep, stops>>

\* Mutant: the quota was checked before the upload began.
FitsAsBefore(r) == TRUE

\* "The definitive quota check".
Fits(r) == CheckQuota(r.new)

CheckUpload(p) ==
  /\ req[p].at = "quota"
  /\ Goto(p, IF Fits(req[p]) THEN [req[p] EXCEPT !.at = "place"] ELSE Idle)
  /\ UNCHANGED <<staged, files, rows, used, sweep, stops>>

\* Rename of the staged bytes, over whatever has the name on disk.
PlaceUpload(p) ==
  LET r == req[p] IN
  /\ r.at = "place"
  /\ IF r.id \in DOMAIN staged /\ staged[r.id].data
     THEN /\ staged' = Keep(r.id, staged[r.id].info, FALSE)
          /\ files' = Put(files, r.name, [of |-> r.item, sum |-> r.id])
          /\ Goto(p, [r EXCEPT !.at = "sum"])
     ELSE /\ Goto(p, Idle)
          /\ UNCHANGED <<staged, files>>
  /\ UNCHANGED <<rows, used, sweep, stops>>

Checksum(p) ==
  LET r == req[p] IN
  /\ r.at = "sum"
  /\ Goto(p, IF r.name \in DOMAIN files
             THEN [r EXCEPT !.at = "insert", !.sum = files[r.name].sum] ELSE Idle)
  /\ UNCHANGED <<staged, files, rows, used, sweep, stops>>

\* Rename back to the staging directory, which fails if the bytes are gone.
RollBack(r) ==
  IF r.name \notin DOMAIN files THEN UNCHANGED <<staged, files>>
  ELSE /\ files' = Without(files, {r.name})
       /\ staged' = IF r.id \in DOMAIN staged THEN Keep(r.id, staged[r.id].info, TRUE)
                    ELSE Put(staged, r.id, [name |-> Nil, size |-> r.new, left |-> 0,
                                            old |-> FALSE, info |-> FALSE, data |-> TRUE])

\* The row, unless the unique index on name refuses it.
InsertRow(p) ==
  LET r == req[p] IN
  /\ r.at = "insert"
  /\ IF Taken(r.name)
     THEN RollBack(r) /\ Goto(p, Idle) /\ UNCHANGED rows
     ELSE /\ rows' = Put(rows, r.item, [name |-> r.name, size |-> r.new, sum |-> r.sum])
          /\ Goto(p, [r EXCEPT !.at = "charge"])
          /\ UNCHANGED <<staged, files>>
  /\ UNCHANGED <<used, sweep, stops>>

\* Mutant: what the item had is charged again.
WholeSize(r) == r.new

Delta(r) == r.new - r.was

Charge(p) ==
  /\ req[p].at = "charge"
  /\ used' = used + Delta(req[p])
  /\ Goto(p, Idle)
  /\ UNCHANGED <<staged, files, rows, sweep, stops>>

-----------------------------------------------------------------------------
(* ReplaceContent. *)

Saving(x) == {p \in Busy : req[p].item = x /\ Saves(req[p])}

\* The row is read, and the new bytes are staged, without an .info file.
Save(p, x, s, size) ==
  /\ req[p].at = "idle"
  /\ x \in DOMAIN rows /\ Fresh(s)
  /\ "saves" \in Overlaps \/ Saving(x) = {}
  /\ staged' = Put(staged, s, [name |-> Nil, size |-> size, left |-> 0, old |-> FALSE,
                               info |-> FALSE, data |-> TRUE])
  /\ Goto(p, [at |-> "save_quota", id |-> s, item |-> x, name |-> rows[x].name,
              was |-> rows[x].size, new |-> size, sum |-> s])
  /\ UNCHANGED <<files, rows, used, sweep, stops>>

CheckSave(p) ==
  LET r == req[p] IN
  /\ r.at = "save_quota"
  /\ IF CheckQuota(Delta(r))
     THEN Goto(p, [r EXCEPT !.at = "save_place"]) /\ UNCHANGED staged
     ELSE Goto(p, Idle) /\ staged' = Without(staged, {r.id})
  /\ UNCHANGED <<files, rows, used, sweep, stops>>

PlaceSave(p) ==
  LET r == req[p] IN
  /\ r.at = "save_place"
  /\ staged' = Without(staged, {r.id})
  /\ files' = Put(files, r.name, [of |-> r.item, sum |-> r.id])
  /\ Goto(p, [r EXCEPT !.at = "save_row"])
  /\ UNCHANGED <<rows, used, sweep, stops>>

\* An UPDATE by id, which reports nothing when there is no such row any more.
UpdateRow(p) ==
  LET r == req[p] IN
  /\ r.at = "save_row"
  /\ rows' = IF r.item \in DOMAIN rows
             THEN [rows EXCEPT ![r.item].size = r.new, ![r.item].sum = r.sum] ELSE rows
  /\ Goto(p, [r EXCEPT !.at = "charge"])
  /\ UNCHANGED <<staged, files, used, sweep, stops>>

\* Deleted, and from the trash for good: in one step here.
Erase(x) ==
  /\ x \in DOMAIN rows
  /\ "erased" \in Overlaps \/ Saving(x) = {}
  /\ files' = Without(files, {rows[x].name})
  /\ rows' = Without(rows, {x})
  /\ used' = used - rows[x].size
  /\ UNCHANGED <<staged, req, sweep, stops>>

-----------------------------------------------------------------------------
(* CollectGarbage, on a timer, and restarts. *)

Collect ==
  /\ sweep.at = "off"
  /\ \E x \in DOMAIN staged : staged[x].info
  /\ sweep' = [at |-> "list", todo |-> {x \in DOMAIN staged : staged[x].info}, id |-> Nil]
  /\ UNCHANGED <<staged, files, rows, used, req, stops>>

Done(x) == [sweep EXCEPT !.at = "list", !.todo = @ \ {x}, !.id = Nil]

\* The age of the .info file as it is now.
Look(x) ==
  /\ sweep.at = "list" /\ x \in sweep.todo
  /\ sweep' = IF x \in DOMAIN staged /\ staged[x].info /\ staged[x].old
              THEN [sweep EXCEPT !.at = "info", !.id = x] ELSE Done(x)
  /\ UNCHANGED <<staged, files, rows, used, req, stops>>

RemoveInfo ==
  /\ sweep.at = "info"
  /\ staged' = IF sweep.id \in DOMAIN staged
               THEN Keep(sweep.id, FALSE, staged[sweep.id].data) ELSE staged
  /\ sweep' = [sweep EXCEPT !.at = "data"]
  /\ UNCHANGED <<files, rows, used, req, stops>>

\* Mutant: an upload is its .info file.
RemoveNoData == staged

RemoveData ==
  IF sweep.id \in DOMAIN staged THEN Keep(sweep.id, staged[sweep.id].info, FALSE) ELSE staged

RemoveBytes ==
  /\ sweep.at = "data"
  /\ staged' = RemoveData
  /\ sweep' = Done(sweep.id)
  /\ UNCHANGED <<files, rows, used, req, stops>>

CollectEnd ==
  /\ sweep.at = "list" /\ sweep.todo = {}
  /\ sweep' = Off
  /\ UNCHANGED <<staged, files, rows, used, req, stops>>

\* Requests and the sweep stop where they are.
Stop ==
  /\ stops < MaxStops
  /\ Busy # {} \/ sweep # Off
  /\ req' = [p \in Procs |-> Idle]
  /\ sweep' = Off
  /\ stops' = stops + 1
  /\ UNCHANGED <<staged, files, rows, used>>

-----------------------------------------------------------------------------
Step(p) ==
  \/ ChooseName(p) \/ CheckUpload(p) \/ PlaceUpload(p) \/ Checksum(p) \/ InsertRow(p)
  \/ CheckSave(p) \/ PlaceSave(p) \/ UpdateRow(p) \/ Charge(p)

Sweep == Collect \/ (\E x \in Ids : Look(x)) \/ RemoveInfo \/ RemoveBytes \/ CollectEnd

Next ==
  \/ \E x \in Ids :
       \/ \E name \in Names, size \in Sizes, deferred \in BOOLEAN : Post(x, name, size, deferred)
       \/ Terminate(x) \/ Age(x) \/ Erase(x)
  \/ \E p \in Procs :
       \/ \E x \in Ids : Write(p, x) \/ \E s \in Ids, size \in Sizes : Save(p, x, s, size)
       \/ Step(p)
  \/ Sweep
  \/ Stop

Spec == Init /\ [][Next]_vars

\* Requests go on, time passes, and the timer fires (runPeriodically); whether a
\* client ever comes back is its own affair.
FairSpec ==
  /\ Spec
  /\ \A p \in Procs : WF_vars(Step(p))
  /\ \A x \in Ids : WF_vars(Age(x))
  /\ WF_vars(Sweep)

-----------------------------------------------------------------------------
(* Properties. *)

MaxSize == Max(Sizes)

\* Requests that check the quota at a time can pass it together, and overshoot it
\* by what all but one of them bring, never by more, however many uploads were
\* begun while there was room (preCreate's check is optimistic).
OvershootIsBounded == used <= Quota + (Cardinality(Procs) - 1) * MaxSize

\* Every item has its bytes on disk, nobody else's, and, unless a save is under
\* way or was cut short, the checksum of these bytes.
RowsHaveTheirBytes ==
  \A x \in DOMAIN rows :
    /\ rows[x].name \in DOMAIN files
    /\ files[rows[x].name].of = x
    /\ stops = 0 /\ Saving(x) = {} => files[rows[x].name].sum = rows[x].sum

\* With no request under way "DB and disk [are] in agreement" (FinalizeUpload,
\* Move, Restore), since names are made unique "before either the filesystem or
\* the unique index ever sees a conflict" (NameExists).
DiskAgrees == Busy = {} => \A x \in DOMAIN rows : rows[x].name \in DOMAIN files

\* With no request under way the counter is the sum of the sizes, except for what
\* was in flight when the server stopped: a stop costs at most one charge of each
\* request, though nothing ever makes up for it (FinalizeUpload's Note).
CounterIsNear ==
  Busy = {} =>
    LET sum == MapThenSumSet(LAMBDA x : rows[x].size, DOMAIN rows)
        lost == stops * Cardinality(Procs) * MaxSize
    IN used - sum \in (-lost)..lost

\* As long as the server does not stop, everything leaves the staging directory:
\* it becomes an item, or is removed on failure, or is collected.
EverythingStagedGoes ==
  \A x \in Ids : x \in DOMAIN staged ~> (x \notin DOMAIN staged \/ stops > 0)
=============================================================================
