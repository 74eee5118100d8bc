----------------------------- MODULE OcrProofs -----------------------------
(***************************************************************************)
(* Theorems about Ocr for any numbers of requests, files and paths, any    *)
(* contents and any batch size.                                            *)
(***************************************************************************)
EXTENDS Ocr, TLAPS

\* What a sweep holds: nothing before it has listed, each file once, and the
\* one it is at no longer among those to do.
SweepOK ==
  /\ sweep.at \in {"off", "list"} => sweep.todo = {}
  /\ \A e, d \in sweep.todo : e.file = d.file => e = d
  /\ sweep.at \in {"store", "mark"} => \A e \in sweep.todo : e.file # sweep.cur

Inv == TypeOK /\ SweepOK /\ AttemptedIsDone

-----------------------------------------------------------------------------
(* Lemmas about the operators. *)

\* Reading a path yields a content or nothing.
LEMMA BytesType ==
  ASSUME TypeOK, NEW path
  PROVE  BytesAt(path) \in Contents \cup {Nil}
  <1>1. CASE Free(path)
    BY <1>1 DEF BytesAt
  <1>2. CASE ~Free(path)
    <2>1. \E f \in Ids : Active(f) /\ files[f].path = path
      BY <1>2 DEF Free
    <2>2. \A f \in Ids : Active(f) => files[f].content \in Contents
      BY DEF TypeOK, Active
    <2> QED BY <1>2, <2>1, <2>2 DEF BytesAt
  <1> QED BY <1>1, <1>2

QueueOK == DOMAIN queue \subseteq Ids /\ \A f \in DOMAIN queue : queue[f] \subseteq DOMAIN queue \ {f}

\* Queueing and removing keep the order, and what is in it.
LEMMA EnqueuedOK ==
  ASSUME QueueOK, NEW f \in Ids, queue' = Enqueued(f)
  PROVE  QueueOK' /\ DOMAIN queue' = DOMAIN queue \cup {f}
  BY DEF QueueOK, Enqueued

LEMMA DequeuedOK ==
  ASSUME QueueOK, NEW f \in Ids, queue' = Dequeued(f)
  PROVE  QueueOK' /\ DOMAIN queue' = DOMAIN queue \ {f}
  BY DEF QueueOK, Dequeued

\* A sweep that is triggered holds nothing yet, or is the one under way.
LEMMA TriggeredOK ==
  ASSUME TypeOK, SweepOK, AttemptedIsDone, sweep' = Triggered, UNCHANGED <<queue, attempted>>
  PROVE  /\ sweep' \in Sweep
         /\ sweep'.at \in {"store", "mark"} => sweep'.cur \in Ids
         /\ SweepOK' /\ AttemptedIsDone'
  <1>1. CASE sweep.at = "off"
    <2>1. sweep' = [at |-> "list", todo |-> {}, cur |-> Nil, read |-> Nil]
      BY <1>1 DEF Triggered, Listing, Off
    <2> QED BY <2>1 DEF TypeOK, SweepOK, AttemptedIsDone, AtWork, Sweep
  <1>2. CASE sweep.at # "off"
    BY <1>2 DEF Triggered, TypeOK, SweepOK, AttemptedIsDone, AtWork, Sweep
  <1> QED BY <1>1, <1>2

\* Steps that leave the sweep alone keep the rest, if they mark nothing and
\* queue only what is not marked.
LEMMA SweepFrame ==
  ASSUME Inv, UNCHANGED sweep,
         attempted' \subseteq attempted,
         attempted' \cap DOMAIN queue' = {}
  PROVE  SweepOK' /\ AttemptedIsDone'
  BY DEF Inv, SweepOK, AttemptedIsDone, AtWork

-----------------------------------------------------------------------------
(* Each action keeps the invariant. *)

LEMMA InitInv == Init => Inv
  BY NilIsNothing DEF Init, Inv, TypeOK, SweepOK, AttemptedIsDone, AtWork, Idle, Off, Listing,
     File, Request, Sweep

\* What a request that starts must have for its type.
LEMMA StartType ==
  ASSUME TypeOK, NEW p \in Procs, NEW f \in Ids, NEW path \in Paths, NEW off \in BOOLEAN,
         NEW place \in {"clear", "extract"}, Start(p, place, f, path, off)
  PROVE  req' \in [Procs -> Request] /\ \A q \in Procs : req'[q].at # "idle" => req'[q].file \in Ids
  BY DEF TypeOK, Start, Request

LEMMA GotoType ==
  ASSUME TypeOK, NEW p \in Procs, req[p].at # "idle",
         NEW place \in {"extract", "index", "queue", "trigger"}, Goto(p, place)
  PROVE  req' \in [Procs -> Request] /\ \A q \in Procs : req'[q].at # "idle" => req'[q].file \in Ids
  BY DEF TypeOK, Goto, Request

LEMMA EndType ==
  ASSUME TypeOK, NEW p \in Procs, req' = [req EXCEPT ![p] = Idle]
  PROVE  req' \in [Procs -> Request] /\ \A q \in Procs : req'[q].at # "idle" => req'[q].file \in Ids
  BY DEF TypeOK, Idle, Request

FilesOK ==
  /\ files \in [Ids -> File]
  /\ \A f \in Ids : files[f].state \in {"active", "trash"} =>
       files[f].path \in Paths /\ files[f].content \in Contents

LEMMA UploadInv ==
  ASSUME Inv, NEW p \in Procs, NEW f \in Ids, NEW path \in Paths, NEW c \in Contents,
         Upload(p, f, path, c)
  PROVE  Inv'
  <1>1. FilesOK'
    BY DEF Inv, TypeOK, FilesOK, Upload, File
  <1>2. req' \in [Procs -> Request] /\ \A q \in Procs : req'[q].at # "idle" => req'[q].file \in Ids
    BY StartType DEF Inv, Upload
  <1>3. SweepOK' /\ AttemptedIsDone'
    BY SweepFrame DEF Inv, Upload, AttemptedIsDone
  <1> QED BY <1>1, <1>2, <1>3 DEF Inv, TypeOK, FilesOK, Upload

LEMMA SaveInv ==
  ASSUME Inv, NEW p \in Procs, NEW f \in Ids, NEW c \in Contents, Save(p, f, c)
  PROVE  Inv'
  <1>1. FilesOK'
    BY DEF Inv, TypeOK, FilesOK, Save, File
  <1>2. req' \in [Procs -> Request] /\ \A q \in Procs : req'[q].at # "idle" => req'[q].file \in Ids
    BY StartType DEF Inv, Save, Active, TypeOK
  <1>3. SweepOK' /\ AttemptedIsDone'
    BY SweepFrame DEF Inv, Save, AttemptedIsDone
  <1> QED BY <1>1, <1>2, <1>3 DEF Inv, TypeOK, FilesOK, Save

LEMMA ReindexInv ==
  ASSUME Inv, NEW p \in Procs, NEW f \in Ids, Reindex(p, f)
  PROVE  Inv'
  <1>1. req' \in [Procs -> Request] /\ \A q \in Procs : req'[q].at # "idle" => req'[q].file \in Ids
    BY StartType DEF Inv, Reindex, Active, TypeOK
  <1>2. SweepOK' /\ AttemptedIsDone'
    BY SweepFrame DEF Inv, Reindex, AttemptedIsDone
  <1> QED BY <1>1, <1>2 DEF Inv, TypeOK, Reindex

LEMMA StepInv ==
  ASSUME Inv, NEW p \in Procs, Step(p) \/ Cancel(p)
  PROVE  Inv'
  <1> USE DEF Inv
  <1>1. CASE ClearAttempt(p)
    <2>1. SweepOK' /\ AttemptedIsDone'
      BY <1>1, SweepFrame DEF ClearAttempt, AttemptedIsDone
    <2> QED BY <1>1, <2>1, GotoType DEF ClearAttempt, TypeOK
  <1>2. CASE Extract(p)
    <2> DEFINE c == BytesAt(req[p].path)
    <2>1. c \in Contents \cup {Nil}
      BY BytesType
    <2>2. req' = [req EXCEPT ![p].read = c, ![p].at = IF c = Nil THEN "queue" ELSE "index"]
      BY <1>2 DEF Extract
    <2> HIDE DEF c
    <2>3. req' \in [Procs -> Request] /\ \A q \in Procs : req'[q].at # "idle" => req'[q].file \in Ids
      BY <1>2, <2>1, <2>2 DEF TypeOK, Request, Extract
    <2>4. SweepOK' /\ AttemptedIsDone'
      BY <1>2, SweepFrame DEF Extract, AttemptedIsDone
    <2> QED BY <1>2, <2>3, <2>4 DEF Extract, TypeOK
  <1>3. CASE IndexContent(p)
    <2>1. req[p].file \in Ids /\ index' \in [Ids -> Contents \cup {Nil}]
      BY <1>3 DEF IndexContent, TypeOK, Put, TextLayer, Contents
    <2>2. SweepOK' /\ AttemptedIsDone'
      BY <1>3, SweepFrame DEF IndexContent, AttemptedIsDone
    <2> QED BY <1>3, <2>1, <2>2, GotoType DEF IndexContent, TypeOK
  <1>4. CASE SetQueued(p)
    <2>1. req[p].file \in Ids /\ QueueOK
      BY <1>4 DEF SetQueued, TypeOK, QueueOK
    <2>2. QueueOK' /\ attempted \cap DOMAIN queue' = {}
      <3>1. CASE queue' = queue
        BY <3>1, <2>1 DEF QueueOK, AttemptedIsDone
      <3>2. CASE queue' = Dequeued(req[p].file)
        BY <3>2, <2>1, DequeuedOK DEF AttemptedIsDone
      <3>3. CASE queue' = Enqueued(req[p].file) /\ req[p].file \notin attempted
        BY <3>3, <2>1, EnqueuedOK DEF AttemptedIsDone
      <3> QED BY <1>4, <3>1, <3>2, <3>3 DEF SetQueued
    <2>3. SweepOK' /\ AttemptedIsDone'
      BY <1>4, <2>2, SweepFrame DEF SetQueued
    <2>4. req' \in [Procs -> Request] /\ \A q \in Procs : req'[q].at # "idle" => req'[q].file \in Ids
      BY <1>4, GotoType, EndType DEF SetQueued, Answered
    <2> QED BY <1>4, <2>2, <2>3, <2>4 DEF SetQueued, TypeOK, QueueOK
  <1>5. CASE TriggerOCRSweep(p)
    BY <1>5, TriggeredOK, EndType DEF TriggerOCRSweep, TypeOK
  <1>6. CASE Cancel(p)
    <2>1. SweepOK' /\ AttemptedIsDone'
      BY <1>6, SweepFrame DEF Cancel, AttemptedIsDone
    <2> QED BY <1>6, <2>1, GotoType DEF Cancel, TypeOK
  <1> QED BY <1>1, <1>2, <1>3, <1>4, <1>5, <1>6 DEF Step

LEMMA RelocateInv ==
  ASSUME Inv, NEW f \in Ids, Exists(f), NEW state \in {"active", "trash"}, NEW path \in Paths,
         Relocate(f, state, path)
  PROVE  Inv'
  <1>1. FilesOK'
    <2>1. files \in [Ids -> File] /\ files[f].content \in Contents
      BY DEF Inv, TypeOK, Exists
    <2>2. files' = [files EXCEPT ![f] = [files[f] EXCEPT !.state = state, !.path = path]]
      BY <2>1 DEF Relocate
    <2>3. /\ [files[f] EXCEPT !.state = state, !.path = path] \in File
          /\ [files[f] EXCEPT !.state = state, !.path = path].path = path
          /\ [files[f] EXCEPT !.state = state, !.path = path].content = files[f].content
      BY <2>1 DEF File
    <2> QED BY <2>1, <2>2, <2>3 DEF Inv, TypeOK, FilesOK
  <1>2. SweepOK' /\ AttemptedIsDone'
    BY SweepFrame DEF Inv, Relocate, AttemptedIsDone
  <1> QED BY <1>1, <1>2 DEF Inv, TypeOK, FilesOK, Relocate

LEMMA FileOpInv ==
  ASSUME Inv, NEW f \in Ids, NEW path \in Paths, Move(f, path) \/ Restore(f, path)
  PROVE  Inv'
  <1>1. CASE Move(f, path)
    BY <1>1, RelocateInv DEF Move, Active, Exists
  <1>2. CASE Restore(f, path)
    BY <1>2, RelocateInv DEF Restore, Exists
  <1> QED BY <1>1, <1>2

LEMMA DeleteInv ==
  ASSUME Inv, NEW f \in Ids, Delete(f)
  PROVE  Inv'
  <1>1. Exists(f) /\ files[f].path \in Paths
    BY DEF Delete, Active, Exists, Inv, TypeOK
  <1> QED BY <1>1, RelocateInv DEF Delete

LEMMA PermanentlyDeleteInv ==
  ASSUME Inv, NEW f \in Ids, PermanentlyDelete(f)
  PROVE  Inv'
  <1>1. FilesOK' /\ index' \in [Ids -> Contents \cup {Nil}]
    BY DEF Inv, TypeOK, FilesOK, PermanentlyDelete, File, Put
  <1>2. QueueOK' /\ DOMAIN queue' = DOMAIN queue \ {f}
    BY DequeuedOK DEF Inv, TypeOK, QueueOK, PermanentlyDelete
  <1>3. SweepOK' /\ AttemptedIsDone'
    BY <1>2, SweepFrame DEF Inv, PermanentlyDelete, AttemptedIsDone
  <1> QED BY <1>1, <1>2, <1>3 DEF Inv, TypeOK, FilesOK, QueueOK, PermanentlyDelete

LEMMA SweepInv ==
  ASSUME Inv, SweepStep
  PROVE  Inv'
  <1> USE DEF Inv
  <1>1. CASE ListPending
    <2>1. CASE Batch = {}
      <3>1. sweep' = [at |-> "off", todo |-> {}, cur |-> Nil, read |-> Nil]
        BY <1>1, <2>1 DEF ListPending, Off
      <3>2. sweep' \in Sweep /\ SweepOK'
        BY <3>1 DEF Sweep, SweepOK
      <3>3. AtWork' = {}
        BY <3>1 DEF AtWork
      <3> QED BY <1>1, <3>1, <3>2, <3>3 DEF ListPending, TypeOK, AttemptedIsDone
    <2>2. CASE Batch # {}
      <3> DEFINE todo == {[file |-> f, path |-> files[f].path] : f \in Batch}
      <3>1. sweep' = [at |-> "next", todo |-> todo, cur |-> Nil, read |-> Nil]
        BY <1>1, <2>2 DEF ListPending, Off
      <3>2. \A f \in Batch : f \in DOMAIN queue /\ f \in Ids /\ files[f].path \in Paths
        BY DEF Batch, Pending, Active, TypeOK
      <3>3. todo \subseteq Candidate
        BY <3>2 DEF Candidate
      <3>4. \A e, d \in todo : e.file = d.file => e = d
        OBVIOUS
      <3>5. \A e \in todo : e.file \in DOMAIN queue
        BY <3>2
      <3> HIDE DEF todo
      <3>6. sweep' \in Sweep
        BY <3>1, <3>3 DEF Sweep
      <3>7. SweepOK'
        BY <3>1, <3>4 DEF SweepOK
      <3>8. AtWork' = {e.file : e \in todo}
        BY <3>1 DEF AtWork
      <3>9. AttemptedIsDone'
        BY <1>1, <3>5, <3>8 DEF ListPending, AttemptedIsDone
      <3> QED BY <1>1, <3>1, <3>6, <3>7, <3>9 DEF ListPending, TypeOK
    <2> QED BY <2>1, <2>2
  <1>2. ASSUME NEW e \in sweep.todo, NextItem(e)
        PROVE  Inv'
    <2> DEFINE c == BytesAt(e.path)
    <2>1. c \in Contents \cup {Nil}
      BY BytesType
    <2>2. sweep' = [at |-> IF c = Nil THEN "mark" ELSE "store",
                    todo |-> sweep.todo \ {e}, cur |-> e.file, read |-> c]
      BY <1>2 DEF NextItem
    <2> HIDE DEF c
    <2>3. sweep' \in Sweep /\ sweep'.cur \in Ids
      BY <2>1, <2>2 DEF TypeOK, Sweep, Candidate
    <2>4. SweepOK'
      BY <2>2 DEF SweepOK
    <2>5. AttemptedIsDone'
      BY <1>2, <2>2 DEF NextItem, AttemptedIsDone, AtWork
    <2> QED BY <1>2, <2>3, <2>4, <2>5 DEF NextItem, TypeOK
  <1>3. CASE StoreText
    <2>1. sweep' \in Sweep /\ sweep.cur \in Ids /\ sweep'.cur = sweep.cur
      BY <1>3 DEF StoreText, TypeOK, Sweep
    <2>2. index' \in [Ids -> Contents \cup {Nil}]
      BY <1>3, <2>1 DEF StoreText, TypeOK, Put, TextOf, Contents
    <2>3. SweepOK' /\ AttemptedIsDone'
      BY <1>3 DEF StoreText, TypeOK, Sweep, SweepOK, AttemptedIsDone, AtWork
    <2> QED BY <1>3, <2>1, <2>2, <2>3 DEF StoreText, TypeOK
  <1>4. CASE MarkAttempted
    <2>1. sweep.cur \in Ids /\ QueueOK
      BY <1>4 DEF MarkAttempted, TypeOK, QueueOK
    <2>2. /\ attempted' \subseteq attempted \cup {sweep.cur} /\ attempted' \subseteq Ids
          /\ QueueOK' /\ attempted' \cap DOMAIN queue' = {}
      <3>1. CASE Exists(sweep.cur)
        BY <1>4, <2>1, <3>1, DequeuedOK DEF MarkAttempted, AttemptedIsDone, TypeOK
      <3>2. CASE ~Exists(sweep.cur)
        BY <1>4, <2>1, <3>2 DEF MarkAttempted, AttemptedIsDone, TypeOK, QueueOK
      <3> QED BY <3>1, <3>2
    <2>3. sweep' \in Sweep /\ sweep'.at \notin {"store", "mark"} /\ sweep'.todo = sweep.todo
          /\ (sweep'.at \in {"off", "list"} => sweep'.todo = {})
      <3>1. CASE sweep.todo = {}
        BY <1>4, <3>1 DEF MarkAttempted, Onward, Off, Sweep
      <3>2. CASE sweep.todo # {}
        <4>1. sweep' = [sweep EXCEPT !.at = "next"]
          BY <1>4, <3>2 DEF MarkAttempted, Onward
        <4> QED BY <4>1 DEF TypeOK, Sweep
      <3> QED BY <3>1, <3>2
    <2>4. SweepOK' /\ AttemptedIsDone'
      BY <1>4, <2>2, <2>3 DEF MarkAttempted, SweepOK, AttemptedIsDone, AtWork
    <2> QED BY <1>4, <2>2, <2>3, <2>4 DEF MarkAttempted, TypeOK, QueueOK
  <1> QED BY <1>1, <1>2, <1>3, <1>4 DEF SweepStep

LEMMA TickInv ==
  ASSUME Inv, Tick
  PROVE  Inv'
  BY TriggeredOK DEF Inv, Tick, TypeOK

LEMMA RestartInv ==
  ASSUME Inv, Restart
  PROVE  Inv'
  <1>1. sweep' = [at |-> "list", todo |-> {}, cur |-> Nil, read |-> Nil]
    BY DEF Restart, Listing, Off
  <1>2. req' \in [Procs -> Request] /\ \A q \in Procs : req'[q].at = "idle"
    BY DEF Restart, Idle, Request
  <1>3. restarts' \in Nat
    BY DEF Restart, Inv, TypeOK
  <1> QED BY <1>1, <1>2, <1>3 DEF Restart, Inv, TypeOK, SweepOK, AttemptedIsDone, AtWork, Sweep

-----------------------------------------------------------------------------

LEMMA NextInv ==
  ASSUME Inv, [Next]_vars
  PROVE  Inv'
  <1>1. CASE UNCHANGED vars
    BY <1>1 DEF vars, Inv, TypeOK, SweepOK, AttemptedIsDone, AtWork
  <1>2. ASSUME NEW p \in Procs, NEW f \in Ids, NEW c \in Contents,
               Save(p, f, c) \/ \E path \in Paths : Upload(p, f, path, c)
        PROVE  Inv'
    BY <1>2, SaveInv, UploadInv
  <1>3. ASSUME NEW p \in Procs, NEW f \in Ids, Reindex(p, f)
        PROVE  Inv'
    BY <1>3, ReindexInv
  <1>4. ASSUME NEW p \in Procs, Step(p) \/ Cancel(p)
        PROVE  Inv'
    BY <1>4, StepInv
  <1>5. ASSUME NEW f \in Ids, NEW path \in Paths, Move(f, path) \/ Restore(f, path)
        PROVE  Inv'
    BY <1>5, FileOpInv
  <1>6. ASSUME NEW f \in Ids, Delete(f) \/ PermanentlyDelete(f)
        PROVE  Inv'
    BY <1>6, DeleteInv, PermanentlyDeleteInv
  <1>7. CASE Tick \/ SweepStep \/ Restart
    BY <1>7, TickInv, SweepInv, RestartInv
  <1> QED BY <1>1, <1>2, <1>3, <1>4, <1>5, <1>6, <1>7 DEF Next

LEMMA InvHolds == Spec => []Inv
  <1>1. Init => Inv
    BY InitInv
  <1>2. Inv /\ [Next]_vars => Inv'
    BY NextInv
  <1> QED BY <1>1, <1>2, PTL DEF Spec

\* Every variable keeps to its type; the order of the queue is of queued files.
THEOREM OcrTypeCorrect == Spec => []TypeOK
  <1>1. Inv => TypeOK
    BY DEF Inv
  <1> QED BY <1>1, InvHolds, PTL

\* A file with an attempt marker is not queued and no sweep is at it, however
\* saves, purges, reindexing, cancellation and restarts come in between.
THEOREM OneAttempt == Spec => []AttemptedIsDone
  <1>1. Inv => AttemptedIsDone
    BY DEF Inv
  <1> QED BY <1>1, InvHolds, PTL

-----------------------------------------------------------------------------
(* Without overlaps a file is purged only when no request and no sweep is   *)
(* at it, so that none is left to store its text afterwards.                *)

There(f) == files[f].state # "gone"

Tended ==
  /\ \A p \in Procs : req[p].at # "idle" => There(req[p].file)
  /\ \A e \in sweep.todo : There(e.file)
  /\ sweep.at \in {"store", "mark"} => There(sweep.cur)
  /\ IndexedFilesExist

\* A step that purges nothing, indexes only files that are there, and turns to
\* no other files.
LEMMA TendedFrame ==
  ASSUME Inv, Tended,
         \A f \in Ids : There(f) => There(f)',
         \A f \in Ids : There(f)' => There(f),
         \A f \in Ids : index'[f] = index[f] \/ There(f),
         \A p \in Procs : req'[p].at # "idle" =>
           req'[p].file \in Ids /\ There(req'[p].file),
         \A e \in sweep'.todo : e.file \in Ids /\ There(e.file),
         sweep'.at \in {"store", "mark"} => sweep'.cur \in Ids /\ There(sweep'.cur)
  PROVE  Tended'
<1>1. \A p \in Procs : req'[p].at # "idle" => files'[req'[p].file].state # "gone"
  BY DEF There
<1>2. \A e \in sweep'.todo : files'[e.file].state # "gone"
  BY DEF There
<1>3. sweep'.at \in {"store", "mark"} => files'[sweep'.cur].state # "gone"
  BY DEF There
<1>4. IndexedFilesExist'
  BY DEF Tended, There, IndexedFilesExist
<1> QED BY <1>1, <1>2, <1>3, <1>4 DEF Tended, There

\* Steps of a request leave the files and what the sweep is at alone.
LEMMA StepTended ==
  ASSUME Inv, Tended, NEW p \in Procs, Step(p) \/ Cancel(p)
  PROVE  Tended'
<1> DEFINE r == req[p]
<1>1. /\ UNCHANGED files
      /\ sweep' = sweep \/ sweep' = Triggered
      /\ r.at # "idle"
  BY DEF Step, Cancel, ClearAttempt, Extract, IndexContent, SetQueued, TriggerOCRSweep
<1>2. r.file \in Ids /\ There(r.file)
  BY <1>1 DEF Inv, TypeOK, Tended
<1>3. \A f \in Ids : index'[f] = index[f] \/ There(f)
  <2>1. CASE IndexContent(p)
    BY <1>2, <2>1 DEF IndexContent, Put, Inv, TypeOK
  <2>2. CASE ~IndexContent(p)
    <3>1. UNCHANGED index
      BY <2>2 DEF Step, Cancel, ClearAttempt, Extract, SetQueued, TriggerOCRSweep
    <3> QED BY <3>1
  <2> QED BY <2>1, <2>2
<1>4. \A q \in Procs : req'[q].at # "idle" => req'[q].file = req[q].file /\ req[q].at # "idle"
  <2>1. r \in Request /\ req \in [Procs -> Request]
    BY DEF Inv, TypeOK
  <2>2. ASSUME NEW place, Goto(p, place)
        PROVE  \A q \in Procs : req'[q].at # "idle" => req'[q].file = req[q].file /\ req[q].at # "idle"
    BY <1>1, <2>1, <2>2 DEF Goto, Request
  <2>3. ASSUME req' = [req EXCEPT ![p] = Idle]
        PROVE  \A q \in Procs : req'[q].at # "idle" => req'[q].file = req[q].file /\ req[q].at # "idle"
    BY <2>1, <2>3 DEF Idle
  <2>4. CASE Extract(p)
    <3> DEFINE c == BytesAt(r.path)
               d == IF c = Nil THEN "queue" ELSE "index"
    <3>1. req' = [req EXCEPT ![p].read = c, ![p].at = d]
      BY <2>4 DEF Extract
    <3> HIDE DEF c, d
    <3> QED BY <1>1, <2>1, <3>1 DEF Request
  <2> QED BY <2>2, <2>3, <2>4 DEF Step, Cancel, ClearAttempt, IndexContent, SetQueued, Answered,
            TriggerOCRSweep
<1>5. \A q \in Procs : req'[q].at # "idle" => req'[q].file \in Ids /\ There(req'[q].file)
  BY <1>4 DEF Inv, TypeOK, Tended
<1>6. /\ \A e \in sweep'.todo : e.file \in Ids /\ There(e.file)
      /\ sweep'.at \in {"store", "mark"} => sweep'.cur \in Ids /\ There(sweep'.cur)
  <2>1. CASE sweep' = sweep
    <3>1. \A e \in sweep.todo : e.file \in Ids
      BY DEF Inv, TypeOK, Sweep, Candidate
    <3> QED BY <2>1, <3>1 DEF Inv, TypeOK, Tended
  <2>2. CASE sweep' # sweep
    <3>1. sweep' = Listing
      BY <1>1, <2>2 DEF Triggered
    <3> QED BY <3>1 DEF Listing, Off
  <2> QED BY <2>1, <2>2
<1>7. \A f \in Ids : There(f)' <=> There(f)
  BY <1>1 DEF There
<1> QED BY <1>3, <1>5, <1>6, <1>7, TendedFrame

\* What the requests and the sweep are at stays as it is when they do.
LEMMA WorkTended ==
  ASSUME Inv, Tended, UNCHANGED <<req, sweep>>
  PROVE  /\ \A p \in Procs : req'[p].at # "idle" => req'[p].file \in Ids /\ There(req'[p].file)
         /\ \A e \in sweep'.todo : e.file \in Ids /\ There(e.file)
         /\ sweep'.at \in {"store", "mark"} => sweep'.cur \in Ids /\ There(sweep'.cur)
BY DEF Inv, TypeOK, Sweep, Candidate, Tended

\* A request starts at a file that is there.
LEMMA StartTended ==
  ASSUME Inv, Tended, NEW p \in Procs, NEW f \in Ids, There(f), NEW place, NEW path, NEW off,
         Start(p, place, f, path, off), UNCHANGED sweep
  PROVE  /\ \A q \in Procs : req'[q].at # "idle" => req'[q].file \in Ids /\ There(req'[q].file)
         /\ \A e \in sweep'.todo : e.file \in Ids /\ There(e.file)
         /\ sweep'.at \in {"store", "mark"} => sweep'.cur \in Ids /\ There(sweep'.cur)
<1>1. \A q \in Procs : q # p => req'[q] = req[q]
  BY DEF Start, Inv, TypeOK
<1>2. req'[p].file = f
  BY DEF Start, Inv, TypeOK
<1>3. \A q \in Procs : req'[q].at # "idle" => req'[q].file \in Ids /\ There(req'[q].file)
  BY <1>1, <1>2 DEF Inv, TypeOK, Tended
<1> QED BY <1>3 DEF Inv, TypeOK, Sweep, Candidate, Tended

LEMMA NextTended ==
  ASSUME ~Overlap, Inv, Tended, [Next]_vars
  PROVE  Tended'
<1>1. ASSUME NEW p \in Procs, NEW f \in Ids, NEW path \in Paths, NEW c \in Contents,
             Upload(p, f, path, c)
      PROVE  Tended'
  <2>1. There(f) /\ Start(p, "extract", f, path, FALSE) /\ UNCHANGED <<index, sweep>>
    BY <1>1 DEF Upload, There
  <2>2. \A g \in Ids : There(g)' <=> There(g)
    BY <1>1 DEF Upload, There, Inv, TypeOK
  <2> QED BY <2>1, <2>2, StartTended, TendedFrame
<1>2. ASSUME NEW p \in Procs, NEW f \in Ids, NEW c \in Contents, Save(p, f, c)
      PROVE  Tended'
  <2>1. There(f) /\ Start(p, "clear", f, files[f].path, FALSE) /\ UNCHANGED <<index, sweep>>
    BY <1>2 DEF Save, There, Active
  <2>2. \A g \in Ids : There(g)' <=> There(g)
    BY <1>2 DEF Save, There, Active, Inv, TypeOK, File
  <2> QED BY <2>1, <2>2, StartTended, TendedFrame
<1>3. ASSUME NEW p \in Procs, NEW f \in Ids, Reindex(p, f)
      PROVE  Tended'
  <2>1. There(f) /\ Start(p, "extract", f, files[f].path, TRUE) /\ UNCHANGED <<files, index, sweep>>
    BY <1>3 DEF Reindex, There, Active
  <2>2. \A g \in Ids : There(g)' <=> There(g)
    BY <2>1 DEF There
  <2> QED BY <2>1, <2>2, StartTended, TendedFrame
<1>4. ASSUME NEW f \in Ids, NEW state \in {"active", "trash"}, NEW path, Relocate(f, state, path),
             Exists(f)
      PROVE  Tended'
  <2>1. \A g \in Ids : There(g)' <=> There(g)
    BY <1>4 DEF Relocate, Exists, There, Inv, TypeOK, File
  <2>2. UNCHANGED <<req, sweep, index>>
    BY <1>4 DEF Relocate
  <2> QED BY <2>1, <2>2, WorkTended, TendedFrame
<1>5. ASSUME NEW f \in Ids, NEW path \in Paths, Move(f, path) \/ Restore(f, path)
      PROVE  Tended'
  BY <1>4, <1>5 DEF Move, Restore, Active, Exists
<1>6. ASSUME NEW f \in Ids, Delete(f) PROVE Tended'
  BY <1>4, <1>6 DEF Delete, Active, Exists
<1>7. ASSUME NEW f \in Ids, PermanentlyDelete(f) PROVE Tended'
  <2>1. Calm /\ UNCHANGED <<req, sweep>>
    BY <1>7 DEF PermanentlyDelete, MayStart
  <2>2. /\ \A p \in Procs : req'[p].at = "idle"
        /\ sweep'.at = "off" /\ sweep'.todo = {}
    BY <2>1 DEF Calm, Idle, Inv, SweepOK
  <2>3. IndexedFilesExist'
    <3>1. index'[f] = Nil /\ \A g \in Ids : g # f => index'[g] = index[g] /\ files'[g] = files[g]
      BY <1>7 DEF PermanentlyDelete, Put, Inv, TypeOK
    <3> QED BY <3>1 DEF Tended, IndexedFilesExist
  <2> QED BY <2>2, <2>3 DEF Tended
<1>8. CASE ListPending
  <2> DEFINE todo == {[file |-> f, path |-> files[f].path] : f \in Batch}
  <2>1. UNCHANGED <<files, index, req>> /\ (sweep' = Off \/ sweep' = [Off EXCEPT !.at = "next", !.todo = todo])
    BY <1>8 DEF ListPending
  <2>2. \A f \in Batch : f \in Ids /\ There(f)
    BY DEF Batch, Pending, Active, There, Inv, TypeOK
  <2>3. \A e \in todo : e.file \in Ids /\ There(e.file)
    BY <2>2
  <2> HIDE DEF todo
  <2>4. (\A e \in sweep'.todo : e \in todo) /\ sweep'.at \in {"off", "next"}
    <3>1. CASE sweep' = Off
      BY <3>1 DEF Off
    <3>2. CASE sweep' = [Off EXCEPT !.at = "next", !.todo = todo]
      BY <3>2 DEF Off
    <3> QED BY <2>1, <3>1, <3>2
  <2>5. \A p \in Procs : req'[p].at # "idle" => req'[p].file \in Ids /\ There(req'[p].file)
    BY <2>1 DEF Inv, TypeOK, Tended
  <2>6. \A f \in Ids : There(f)' <=> There(f)
    BY <2>1 DEF There
  <2> QED BY <2>1, <2>3, <2>4, <2>5, <2>6, TendedFrame
<1>9. ASSUME NEW e \in sweep.todo, NextItem(e) PROVE Tended'
  <2>1. UNCHANGED <<files, index, req>> /\ sweep'.todo = sweep.todo \ {e} /\ sweep'.cur = e.file
    BY <1>9 DEF NextItem
  <2>2. \A d \in sweep.todo : d.file \in Ids /\ There(d.file)
    BY DEF Inv, TypeOK, Sweep, Candidate, Tended
  <2>3. \A p \in Procs : req'[p].at # "idle" => req'[p].file \in Ids /\ There(req'[p].file)
    BY <2>1 DEF Inv, TypeOK, Tended
  <2>4. \A f \in Ids : There(f)' <=> There(f)
    BY <2>1 DEF There
  <2> QED BY <2>1, <2>2, <2>3, <2>4, TendedFrame
<1>10. CASE StoreText \/ MarkAttempted
  <2>1. /\ UNCHANGED <<files, req>> /\ sweep.at \in {"store", "mark"}
        /\ sweep' \in {[sweep EXCEPT !.at = "mark"], [sweep EXCEPT !.at = "next"], Off}
    BY <1>10 DEF StoreText, MarkAttempted, Onward
  <2>2. sweep.cur \in Ids /\ There(sweep.cur) /\ sweep \in Sweep
    BY <2>1 DEF Inv, TypeOK, Tended
  <2>3. /\ sweep'.todo \subseteq sweep.todo
        /\ sweep'.at \in {"store", "mark"} => sweep'.cur = sweep.cur
    BY <2>1, <2>2 DEF Sweep, Off
  <2>4. \A f \in Ids : index'[f] = index[f] \/ There(f)
    BY <1>10, <2>2 DEF StoreText, MarkAttempted, Put, Inv, TypeOK
  <2>5. \A d \in sweep.todo : d.file \in Ids /\ There(d.file)
    BY DEF Inv, TypeOK, Sweep, Candidate, Tended
  <2>6. \A p \in Procs : req'[p].at # "idle" => req'[p].file \in Ids /\ There(req'[p].file)
    BY <2>1 DEF Inv, TypeOK, Tended
  <2>7. \A f \in Ids : There(f)' <=> There(f)
    BY <2>1 DEF There
  <2> QED BY <2>2, <2>3, <2>4, <2>5, <2>6, <2>7, TendedFrame
<1>11. CASE Tick \/ Restart \/ UNCHANGED vars
  <2>1. UNCHANGED <<files, index>> /\ (sweep' = sweep \/ sweep' = Listing)
    BY <1>11 DEF Tick, Triggered, Restart, vars
  <2>2. /\ \A e \in sweep'.todo : e \in sweep.todo
        /\ sweep'.at \in {"store", "mark"} => sweep' = sweep
    BY <2>1 DEF Listing, Off
  <2>3. \A p \in Procs : req'[p].at # "idle" => req'[p] = req[p]
    BY <1>11 DEF Tick, Restart, vars, Idle
  <2> QED BY <2>1, <2>2, <2>3 DEF Tended, There, IndexedFilesExist
<1> QED BY <1>1, <1>2, <1>3, <1>5, <1>6, <1>7, <1>8, <1>9, <1>10, <1>11, StepTended
      DEF Next, SweepStep

\* When requests and sweeps do not overlap, no text is kept of a file that was
\* purged, wherever the server stops (RemoveContent, and what may follow it).
THEOREM PurgedTextIsGone ==
  ASSUME ~Overlap
  PROVE  Spec => []IndexedFilesExist
<1>1. Init => Tended
  BY DEF Init, Tended, IndexedFilesExist, Idle, Listing, Off
<1>2. Inv /\ Tended /\ [Next]_vars => Tended'
  BY NextTended
<1>3. Tended => IndexedFilesExist
  BY DEF Tended
<1> QED BY <1>1, <1>2, <1>3, InvHolds, PTL DEF Spec
=============================================================================
