--------------------------------- MODULE Ocr ---------------------------------
(***************************************************************************)
(* Content search of one Denizen server: the full-text index, the queue of *)
(* files that need OCR, the attempt markers, and the background sweep that *)
(* works the queue off, against requests that upload, save, move, trash    *)
(* and purge files meanwhile.  Requests and the sweep interleave between   *)
(* SQL statements and between reading a file and storing its text.         *)
(*                                                                         *)
(* A file here is a PDF: it may have a text layer, may be a scan that OCR  *)
(* can read, or have no text at all.  A photo is a scan that is not saved. *)
(***************************************************************************)
EXTENDS Naturals, FiniteSets

CONSTANTS
  Procs,      \* requests that may be under way at a time
  Ids,        \* item ids; each is given to one file (idgen)
  Paths,      \* paths in the users' trees
  Layered,    \* contents with a text layer,
  Scans,      \* with text that only OCR finds,
  Blanks,     \* and with no text
  BatchSize,  \* files that one sweep takes from the queue
  MaxRestarts,
  Offered,    \* what users do: see Kinds
  Overlap,    \* TRUE: requests and sweeps may be under way at one time
  Nil

Kinds == {"save", "move", "trash", "purge", "reindex", "cancel"}
Contents == Layered \cup Scans \cup Blanks

ASSUME NilIsNothing == Nil \notin Ids \cup Paths \cup Contents
ASSUME KindsOffered == Offered \subseteq Kinds
ASSUME Bounds == BatchSize \in Nat \ {0} /\ MaxRestarts \in Nat
ASSUME OverlapIsFlag == Overlap \in BOOLEAN

VARIABLES
  files,      \* the rows of files in items, with the bytes on disk
  index,      \* item_content_fts: the content whose text is stored for an id
  queue,      \* ocr_queue: id -> the ids queued before it (queued_at)
  attempted,  \* ocr_attempts
  req,        \* requests under way
  sweep,      \* the sweep; ocrSweeping is whether it is not "off"
  restarts

vars == <<files, index, queue, attempted, req, sweep, restarts>>

File == [state: {"none", "active", "trash", "gone"}, path: Paths \cup {Nil},
         content: Contents \cup {Nil}]
Request == [at: {"idle", "clear", "extract", "index", "queue", "trigger"},
            file: Ids \cup {Nil}, path: Paths \cup {Nil}, read: Contents \cup {Nil},
            offline: BOOLEAN]
Candidate == [file: Ids, path: Paths]
Sweep == [at: {"off", "list", "next", "store", "mark"}, todo: SUBSET Candidate,
          cur: Ids \cup {Nil}, read: Contents \cup {Nil}]

Idle == [at |-> "idle", file |-> Nil, path |-> Nil, read |-> Nil, offline |-> FALSE]
Off == [at |-> "off", todo |-> {}, cur |-> Nil, read |-> Nil]
Listing == [Off EXCEPT !.at = "list"]

TypeOK ==
  /\ files \in [Ids -> File]
  /\ \A f \in Ids : files[f].state \in {"active", "trash"} =>
       files[f].path \in Paths /\ files[f].content \in Contents
  /\ index \in [Ids -> Contents \cup {Nil}]
  /\ DOMAIN queue \subseteq Ids
  /\ \A f \in DOMAIN queue : queue[f] \subseteq DOMAIN queue \ {f}
  /\ attempted \subseteq Ids
  /\ req \in [Procs -> Request]
  /\ \A p \in Procs : req[p].at # "idle" => req[p].file \in Ids
  /\ sweep \in Sweep
  /\ sweep.at \in {"store", "mark"} => sweep.cur \in Ids
  /\ restarts \in Nat

\* The server starts with a sweep (kickOCRSweep).
Init ==
  /\ files = [f \in Ids |-> [state |-> "none", path |-> Nil, content |-> Nil]]
  /\ index = [f \in Ids |-> Nil]
  /\ queue = [f \in {} |-> {}]
  /\ attempted = {}
  /\ req = [p \in Procs |-> Idle]
  /\ sweep = Listing
  /\ restarts = 0

-----------------------------------------------------------------------------
Active(f) == files[f].state = "active"
Exists(f) == files[f].state \in {"active", "trash"}
Free(path) == \A f \in Ids : Active(f) => files[f].path # path

\* What is at a path: the bytes of the active file there, or nothing.
BytesAt(path) ==
  IF Free(path) THEN Nil
  ELSE files[CHOOSE f \in Ids : Active(f) /\ files[f].path = path].content

\* textextract: pdftotext finds a text layer; OCR finds any text.
TextLayer(c) == IF c \in Layered THEN c ELSE Nil
TextOf(c) == IF c \in Layered \cup Scans THEN c ELSE Nil

\* ocr_queue, oldest first.
Enqueued(f) ==
  IF f \in DOMAIN queue THEN queue
  ELSE [g \in DOMAIN queue \cup {f} |-> IF g = f THEN DOMAIN queue ELSE queue[g]]

\* Mutant: those behind it go on waiting for it.
DequeuedOnly(f) == [g \in DOMAIN queue \ {f} |-> queue[g]]

Dequeued(f) == [g \in DOMAIN queue \ {f} |-> queue[g] \ {f}]

Put(f, c) == index' = [index EXCEPT ![f] = c]

Triggered == IF sweep.at = "off" THEN Listing ELSE sweep

Calm == sweep.at = "off" /\ \A p \in Procs : req[p] = Idle
MayStart == Overlap \/ Calm

-----------------------------------------------------------------------------
(* Requests.  The bytes and the row of an upload or a save are one step    *)
(* here; what follows is best effort and a step per statement.             *)

Goto(p, place) == req' = [req EXCEPT ![p].at = place]

Start(p, place, f, path, offline) ==
  /\ req[p] = Idle
  /\ req' = [req EXCEPT ![p] = [at |-> place, file |-> f, path |-> path, read |-> Nil,
                                offline |-> offline]]

\* FinalizeUpload, as far as the row.
Upload(p, f, path, c) ==
  /\ MayStart
  /\ files[f].state = "none" /\ Free(path)
  /\ files' = [files EXCEPT ![f] = [state |-> "active", path |-> path, content |-> c]]
  /\ Start(p, "extract", f, path, FALSE)
  /\ UNCHANGED <<index, queue, attempted, sweep, restarts>>

\* Mutant: a save does not clear the attempt of the old bytes.
SaveKeepsAttempt(p, f, c) ==
  /\ "save" \in Offered /\ MayStart
  /\ Active(f) /\ files[f].content # c
  /\ files' = [files EXCEPT ![f].content = c]
  /\ Start(p, "extract", f, files[f].path, FALSE)
  /\ UNCHANGED <<index, queue, attempted, sweep, restarts>>

\* ReplaceContent, as far as the row.
Save(p, f, c) ==
  /\ "save" \in Offered /\ MayStart
  /\ Active(f) /\ files[f].content # c
  /\ files' = [files EXCEPT ![f].content = c]
  /\ Start(p, "clear", f, files[f].path, FALSE)
  /\ UNCHANGED <<index, queue, attempted, sweep, restarts>>

\* ReindexAllContent comes to a file: another process, started by hand, that
\* goes through the active files one after the other.
Reindex(p, f) ==
  /\ "reindex" \in Offered /\ MayStart
  /\ Active(f)
  /\ Start(p, "extract", f, files[f].path, TRUE)
  /\ UNCHANGED <<files, index, queue, attempted, sweep, restarts>>

ClearAttempt(p) ==
  /\ req[p].at = "clear"
  /\ attempted' = attempted \ {req[p].file}
  /\ Goto(p, "extract")
  /\ UNCHANGED <<files, index, queue, sweep, restarts>>

\* indexContent reads the file; a file that is not there any more is an error,
\* after which nothing is stored.
Extract(p) ==
  /\ req[p].at = "extract"
  /\ LET c == BytesAt(req[p].path) IN
     req' = [req EXCEPT ![p].read = c, ![p].at = IF c = Nil THEN "queue" ELSE "index"]
  /\ UNCHANGED <<files, index, queue, attempted, sweep, restarts>>

\* IndexContent: no foreign key keeps the index to ids that exist.
IndexContent(p) ==
  /\ req[p].at = "index"
  /\ Put(req[p].file, TextLayer(req[p].read))
  /\ Goto(p, "queue")
  /\ UNCHANGED <<files, queue, attempted, sweep, restarts>>

Answered(p) == IF req[p].offline THEN req' = [req EXCEPT ![p] = Idle] ELSE Goto(p, "trigger")

\* Mutant: a file that had its attempt is queued again.
SetQueuedAgain(p) ==
  LET f == req[p].file IN
  /\ req[p].at = "queue"
  /\ queue' = IF req[p].read \in Layered THEN Dequeued(f)
              ELSE IF Exists(f) THEN Enqueued(f) ELSE queue
  /\ Answered(p)
  /\ UNCHANGED <<files, index, attempted, sweep, restarts>>

\* SetQueued: queued unless it has a text layer or had its attempt; the foreign
\* key refuses a file that is gone.
SetQueued(p) ==
  LET f == req[p].file IN
  /\ req[p].at = "queue"
  /\ queue' = IF req[p].read \in Layered THEN Dequeued(f)
              ELSE IF Exists(f) /\ f \notin attempted THEN Enqueued(f) ELSE queue
  /\ Answered(p)
  /\ UNCHANGED <<files, index, attempted, sweep, restarts>>

\* TriggerOCRSweep at the end of a request: nothing if a sweep is under way.
TriggerOCRSweep(p) ==
  /\ req[p].at = "trigger"
  /\ req' = [req EXCEPT ![p] = Idle]
  /\ sweep' = Triggered
  /\ UNCHANGED <<files, index, queue, attempted, restarts>>

\* The client is gone and the context with it: each of the remaining
\* statements fails, which is logged; the sweep is triggered all the same.
Cancel(p) ==
  /\ "cancel" \in Offered
  /\ req[p].at \in {"clear", "extract", "index", "queue"} /\ ~req[p].offline
  /\ Goto(p, "trigger")
  /\ UNCHANGED <<files, index, queue, attempted, sweep, restarts>>

-----------------------------------------------------------------------------
(* Operations on files that leave the search tables alone, or clean up. *)

Relocate(f, state, path) ==
  /\ MayStart
  /\ files' = [files EXCEPT ![f].state = state, ![f].path = path]
  /\ UNCHANGED <<index, queue, attempted, req, sweep, restarts>>

\* Move, to a name that is free there.
Move(f, path) ==
  /\ "move" \in Offered /\ Active(f) /\ Free(path)
  /\ Relocate(f, "active", path)

Delete(f) ==
  /\ "trash" \in Offered /\ Active(f)
  /\ Relocate(f, "trash", files[f].path)

\* Restore: the old name, or another if it is taken (uniqueName).
Restore(f, path) ==
  /\ files[f].state = "trash" /\ Free(path)
  /\ Free(files[f].path) => path = files[f].path
  /\ Relocate(f, "active", path)

\* Mutant: the index is not cleaned up.
PermanentlyDeleteRow(f) ==
  /\ "purge" \in Offered /\ MayStart
  /\ files[f].state = "trash"
  /\ files' = [files EXCEPT ![f] = [state |-> "gone", path |-> Nil, content |-> Nil]]
  /\ queue' = Dequeued(f)
  /\ attempted' = attempted \ {f}
  /\ UNCHANGED <<index, req, sweep, restarts>>

\* hardDeleteSubtreeRows: the row, what cascades from it, and the index.
PermanentlyDelete(f) ==
  /\ "purge" \in Offered /\ MayStart
  /\ files[f].state = "trash"
  /\ files' = [files EXCEPT ![f] = [state |-> "gone", path |-> Nil, content |-> Nil]]
  /\ queue' = Dequeued(f)
  /\ attempted' = attempted \ {f}
  /\ Put(f, Nil)
  /\ UNCHANGED <<req, sweep, restarts>>

-----------------------------------------------------------------------------
(* The sweep. *)

\* The timer of cmd/server, every OCRSweepInterval.
Tick ==
  /\ MayStart
  /\ sweep.at = "off"
  /\ sweep' = Triggered
  /\ UNCHANGED <<files, index, queue, attempted, req, restarts>>

\* ListPending: the oldest entries whose file is active, as rows that the sweep
\* keeps: a path is derived from the row as it was when it was listed.
Pending == {f \in DOMAIN queue : Active(f)}

\* Mutant: the newest entries first.
BatchNewest == {f \in Pending : Cardinality({g \in Pending : f \in queue[g]}) < BatchSize}

Batch == {f \in Pending : Cardinality(queue[f] \cap Pending) < BatchSize}

ListPending ==
  /\ sweep.at = "list"
  /\ sweep' = IF Batch = {} THEN Off
              ELSE [Off EXCEPT !.at = "next",
                               !.todo = {[file |-> f, path |-> files[f].path] : f \in Batch}]
  /\ UNCHANGED <<files, index, queue, attempted, req, restarts>>

\* OCR reads the next file, wherever its row was when it was listed.  The order
\* within a batch is left open.
NextItem(e) ==
  /\ sweep.at = "next" /\ e \in sweep.todo
  /\ LET c == BytesAt(e.path) IN
     sweep' = [at |-> IF c = Nil THEN "mark" ELSE "store",
               todo |-> sweep.todo \ {e}, cur |-> e.file, read |-> c]
  /\ UNCHANGED <<files, index, queue, attempted, req, restarts>>

StoreText ==
  /\ sweep.at = "store"
  /\ Put(sweep.cur, TextOf(sweep.read))
  /\ sweep' = [sweep EXCEPT !.at = "mark"]
  /\ UNCHANGED <<files, queue, attempted, req, restarts>>

Onward == IF sweep.todo = {} THEN Off ELSE [sweep EXCEPT !.at = "next"]

\* MarkAttempted, in one transaction; the foreign key refuses a file that is gone.
MarkAttempted ==
  LET f == sweep.cur IN
  /\ sweep.at = "mark"
  /\ IF Exists(f)
       THEN attempted' = attempted \cup {f} /\ queue' = Dequeued(f)
       ELSE UNCHANGED <<attempted, queue>>
  /\ sweep' = Onward
  /\ UNCHANGED <<files, index, req, restarts>>

\* A crash or shutdown, and a start: what was under way is forgotten.
Restart ==
  /\ restarts < MaxRestarts
  /\ restarts' = restarts + 1
  /\ req' = [p \in Procs |-> Idle]
  /\ sweep' = Listing
  /\ UNCHANGED <<files, index, queue, attempted>>

-----------------------------------------------------------------------------
Step(p) ==
  ClearAttempt(p) \/ Extract(p) \/ IndexContent(p) \/ SetQueued(p) \/ TriggerOCRSweep(p)

SweepStep ==
  ListPending \/ (\E e \in sweep.todo : NextItem(e)) \/ StoreText \/ MarkAttempted

Next ==
  \/ \E p \in Procs, f \in Ids :
       \/ \E c \in Contents : Save(p, f, c) \/ \E path \in Paths : Upload(p, f, path, c)
       \/ Reindex(p, f)
  \/ \E p \in Procs : Step(p) \/ Cancel(p)
  \/ \E f \in Ids, path \in Paths : Move(f, path) \/ Restore(f, path)
  \/ \E f \in Ids : Delete(f) \/ PermanentlyDelete(f)
  \/ Tick \/ SweepStep \/ Restart

\* The timer goes off while the server runs, and the goroutines of requests and
\* of the sweep get to run: no lock or channel holds them up for ever, and OCR
\* has a time limit (textextract, ocrTimeout).
Fairness == WF_vars(Tick) /\ WF_vars(SweepStep) /\ \A p \in Procs : WF_vars(Step(p))

Spec == Init /\ [][Next]_vars /\ Fairness

-----------------------------------------------------------------------------
(* Properties. *)

\* A file that had its attempt is neither queued nor being worked on: "a
\* genuinely blank/corrupt file only ever costs CPU once" (RunOCRSweep).  A
\* save may clear an attempt while the sweep is at the file, never the reverse.
AtWork == {e.file : e \in sweep.todo} \cup (IF sweep.at \in {"store", "mark"} THEN {sweep.cur} ELSE {})
AttemptedIsDone == attempted \cap (DOMAIN queue \cup AtWork) = {}

\* No file waits in the queue for ever while it is not in trash, whatever is
\* uploaded, saved or moved, and although triggers during a sweep are dropped.
NoneWaitsForever == \A f \in Ids : []<>~(f \in DOMAIN queue /\ Active(f))

\* Where a file keeps its bytes, the index catches up with them: "the new bytes
\* deserve their own fresh attempt instead of staying permanently skipped"
\* (ReplaceContent).
Holds(f, c) == Active(f) /\ files[f].content = c
SearchCatchesUp ==
  \A f \in Ids, c \in Contents : []<>(Holds(f, c) => index[f] = TextOf(c))

\* Text is indexed of files that exist only (RemoveContent).
IndexedFilesExist == \A f \in Ids : files[f].state = "gone" => index[f] = Nil
=============================================================================
