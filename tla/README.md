# A verification of Denizen

Denizen is a self-hosted drive: one Go process, one SQLite database behind a
single connection, the files of each user under `users/<name>/files` and
`users/<name>/.trash`, and a Svelte client. This directory holds TLA+ modules
that model parts of it, TLC runs that check them on small instances, and TLAPS
proofs about them. Paths below are relative to the repository.

## Inventory

How the parts interact: HTTP handlers (one goroutine per request) call one
service method each; a service method makes several repository calls, each
one atomic SQL statement on the single connection (`SetMaxOpenConns(1)`,
`internal/db/db.go`), and several `internal/storage` calls; almost none of them
is in a transaction, and nothing in `ItemService` takes a lock. Background
goroutines (`cmd/server/main.go`) call the trash purge, the collection of
abandoned uploads and the OCR sweep on timers. tusd calls
`internal/upload`'s hooks, the OnlyOffice server calls a save callback.

| Component | State | Operations | Hard part | Correct when | Here |
|---|---|---|---|---|---|
| Item tree and trash (`service/item.go`, `repository/item.go`, `storage/storage.go`) | `items` rows; files and directories | create folder/file/blank document, replace content, move, copy, delete, restore, delete for good | each operation changes rows and disk in several steps; recursive walks that stop halfway; requests that act on rows read earlier | rows form a tree of one owner, active under active, unique names; disk mirrors it; restores are complete | `Disk`, `Drive`, `Grants` |
| Quota (`CheckQuota`, `IncrementStorageUsed`) | `users.storage_used_bytes` | check, charge, give back | a counter of deltas; check and charge are apart | the counter is the sum of the owner's file sizes | `Drive`, `Uploads` |
| Shortcuts | `items.target_id` | create, copy, move, delete | a folder shortcut has type folder | flat, targets exist, nothing on disk | `Drive` |
| Trash purge (`PurgeExpiredTrash`) | its list of expired items | list, delete one by one | the list ages; restart | nothing younger than the retention goes | `Drive` |
| Share links (`service/share.go`) | `shares` | create, revoke, resolve | a link to something trashed, expiry | resolves only to active items | `Grants` (`Drive`: that a link exists) |
| User grants (`service/user_share.go`, `resolveGrant`) | `user_shares` | grant, revoke, inherit | the walk up while items move | each decision is that of one state of the tables; search, listings and checks agree | `Grants` |
| Favorites, recent | `item_favorites` | add, remove, list | outlive access | only accessible items are listed | favorites in `Grants` |
| Accounts and sessions (`service/auth.go`, `user.go`) | `users`, `invites`, `refresh_tokens` | bootstrap, invite, register, login, refresh, logout, edit | read-check-write without a transaction | an invite makes one account, a dead token yields nothing | `Invitation`, `Auth` |
| Client session (`web/src/lib/api.ts`, `auth.ts`) | tokens in local storage | fetch, refresh on 401, log out | several requests and tabs | no log-out while the session is good | not modelled |
| Uploads (`internal/upload`) | staging files | create, write, finish, terminate, collect | finish against collect, double quota check | a finished upload is an item, an abandoned one goes away | `Uploads` |
| OCR and search (`RunOCRSweep`, `repository/ocr.go`, `search.go`) | queue, attempt markers, index | enqueue, sweep, mark, reindex | single flight, replaced content | each file is attempted; index matches content | `Ocr` |
| Thumbnails | cache files | get, store, drop older | concurrent fills | a hit is of the current content | not modelled |
| OnlyOffice (`handler/onlyoffice.go`) | document keys | config, callback | late and repeated callbacks | a save lands in the item it was opened from | the save, in `Uploads` |
| Migrations (`internal/db`) | schema version | apply, rebuild a table | stop halfway | each is applied once, in order | not modelled |
| Handlers, router, config, formats, web UI | none | decode, call, encode; render | | | which checks they ask for, in `Grants` |

## Modules

- `Disk` -- pure operators: a disk is a function from paths to `Dir` or to the
  tag of a file's bytes. It says what `os.MkdirAll`, `os.Rename`, an exclusive
  create and `os.RemoveAll` do and when they fail, as `internal/storage` uses them.
- `Drive` -- `ItemService` over the items table, the storage counters and a disk.
- `MCDrive` -- the instances of `Drive` that TLC checks (`MCDrive*.cfg`).
- `DriveProofs` -- theorems about `Drive` for every value of its constants.
- `Sums` -- lemmas about sums over finite sets (`MapThenSumSet`).
- `DriveTreeProofs` -- more theorems about `Drive`: counters, names, shortcuts, walks,
  purges and restores.
- `DriveDiskProofs` -- theorems about `Drive`: what is on disk is what the table says.
- `Invitation` -- the abstract promise of an invite code: redeemed once, by one account.
- `Auth` -- `AuthService` and `UserService`, one step per SQL statement; it implements
  `Invitation` under the refinement mapping `Promise`.
- `MCAuth` -- the instances of `Auth` (`MCAuth*.cfg`).
- `AuthProofs` -- theorems about `Auth`.
- `Ocr` -- the search index, the OCR queue and the background sweep, one step per
  statement and per read of a file.
- `MCOcr` -- the instances of `Ocr` (`MCOcr*.cfg`).
- `OcrProofs` -- theorems about `Ocr`.
- `Grants` -- who may do what: grants, links, favorites, and requests that read the
  tables one row at a time while others move, trash, share and revoke.
- `MCGrants` -- the instances of `Grants` (`MCGrants*.cfg`).
- `GrantsProofs` -- theorems about `Grants`.
- `Uploads` -- staging, commit, saves and the collection of garbage, one query,
  rename or removal per step.
- `MCUploads` -- the instances of `Uploads` (`MCUploads*.cfg`).
- `UploadsProofs` -- theorems about `Uploads`.

No module composes two of these. They overlap on the item tree instead, each at the
grain its properties need: `Drive` has all of a handler in one step, with paths, names,
bytes and counters; `Grants` has each check and each effect as a step, and of an item
only the columns that access depends on; `Uploads` has each call in a folder of one
owner; `Ocr` has the files alone. A product of them would be beyond TLC, and what each
assumes of the others is said in its section.

### Drive and the code

| Variable | Code |
|---|---|
| `rows` | the `items` table; `deleted` is `deleted_at`, `target` is `target_id`, `size` is `size_bytes` |
| `disk` | everything under the users' `files` and `.trash` |
| `used` | `users.storage_used_bytes` |
| `links` | the items that `shares.item_id` references |
| `issued` | the ids that `idgen.New` handed out (each is used once) |
| `sweep` | the list that a running `PurgeExpiredTrash` still has to work off, with the `deleted_at` of each entry |
| `now` | the clock |

Each handler is one action that makes all its repository and storage calls,
error paths included: a disk operation that fails leaves the directories made
on the way; a folder copy, a restore or a permanent delete that stops halfway
leaves what it did by then (`Completed`). The walks over a subtree are
sequences: `Preorders` for `copyRecursive` and `restoreDescendants`,
`Postorders` for `hardDeleteSubtreeRows`; the order of siblings is open, since
base names have no order here. `PurgeExpiredTrash` is several actions, with
requests in between and a restart that forgets its list.

Abstracted: a name is a base name with the list of suffixes `uniqueName` gave
it; a file's bytes are the id of the row they were written for; checksums, MIME
types, `updated_at`, indexing and OCR triggers are left out (no property is
about them); the disk never fills up and I/O never fails for other reasons than
the state of the tree; callers have passed the access checks (`Get`,
`GetForWrite`), which are in `Grants`. `pathOf` does not return
on a cycle: the handler that calls it then is not enabled (`HasPath`).

### Auth and the code

| Variable | Code |
|---|---|
| `users`, `invites`, `tokens` | the tables `users`, `invites`, `refresh_tokens`; a token's `root` is no column but the token of the login it descends from |
| `access` | when the last access token of an account expires (earlier ones expire earlier) |
| `req` | for each request under way: the call it makes next (`at`) and what it has read or was sent; `late` is no variable of the code |
| `up` | the server process is running |
| `now` | the clock |

A request arrives with its parameters (`Register`, `Login`, `Refresh`,
`Logout`, `Patch`), makes one repository call per step (`ReadInvite`,
`ReadName`, `CreateUser`, `MarkUsed` are `Register`'s, in that order), and ends.
Between any two calls other requests run; the request may be cancelled (its
context is, when the client goes away) and the server may stop. `CreateInvite`
is one statement and one step. Values that never change after they are read
(`invite.GrantsAdmin`, `user.ID`) are read from the table where they are used.
`Boot` is `EnsureBootstrapInvite`, which runs before the server listens.
Passwords are left out: a login with a wrong one is `LoginRefused`. Tokens are
presented by those who were given them, so a refresh with an unknown token,
which changes nothing, is left out, and so is a `PATCH` of an unknown account.

### Ocr and the code

| Variable | Code |
|---|---|
| `files` | rows of `items` that are files, with the path and the bytes on disk that belong to them |
| `index` | `item_content_fts`: of which content the text is stored under an id |
| `queue` | `ocr_queue`; for each id the ids queued before it, which is all that `queued_at` is for |
| `attempted` | `ocr_attempts` |
| `req` | requests that upload or save, from their row on: `ClearAttempt`, `indexContent` (`Extract`, `IndexContent`, `SetQueued`), `TriggerOCRSweep` |
| `sweep` | `RunOCRSweep`: the rows it has listed and still has to do (`todo`), the file it is at and what it read; `ocrSweeping` is `sweep.at # "off"` |

The sweep is `ListPending`, then for each file `NextItem` (OCR reads what is at
the path that follows from the row as listed), `StoreText` and `MarkAttempted`.
The rows of `Drive` are reduced to what matters here: a file is at a path, in
trash or gone. The bytes and the row of an upload, a save or a move change in one
step (`Uploads` takes those apart). A content has a text layer, a text
that only OCR finds, or none; a file that is not at its path is an error. Entries
queued in one second are told apart. A photo is a scan that is never saved;
documents that need no OCR are files with a text layer. A rename keeps the
extension. `Copy` indexes and queues nothing, so it is left out: a copied file is
found by its name only, until it is saved or reindexed. A pass of `-reindex-content` is one
`Reindex` per file. `Overlap` says whether requests and sweeps may be under way
at one time: with it, everything interleaves; without it, each waits for the last.

### Grants and the code

| Variable | Code |
|---|---|
| `items` | the `items` table: owner, parent, type, target, whether `deleted_at` is set |
| `grants`, `links`, `stars` | the tables `user_shares`, `shares`, `item_favorites` |
| `spent` | the ids of items and links that `idgen` handed out |
| `req` | for each request: the checks its handler makes (`checks`), the one it is at (`k`), where `resolveGrant` is (`cur`, and `up`, the parent read with it), and what it was sent; `held` (which of its checks held when it came in; 0 is its link) and `changes` are no variables of the code |
| `now` | the clock |

`ChecksOf` says which checks an operation makes, in order: `GetIncludingTrashed`
("see"), `getReadable` ("read"), `GetForWrite` ("write"), `Get` ("own"), and
`GetForShare` after a link ("active"). `GetItem` is the `GetByID` of a check, `Find`
and `Climb` are the two queries of `resolveGrant`'s loop, `Resolve` is a link's.
When the checks have passed, the request acts on what it has read (`Effect`) in one
step, or ends with nothing done (`Finish`: a name, the quota, the disk). What the
handlers read again is read again: `folderPath` reads the folder (`HasPath`), the
rename finds the bytes only where the item was read to be (`Renamed`, `Trash`), and
the foreign keys and the unique index look at the rows as they are. `Share` is
`FindNone` and `InsertGrant`, two queries. What needs no other check than that the row
is the caller's own (`UpdatePermission`, `Revoke`, `RevokeLink`, `RemoveFavorite`,
`Restore`, `Erase`) is one step. `Nearest` and `May` are the promise: what the checks
would say if they read one state of the tables. `Found`, `ListChildren`,
`ListFavorites` and `ListTrash` are the read-only queries, in one state.

### Uploads and the code

| Variable | Code |
|---|---|
| `staged` | the staging directory: for each upload or staged save its `.info` file, its bytes, whether it is older than `DENIZEN_UPLOAD_GC_AFTER` |
| `files` | a folder on disk: for each name which item's bytes are there, and which version |
| `rows`, `used` | the items in that folder; the owner's `storage_used_bytes` |
| `req` | for each request that finishes an upload or saves a document: its next call and what it has read |
| `sweep` | `CollectGarbage`: the entries listed, the one at hand, which `os.Remove` is next |

`Post`, `Write` and `Terminate` are tusd with the hooks `preCreate`, `preFinish` and
`preTerminate`. `FinalizeUpload` is `ChooseName`, `CheckUpload`, `PlaceUpload`,
`Checksum`, `InsertRow` (with its `RollBack`), `Charge`; `ReplaceContent` is `Save`
(the row is read, the bytes are staged), `CheckSave`, `PlaceSave`, `UpdateRow`, `Charge`.
What tusd does between the hooks (an upload can be resumed while its `.info` and its
bytes are there and no other request holds its lock) is taken from how the hooks use
it. One folder and one owner; a suffix is a number; a version of the bytes is the id it
was staged under. `Erase` is a delete and the purge after it. A stop ends all requests
and the sweep where they are.

### Habits

The API takes every id in every order. Five things that callers may do decide
which properties hold, and the constant `Untidy` names the ones a run allows:
`over_trash` (delete a folder in which something was already trashed),
`inside_trash` (restore or erase something below the top of a trashed subtree),
`shortcut_parent` (give a folder shortcut's id as a parent), `purge_referenced`
(erase, or let the purge erase, what a share link or a shortcut references) and
`restore_listed` (restore what a running purge has listed). The web UI does
the first, the fourth and the fifth; the API alone allows the other two.
The properties of the first group in `Drive` need no restraint; those of the
second are checked without any untidy habit; the findings say which single habit
breaks which.

Two other modules have such constants. `StaleMoves` of `Grants`: whether clients send
moves that change nothing (into the folder, under the name, that the item has). The
web UI sends none, the API takes them. `Overlaps` of `Uploads`: whether an upload is
finished while another of its name has no row yet (`names`), a document is saved twice at
a time (`saves`), or deleted for good while it is saved (`erased`).

## Runs

`Drive`, `Auth` and `Grants` are checked for safety only and state no fairness. There
`CHECK_DEADLOCK FALSE`, since ids and time run out in a finite instance; so do the ids of
`Uploads`, since what a stop leaves in the staging directory stays. `Ocr`
assumes that the timer keeps going off (`Tick`) and that the steps of the sweep
and of each request are taken eventually: goroutines are scheduled, no lock holds
them up, each statement ends, and OCR runs under a time limit (`ocrTimeout`).
`Uploads` assumes the same of its requests and its sweep, which `runPeriodically`
starts, and that time passes (`Age`). Nothing is assumed of users, of cancellation or
of restarts: whether a client ever sends the rest of an upload is its own affair.

| Run | Shows |
|---|---|
| `drive_rows` | two users, any habit but `shortcut_parent`, three items, two sizes: `TypeOK`, `OneOwnerPerTree`, `ShortcutsAreFlat`, `NoActiveUnderTrash`, `UniqueActiveNames`, `QuotaIsSum`, `RowsLeaveViaTrash` |
| `drive_disk` | no untidy habit, three items, a clock of three ticks, purges and restarts: `DiskMatchesTree`, `RestoreIsWhole`, `PurgeRespectsRetention` |
| `drive_copy` | no untidy habit, four items: `TreeIsAcyclic`, `DiskMatchesTree` |
| `auth_requests` | two requests at a time, two accounts, two codes, two refresh tokens, expiry, cancellation and restarts: `NamesAreUnique`, `InvitesAreOneShot` (the refinement), `FoundingEnds`, `LateRefreshFails`, `SessionsStayOver` |
| `auth_alone` | one request at a time, every kind: `TypeOK`, and `NoDanglingAccount`, `OneTokenPerLogin`, `OmittedFieldsAreKept`, which concurrent requests break |
| `ocr_busy` | two files, saves, trash, purges, reindexing, cancelled requests and a restart, all while sweeps run: `TypeOK`, `AttemptedIsDone`, `NoneWaitsForever` |
| `ocr_calm` | three files, batches of two, one thing at a time: `SearchCatchesUp`, `IndexedFilesExist` |
| `grants_each` | one request at a time of every kind, while owners revoke, change, restore and erase under it: `TypeOK`, `OneOwnerPerTree`, `SearchFindsTheReadable`, `ContentNeedsAccess`, `DecisionsAreJustified` |
| `grants_race` | two requests at a time that open, create, move, trash and share: `GrantsAreTheOwners`, `TrashIsListed`, `TreeIsAcyclic`, `DecisionsAreJustified` |
| `uploads` | two uploads or saves at a time, garbage collection and a restart: `TypeOK`, `OvershootIsBounded`, `RowsHaveTheirBytes`, `CounterIsNear`, and the liveness property `EverythingStagedGoes` |
| `half_erased`, `name_race` | one finding each, below |

Bounds. Three items make a folder with two children or a chain, and a copy of a
folder with a new id; four let a folder with a child be copied and the copy be
moved. One base name forces every collision; a quota of two bytes with files of
one byte is reached by the third file. A retention of one tick with a clock up
to two has an expired, an exactly retained and a fresh item. `MaxPaths`,
`MaxSuffixes` and `MaxLinks` of `MCDrive` bound the states that the larger runs
explore from: orphans on disk and suffixes would otherwise grow for ever without
reaching anything new. Ids, names and users are symmetric.

In `Auth` two requests at a time are what each race needs; two accounts are the
loser and the winner of a race; two codes are a bootstrap invite and a second
one, or an invite of an admin; two tokens are a login and a rotation, or two
logins (three in `auth_alone`, a chain of rotations). Times to live of no tick
with a clock from 0 to 1 have rows that are good to the last moment and rows
that expired. `Offered` and `Faults` say which kinds
of request and which faults a run has.

In `Ocr` a second file and batches of one make a file wait behind another while it
is queued again and again; a third in `ocr_calm` stays behind a batch of two. Two
contents suffice in `ocr_busy`, since all that steps ask of one is whether it has a
text layer; `ocr_calm` has one of each kind and a second scan to save over the first.

In `Grants` two items are a folder and what is in it, or two folders that are moved into
each other, or a shortcut and its target; two users are an owner and a guest; two grant
ids let a grant be revoked and given again. `MaxRows` bounds how many grants, links and
stars there are together, `MaxOvertaken` how often the tables change under one request.
`DecisionsAreJustified` is about at most one such change by its own words: with two, a
walk can miss a grant that was revoked in one place and given in another, and no state
had neither. It is about each check by itself, too: a request with two checks may pass the
first, then have the one change take what it passed for and bring what the second asks for
(an owner restores a folder to his root, out of the one that was shared, and with it what
was shared below it on its own). That takes four items, more than the runs have; it was the
attempt to prove the property for both checks together that showed it.

In `Uploads` one base name makes every two uploads collide, two requests are what each
race needs, and two ids are an upload and a second one, or an item and a save of it. A
quota of two with sizes one and two is full, half full, or overshot. `Chunks = 2` lets an
upload lie half sent. One stop is enough for each place where one can happen.

## Findings

1. `half_erased`: deleting an item for good that has a share link or a shortcut:
   the bytes go, the foreign key keeps the row. (Where no item has either, `NothingHalfErased`
   below proves that this cannot happen.)
2. `name_race`: two uploads of one name are finished at a time. Both get the same free
   name from `uniqueName`; the second rename replaces the first upload's bytes; the unique
   index refuses the second row; the roll back renames the second one's bytes away. The
   first item has a row, and nothing on disk.

Seen in the models, without a run of their own; the property named breaks when the
habit or the concurrency named is allowed:

- `DiskMatchesTree`, `over_trash`: delete a file, delete its
  folder, restore the folder. `restoreDescendants` makes the file's row active, its bytes
  stay in their own entry of `.trash`.
- `NoDanglingAccount`, two requests: of two registrations with one invite the loser is
  told that the code is used, and its account stays, although `auth.go:166-169` says of
  that branch that it leaves none behind.
- `SearchCatchesUp`, `Overlap`: a scan is saved while OCR reads its old bytes.
  `MarkAttempted` marks the id and takes what the save queued off the queue: the new
  bytes are never read.
- `TreeIsAcyclic` and `TrashIsListed` of `Grants`, `StaleMoves`: a request to move an item
  to where it is renames nothing, so nothing stops it when two other moves overtake it, and
  its row update closes a cycle; what is then deleted in it is under no entry of the trash.
- `RowsHaveTheirBytes` and `CounterIsNear`, `saves` or `erased`: two saves of one document
  charge the difference from the same old size, and may leave the checksum of one with the
  bytes of the other; a save that is overtaken by the delete puts bytes back that no row
  has, and charges for them.
- A stop between the two `os.Remove` of `CollectGarbage`, or while a save is staged, leaves
  bytes without an `.info` file, which no later collection looks at. An upload that is
  resumed after `CollectGarbage` has looked at its age is lost. A commit that fails or is cut
  short after the last byte is not tried again, since tusd calls `preFinish` once.
- `TreeIsAcyclic`, `shortcut_parent`: `Move` of a folder shortcut into itself. The
  descendant check is skipped for shortcuts while the destination may be one, and
  `pathOf` does not return on the cycle.
- `PurgeRespectsRetention`, `restore_listed`: restored and trashed again while the
  purge works through its list, an item is gone without the retention.
- `RestoreIsWhole`, `over_trash`: a folder in trash may hold two items of one
  name, and the unique index stops `restoreDescendants` at the second.
- An item created under a folder shortcut's id (`shortcut_parent`) makes a
  directory at the shortcut's path, where `model.go` says nothing is on disk.
- `OmittedFieldsAreKept`, two requests: of two `PATCH` requests of one account,
  each with another field, one is undone.
- `OneTokenPerLogin`, two requests: two refreshes of one token both pass the check
  before either revokes it. What holds under interleaving is `LateRefreshFails`.
- Every start before the first registration makes another invite that grants
  admin. What holds is `FoundingEnds`.
- `SearchCatchesUp`, `reindex`: `-reindex-content` stores the empty text layer of a
  scan over the text that OCR had found, and the attempt marker keeps the scan
  from being queued again, so it is found by its name only until it is saved.
- `SearchCatchesUp`, `Overlap`: a file that is moved, or trashed and restored, after
  the sweep has listed it is marked without having been read, or with the text of
  another file that got its path.
- `SearchCatchesUp`, `cancel` or a restart between a file's row and its queue entry:
  the file is never queued. (`ocr_busy` still shows that what was queued is tried.)
- `IndexedFilesExist`, `Overlap`: a sweep that is at a file while it is purged stores
  its text afterwards; no later step removes it.

## Proofs

`DriveProofs` proves, for any constants that satisfy the assumptions in `Drive`
(finitely many ids, `Nil` is no id or number, requests are names, sizes and
bounds are naturals) and any habits:

- `TypeCorrect`: `Spec => []TypeOK`
- `ActiveTree`: `Spec => []NoActiveUnderTrash`
- `OwnedTree`: `Spec => []OneOwnerPerTree`
- `NothingActiveIsLost`: `Spec => RowsLeaveViaTrash`

The inductive invariant is `Inv`, the conjunction of the three state
properties; each needs the others. That a delete marks every active item below
the top needs the children to have the parent's owner (`markSubtreeDeleted` asks
for one owner's children); that nothing active is left under trash after a
partial restore needs preorder walks to complete a parent before its children
(`CompletedParents`); that a partial purge leaves no orphan needs that a row goes
only when no remaining row has it as a parent (`EraseInv`); that a copy is a tree
again needs fresh ids and an injective renaming (`CopyInv`). The lemmas before
these are about `Below` (a least fixed point over the children relation) and the
disk operators. One lemma per action then shows that it keeps `Inv`.

`DriveTreeProofs` adds to `Inv`, each time with one lemma per action:

- `CountersAreExact`: `Spec => []QuotaIsSum`, any habits. `QuotaHeld` says the same of
  numbers only, since nothing else says that a counter is one. `Sums` has what it takes: a
  sum over a finite set is that of the set without an element plus the element's
  (`SumAdd`, which constructs the function that the sum's definition asks for), so sums of
  disjoint sets add up, and renaming a set's elements does not change its sum (a copy's ids).
- `FlatShortcuts`: `Spec => []ShortcutsAreFlat`, any habits. Inductive with `Inv`: what a
  shortcut references is never erased (`Referenced`), a copy has no shortcut below its top.
- `ActiveNamesAreUnique`: `Spec => []UniqueActiveNames`, any habits. `uniqueName`'s
  candidates for the top, preorder walks and the index check for what follows it.
- `WalksEnd`: `Spec => []TreeIsAcyclic`, if no shortcut is given as a parent. The invariant
  `NoLoop` is that no set of items is closed under parents: a cycle that a move closed would
  go through the moved item and the destination, which was checked not to be below it.
- `PurgesOnlyExpired`: `Spec => PurgeRespectsRetention`, if nothing on a running purge's list is
  restored. `Aged` says that what is below a listed item went into the trash with it or
  before; `Listed`, that a listed item still in the table has the date it was listed with.
- `RestoresWhole`: `Spec => RestoreIsWhole`, if no folder is trashed over trash.
  `DistinctInTrash`: names below one trashed folder differ, so the index stops nothing.

`DriveDiskProofs` proves, for any constants and no habit (`Untidy = {}`; the list above
says what each habit breaks):

- `DiskAndTableAgree`: `Spec => []DiskMatchesTree`
- `NothingHalfErased`: `Spec => EraseIsWhole`

The invariant is `DiskInv`. `Location` is recursive along parents, so it speaks of places
instead: an `L` with `Places(rows, L)` gives each row the path that follows from that of its
parent (`PlaceOf`), and `Mirrors(rows, L, disk)` says that the disk has the real rows' files and
directories there and nothing else. Where no set is closed under parents (`NoLoop`) there is
such an `L`, it is the only one and it is `Location`; where names differ (`NamesUnique`,
`DistinctInTrash`) no two rows have one place. Hence `Settled`, which is what `DriveTreeProofs`
has shown. Then a rename, which moves every path below it at once, does to the disk what
`Moved` does to the places (`MovedPlaces`, `MovedDisk`): this serves moves, deletes and restores,
and a rename that fails leaves both alone. `AddedPlaces` and `AddedDisk` serve what is created,
`CopyPlaces` and `CopyDisk` the copy of a folder, which adds rows and directories in a preorder
walk and may stop early. For an erase, what is under the removed path is exactly what is below
the item (`BelowIsUnder`); for a purge this needs that what is on its list still is the top of
a trashed tree (`TopsListed`) and that such a tree has one date (`SameDate`). Paths enter
through a few lemmas on `IsPrefix` and `Rebase`, proved first and cited by name.

`AuthProofs` proves, for any numbers of requests, accounts, codes, tokens and
names, any times to live, and any faults (assumptions: `Nil` is no id or value,
the default quota is a quota, times are naturals, the kinds offered are kinds):

- `AuthTypeCorrect`, `UniqueNames`, `LateRefreshesFail`: the invariants `TypeOK`,
  `NamesAreUnique`, `LateRefreshFails`
- `AdminsAreFounders`: `Spec => FoundingEnds`
- `DeadSessionsStayDead`: `Spec => SessionsStayOver`
- `OneShotInvites`: `Spec => InvitesAreOneShot`, `Auth` implements `Invitation`

and for one request at a time (`Alone`), which `auth_alone` shows on an instance and
concurrent requests break:

- `AccountsHaveInvites`: `Spec => []NoDanglingAccount`, if none is cut short (`Faults = {}`)
- `OneGoodToken`: `Spec => []OneTokenPerLogin`, with any faults
- `OmittedFieldsStay`: `Spec => OmittedFieldsAreKept`, with any faults

The inductive invariant `Inv` adds to the type: what a request has read is still
in the tables (`RequestsOK`, which holds because tables only grow and dead tokens
stay dead: `TablesGrow`), and that an account about to be credited with an invite
is credited with none and is no other request's (`Credits`). The last is what the
refinement needs: `MarkUsed` maps to `Redeem` or to a stutter, a new invite to
`Issue`, every other step to a stutter. `FoundingFrame` and `OverFrame` say what a
step must keep for the founding, or a session, to stay over. The last three add what a
request on its own may rely on: `Unspent` (the code it has read is unused still), `Rotated`
(the token it is about to replace is dead by then), `AsRead` (the account is as it was read).

`OcrProofs` proves, for any numbers of requests, files and paths, any contents,
batch size and habits (assumptions: `Nil` is no id, path or content, the kinds
offered are kinds, the bounds are naturals):

- `OcrTypeCorrect`: `Spec => []TypeOK`
- `OneAttempt`: `Spec => []AttemptedIsDone`

The inductive invariant adds that a sweep that has listed nothing holds nothing,
and that it holds each file once (`SweepOK`): otherwise it would be at a file that it
has marked itself. And for one thing at a time:

- `PurgedTextIsGone`: `Spec => []IndexedFilesExist`, if `~Overlap`. `Tended`: neither a
  request nor a sweep is at a file that is gone.

The liveness properties of `Ocr` are only model-checked.

`GrantsProofs` proves, for any numbers of requests, users and items, and any kinds of
request (assumptions: `Nil` is no id and no user, the kinds offered are kinds, the
clock's bound is a natural):

- `GrantsTypeCorrect`, `OwnersGrant`, `OneOwner`: the invariants `TypeOK`,
  `GrantsAreTheOwners`, `OneOwnerPerTree`
- `NoCycles`, `NothingHidesInTrash`: `TreeIsAcyclic` and `TrashIsListed`, both under
  `~StaleMoves`, without which they do not hold (above)
- `SearchAndReadAgree`: `SearchFindsTheReadable`, under `~StaleMoves`
- `ChecksDecide`, `OpeningNeedsAccess`: the action properties `DecisionsAreJustified` and
  `ContentNeedsAccess`, under `~StaleMoves`

The inductive invariant `Inv` is `TypeOK /\ TreeOK /\ Rooted /\ GrantsAreTheOwners /\
RequestsOK`. `TreeOK` says that parents exist, are no shortcuts and have the owner of what is in
them; `Rooted` that no set of items is closed under parents, which a rename cannot break
since its destination is not below what is renamed at that moment; `RequestsOK` that what a
request holds is of ids that were handed out, so that a fresh one is never in its hands, and
that only who passed the check for the owner is about to share.

`Nearest` is recursive along parents. Where no set is closed under parents, the function that
its definition chooses is constructed set by set, so that its equation holds (`NearestWalks`):
the nearest grant is an item's own or that of its parent. `AllJustified` says of each request
what its walk has shown so far: if nothing has changed, what is left of the walk comes to what
the check comes to; after one change, the walk from where it is comes to what the check comes
to in the state before or in the one now. That needs `WalkAcrossChange`: a change touches the
column or the grants of one item, and a walk during which that happens has either passed the
item or has not.

`UploadsProofs` proves, for any numbers of requests, ids, names, sizes and writes per upload,
any quota and any number of restarts (assumptions: `Nil` is no id or name, sizes, the quota
and the bound of stops are naturals, an upload takes at least one write; the sets of sizes and
of requests are finite and not empty, since the two last properties count with them):

- `UploadsTypeCorrect`: `Spec => []TypeOK`, with any overlaps
- `ItemsHaveTheirBytes`: `Spec => []RowsHaveTheirBytes`, for `Overlaps = {}`
- `OvershootStaysBounded`: `Spec => []OvershootIsBounded`, with any overlaps
- `CounterStaysNear`: `Spec => []CounterIsNear`, for `Overlaps = {}`

The inductive invariant `RowsInv` adds that rows have different names (`NamesDiffer`), that
bytes which are still staged are no item's yet (`StagedOnly`), and for each request what it has done so
far (`UploadOK`, `SaveOK`) and that no two are at one name or one item (`Apart`). That
`uniqueName` finds a name at all is a pigeonhole over the finitely many rows
(`SomeNameIsFree`), which the type invariant needs.

`Roomy` bounds the counter while requests are past their check: what they bring at most
fits on top of it. `BooksInv` adds to `RowsInv` that the counter is the sum of the rows, less what
each request has still to charge, up to what stops have lost (`Balanced`), and that a
save knows the size it replaces (`Tracked`).

Only model-checked: the liveness of `SearchCatchesUp`, `NoneWaitsForever` and
`EverythingStagedGoes`, which is out of the prover's reach. Every invariant and every
other action property that a passing run checks is a theorem.

## Not modelled

- The web client's session (`web/src/lib/api.ts`) and the UI. What the server does when two
  requests refresh one token is in `Auth`; who is logged out by it is not.
- The thumbnail cache and OnlyOffice's document key, both derived from `updated_at` in
  seconds, which no module has.
- The migration runner, which runs alone before the server listens.
- Recent items, `SetMimeType`, name validation, routing, configuration, encoding, templates.
- In `Drive`, `Grants` and `Ocr`: a stop between the rename and the row of a move, a delete or
  a restore. In `Grants`: `Restore` and `Erase` are one step.

## Plan

1. `Session`: the client's requests and tabs that refresh over `Auth`'s `Refresh`: who is
   logged out while the session is good.
2. `Migrate`: versions applied, a table rebuilt, a stop in between.
