-------------------------------- MODULE Disk --------------------------------
(***************************************************************************)
(* The file system under the data directory, as internal/storage uses it.  *)
(* A disk is a function from the paths that exist to what is there: Dir,   *)
(* or the tag of a file's bytes (the id of the row they were written for). *)
(* A path is the sequence of its segments, starting <<user, "files">> or   *)
(* <<user, "trash">>; these two roots are always present (every operation  *)
(* below recreates them with MkdirAll) and are not in the function.        *)
(***************************************************************************)
EXTENDS Integers, Sequences, FiniteSets, SequencesExt

CONSTANT Dir   \* what a directory's path maps to

FilesRoot(u) == <<u, "files">>

\* Mutant: entries of the same name collide.
TrashPathByName(u, id, name) == <<u, "trash", name>>

\* Flat, and keyed by id: two entries never collide whatever their names.
TrashPath(u, id, name) == <<u, "trash", <<id, name>>>>

RootLen == 2

\* The path and every ancestor of it that is not a root.
Lineage(path) == {SubSeq(path, 1, k) : k \in (RootLen + 1)..Len(path)}

Under(d, path) == {q \in DOMAIN d : IsPrefix(path, q)}

IsFile(d, path) == path \in DOMAIN d /\ d[path] # Dir

(***************************************************************************)
(* os.MkdirAll: fails on a file in the way (and has then created nothing), *)
(* accepts directories that are already there.                             *)
(***************************************************************************)
CanMkdir(d, path) == \A q \in Lineage(path) : ~IsFile(d, q)

MkdirAll(d, path) ==
  IF CanMkdir(d, path)
  THEN [q \in DOMAIN d \cup Lineage(path) |-> IF q \in DOMAIN d THEN d[q] ELSE Dir]
  ELSE d

\* The parent directories are made first, and stay when what follows fails.
MkParents(d, path) == MkdirAll(d, Front(path))

(***************************************************************************)
(* os.Rename: the source exists, the destination is not inside it, and is  *)
(* free or a file that a file replaces.  Everything under it moves along.  *)
(***************************************************************************)
CanRename(d, old, new) ==
  /\ old \in DOMAIN d
  /\ CanMkdir(d, Front(new))
  /\ ~IsPrefix(old, new)
  /\ new \in DOMAIN d => IsFile(d, old) /\ IsFile(d, new)

Rebase(path, old, new) == new \o SubSeq(path, Len(old) + 1, Len(path))

Rename(d, old, new) ==
  LET e == MkParents(d, new)
      moved == {Rebase(q, old, new) : q \in Under(e, old)}
      Origin(q) == CHOOSE o \in Under(e, old) : Rebase(o, old, new) = q
  IN IF CanRename(d, old, new)
     THEN [q \in (DOMAIN e \ Under(e, old)) \cup moved |->
             IF q \in moved THEN e[Origin(q)] ELSE e[q]]
     ELSE e

\* A file that was staged elsewhere on the same file system is renamed into
\* place: it replaces a file that is there, never a directory.
CanPlace(d, path) == CanMkdir(d, Front(path)) /\ (path \in DOMAIN d => IsFile(d, path))

\* A file opened with O_CREATE|O_EXCL: it replaces nothing.
CanWrite(d, path) == CanMkdir(d, Front(path)) /\ path \notin DOMAIN d

Put(d, path, tag) == [q \in DOMAIN d \cup {path} |-> IF q = path THEN tag ELSE d[q]]

Place(d, path, tag) ==
  IF CanPlace(d, path) THEN Put(MkParents(d, path), path, tag) ELSE MkParents(d, path)

WriteFile(d, path, tag) ==
  IF CanWrite(d, path) THEN Put(MkParents(d, path), path, tag) ELSE MkParents(d, path)

\* A tree of directories and files that was written over what was there.
Overlay(d, tree) ==
  [q \in DOMAIN d \cup DOMAIN tree |-> IF q \in DOMAIN tree THEN tree[q] ELSE d[q]]

\* os.RemoveAll: a path that is not there is no error.
RemoveAll(d, path) == [q \in DOMAIN d \ Under(d, path) |-> d[q]]
=============================================================================
