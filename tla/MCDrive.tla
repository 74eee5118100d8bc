------------------------------ MODULE MCDrive ------------------------------
(* Small instances of Drive for TLC. *)
EXTENDS Drive

MCRequests == Names \X {<<>>}

\* Ids, names and users are only compared for equality.
Symmetry == Permutations(Ids) \cup Permutations(Names) \cup Permutations(Users)

(***************************************************************************)
(* Bounds of the larger runs, as constraints on the states explored from:  *)
(* how many paths the disk holds (orphans pile up where callers are        *)
(* untidy), how often a name was suffixed, how many items are shared.      *)
(***************************************************************************)
CONSTANTS MaxPaths, MaxSuffixes, MaxLinks

Small ==
  /\ Cardinality(DOMAIN disk) <= MaxPaths
  /\ Cardinality(links) <= MaxLinks
  /\ \A x \in Live : Len(rows[x].name[2]) <= MaxSuffixes
=============================================================================
