----------------------------- MODULE MCUploads -----------------------------
(* Small instances of Uploads for TLC. *)
EXTENDS Uploads, TLC

Symmetry == Permutations(Procs) \cup Permutations(Ids) \cup Permutations(Names)
=============================================================================
