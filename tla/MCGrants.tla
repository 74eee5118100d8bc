------------------------------ MODULE MCGrants ------------------------------
(* Small instances of Grants for TLC. *)
EXTENDS Grants, TLC

Symmetry == Permutations(Procs) \cup Permutations(Users) \cup Permutations(Ids)
              \cup Permutations(GrantIds)

(***************************************************************************)
(* Bounds, as constraints on the states explored from: how often the       *)
(* tables change under a request, and how many grants, links and stars     *)
(* there are together.                                                     *)
(***************************************************************************)
CONSTANTS MaxOvertaken, MaxRows

Small ==
  /\ \A p \in Procs : req[p].changes <= MaxOvertaken
  /\ Cardinality(DOMAIN grants) + Cardinality(DOMAIN links) + Cardinality(stars) <= MaxRows
=============================================================================
