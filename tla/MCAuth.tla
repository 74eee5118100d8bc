------------------------------- MODULE MCAuth -------------------------------
(* Small instances of Auth for TLC. *)
EXTENDS Auth, TLC

\* Ids, codes, tokens and names are only compared for equality, and so are the
\* requests under way.
Symmetry ==
  Permutations(Procs) \cup Permutations(Accounts) \cup Permutations(Codes)
    \cup Permutations(Tokens) \cup Permutations(Names)
=============================================================================
