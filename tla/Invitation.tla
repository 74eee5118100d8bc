----------------------------- MODULE Invitation -----------------------------
(***************************************************************************)
(* What invite codes promise: "one-time invite codes; a user account only  *)
(* comes into existence by redeeming one".  A code is issued, and may then *)
(* be redeemed, once, by one account that has redeemed no other; that is   *)
(* never undone.  Auth implements it with a check, an insert and an update *)
(* that other requests come between.                                       *)
(***************************************************************************)
CONSTANTS Codes, Accounts

VARIABLES
  issued,    \* the codes that exist
  redeemed   \* redeemed code -> the account that holds it

TypeOK ==
  /\ issued \subseteq Codes
  /\ DOMAIN redeemed \subseteq issued
  /\ \A c \in DOMAIN redeemed : redeemed[c] \in Accounts

Init == issued = {} /\ redeemed = [c \in {} |-> c]

Issue(c) ==
  /\ c \notin issued
  /\ issued' = issued \cup {c}
  /\ UNCHANGED redeemed

Redeem(c, a) ==
  /\ c \in issued \ DOMAIN redeemed
  /\ \A d \in DOMAIN redeemed : redeemed[d] # a
  /\ redeemed' = [d \in DOMAIN redeemed \cup {c} |-> IF d = c THEN a ELSE redeemed[d]]
  /\ UNCHANGED issued

Next == \E c \in Codes : Issue(c) \/ \E a \in Accounts : Redeem(c, a)

Spec == Init /\ [][Next]_<<issued, redeemed>>
=============================================================================
