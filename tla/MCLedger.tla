------------------------------ MODULE MCLedger ------------------------------
(***************************************************************************)
(* A small instance of Ledger: two people, two requests at once, a grant   *)
(* that covers two small bets or one large, pages of one row.              *)
(***************************************************************************)
EXTENDS Ledger, TLC

CONSTANTS alice, bob, r1, r2

MCEmails == {alice, bob}
MCRequests == {r1, r2}
MCStakes == {1, 2}
MCProfits == {0, 1}
Symmetry == Permutations(Emails) \cup Permutations(Requests)

=============================================================================
