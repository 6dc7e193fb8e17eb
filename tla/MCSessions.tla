----------------------------- MODULE MCSessions -----------------------------
(***************************************************************************)
(* Small instances of Sessions: one account, two or three requests at      *)
(* once, and as many tokens as two rotations of one family need.           *)
(***************************************************************************)
EXTENDS Sessions, TLC

CONSTANTS Alice, c1, c2, c3

OneUser == {Alice}
TwoClients == {c1, c2}
ThreeClients == {c1, c2, c3}
Symmetry == Permutations(Clients)

=============================================================================
