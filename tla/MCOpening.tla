----------------------------- MODULE MCOpening ------------------------------
(***************************************************************************)
(* Opening with two processes and chains of two rounds.                    *)
(***************************************************************************)
EXTENDS Opening, TLC

CONSTANTS p1, p2

TwoProcesses == {p1, p2}
Symmetry == Permutations(Processes)

=============================================================================
