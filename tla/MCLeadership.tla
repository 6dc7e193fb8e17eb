---------------------------- MODULE MCLeadership ----------------------------
(***************************************************************************)
(* Leadership with two processes.                                           *)
(***************************************************************************)
EXTENDS Leadership

CONSTANTS p1, p2

TwoProcesses == {p1, p2}

=============================================================================
