----------------------------- MODULE MCGateway ------------------------------
(***************************************************************************)
(* A small instance of Gateway: one socket, a running crash round and a    *)
(* roulette round still to be opened.                                      *)
(***************************************************************************)
EXTENDS Gateway

CONSTANT browser

MCSockets == {browser}
MCStart == <<"RUNNING", "NONE">>

=============================================================================
