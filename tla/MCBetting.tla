----------------------------- MODULE MCBetting ------------------------------
(***************************************************************************)
(* Small instances of Betting: stakes of 1 or of 1 and 2, a curve that     *)
(* reaches the crash point 2.00x at its first tick, a one-pocket wheel.    *)
(***************************************************************************)
EXTENDS Betting

CONSTANTS Alice, Bob, k1, k2, c1, c2, e1, e2

OneUser == {Alice}
TwoUsers == {Alice, Bob}
OneKey == {k1}
TwoKeys == {k1, k2}
MCStakes == {1}
OneOrTwo == {1, 2}
MCCurve == [t \in 0..MaxAge |-> 10000 * (t + 1)]
MCCrashPoints == {20000}
InstantCrash == {10000}
MCPockets == {0}
MCSelections == {"red"}
MCCovers == "red" :> {0}
MCOdds == "red" :> 20000
OneClient == {c1}
TwoClients == {c1, c2}
OneEngine == {e1}
TwoEngines == {e1, e2}
AllWorkers == Clients \cup Engines

\* Clients, engines and keys are interchangeable.
Symmetry ==
  {f @@ g @@ h : f \in Permutations(Clients), g \in Permutations(Engines),
                 h \in Permutations(Keys)}

=============================================================================
