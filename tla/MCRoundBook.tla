---------------------------- MODULE MCRoundBook -----------------------------
(***************************************************************************)
(* A small instance of RoundBook for TLC, played by the rules of the       *)
(* game: the curve is that of Rules at a growth of 3/2 per tick, crash     *)
(* points fall at its first, second and third step, and two of the 37      *)
(* pockets come up.  The rules themselves are checked with it.             *)
(***************************************************************************)
EXTENDS RoundBook, Rules, TLC

CONSTANTS Alice, k1, k2

MCUsers == {Alice}
MCKeys == {k1, k2}
\* A stake of 1 cashed out at 1.50x pays 1: the zero-profit branch.
MCStakes == {1, 2}
MCCurve == [tick \in 0..MaxAge |-> MultiplierAtTick(tick)]
MCCrashPoints == {10000, 14000, 20000}
MCPockets == {0, 1}
MCSelections == {"straight", "red"}

Backed ==
  "straight" :> [type |-> "STRAIGHT", value |-> 0] @@
  "red" :> [type |-> "RED", value |-> NoValue]
MCCovers ==
  [s \in MCSelections |-> {pocket \in MCPockets : SelectionWins(Backed[s], pocket)}]
MCOdds == [s \in MCSelections |-> PriceSelection("ROULETTE", Backed[s]).odds]

\* Hashing never meets the same value twice on chains this short.
MCHashes == 0..10
MCSha256 == [h \in MCHashes |-> (h + 7) % 11]

-----------------------------------------------------------------------------
(* The rules depend on no state: they are looked at once, before any round. *)

BeforeTheFirstRound == \A r \in RoundIds : rounds[r] = NoRound

\* The end of a crash round and the refusal of cash-outs meet at one millisecond.
CurveIsSearchedRight == BeforeTheFirstRound => ResolutionAgreesWithCashOut
\* However a stake is cut into two bets, nothing is gained by it, and never more
\* than one minor unit lost: applyBasisPoints leaves the fractions with the house.
CuttingGainsNothing ==
  BeforeTheFirstRound =>
    \A a, b \in Stakes, tick \in 0..MaxTicks :
      LET paid(stake) == Payout(stake, CrashCurve[tick])
      IN paid(a + b) - (paid(a) + paid(b)) \in {0, 1}
\* No fixed cash-out multiplier is worth more than the stake.
CrashKeepsItsEdge == BeforeTheFirstRound => NoTargetBeatsTheHouse
\* All bets of the roulette table are worth the same.
RouletteKeepsItsEdge == BeforeTheFirstRound => EveryBetHasTheSameEdge
\* Colours, parities, halves, dozens and columns are what they say they are.
TableIsLaidOutRight == BeforeTheFirstRound => CutsCoverTheWheel
\* A revealed seed is proof of its own position in the chain, and of no other.
ChainVerifies == BeforeTheFirstRound => SeedsVerifyInPlace

=============================================================================
