------------------------------- MODULE Tables -------------------------------
(***************************************************************************)
(* The rows the game keeps in Postgres - rounds, bets, and the ledger      *)
(* transactions that reference a bet - and the pure computations on them.  *)
(* Both the atomic table (RoundBook) and the model of its transactions     *)
(* (Betting) are built from these definitions.                             *)
(*                                                                         *)
(* Time is counted in ticks of the crash curve (TICK_MS); amounts are      *)
(* minor units, multipliers and odds basis points.                         *)
(***************************************************************************)
EXTENDS Money, Sequences

CONSTANTS
  Users,        \* players; each owns exactly one wallet account
  Keys,         \* idempotency keys a client may send
  Stakes,       \* stakes between MIN_STAKE_MINOR and MAX_STAKE_MINOR
  MaxRounds,    \* bound: rounds the engine may open
  MaxAge,       \* bound: ticks counted after a round starts
  Grace,        \* ROUND_STALE_GRACE_MS, in ticks
  SpinTicks,    \* ROULETTE_SPIN_MS, in ticks
  Curve,        \* the crash curve: multiplier in basis points at each tick
  CrashPoints,  \* crash points the fairness provider may draw
  Pockets,      \* pockets of the wheel
  Selections,   \* what a roulette bet can back
  Covers,       \* the pockets each selection wins on
  Odds          \* total-return odds of each selection, in basis points

ASSUME BoundsAssumption ==
  /\ MaxRounds \in Nat
  /\ MaxAge \in Nat
  /\ Grace \in Nat
  /\ SpinTicks \in Nat

ASSUME StakesAssumption == Stakes \subseteq Nat \ {0}

\* multiplierAtTick is a monotonic integer table that starts at 1.00x.
ASSUME CurveAssumption ==
  /\ Curve \in [0..MaxAge -> Nat]
  /\ \A t \in 0..MaxAge : Curve[t] >= BasisPointsOne
  /\ \A s, t \in 0..MaxAge : s =< t => Curve[s] =< Curve[t]

ASSUME OutcomesAssumption ==
  /\ CrashPoints \subseteq Nat
  /\ Pockets \subseteq Nat

ASSUME OddsAssumption ==
  /\ Covers \in [Selections -> SUBSET Pockets]
  /\ Odds \in [Selections -> Nat]
  /\ \A s \in Selections : Odds[s] > BasisPointsOne

-----------------------------------------------------------------------------
(* rounds *)

RoundIds == 1..MaxRounds      \* in nonce order
Games == {"CRASH", "ROULETTE"}
LiveStatuses == {"OPEN", "LOCKED", "RUNNING"}
RoundStatuses == LiveStatuses \cup {"RESOLVED", "SETTLED", "VOIDED"}
Outcomes == CrashPoints \cup Pockets

NoRound == [status |-> "NONE"]

\* outcome is crash_point_bp or winning_pocket; age counts the ticks since
\* started_at and stops at MaxAge.
Round == [game : Games, outcome : Outcomes, status : RoundStatuses,
          age : 0..MaxAge]

OutcomesOf(game) == IF game = "CRASH" THEN CrashPoints ELSE Pockets

NewRound(game, outcome) ==
  [game |-> game, outcome |-> outcome, status |-> "OPEN", age |-> 0]

\* elapsed >= crashAfterMs + late.  elapsedAtMultiplier is the first tick whose
\* multiplier reaches the crash point, so "elapsed has reached it" is a
\* comparison on the monotonic curve.
ElapsedPast(round, late) ==
  /\ round.age >= late
  /\ \/ round.game = "CRASH" /\ Curve[round.age - late] >= round.outcome
     \/ round.game = "ROULETTE" /\ round.age - late >= SpinTicks

Due(round) == ElapsedPast(round, 0)
Overdue(round) == ElapsedPast(round, Grace)

-----------------------------------------------------------------------------
(* bets *)

\* A bet is known by what bets_user_idempotency makes unique.
BetIds == Users \X Keys
Owner(b) == b[1]

BetStatuses == {"ACTIVE", "WON", "LOST", "VOIDED"}
NoSelection == "no selection"
NoBet == [status |-> "NONE"]

ASSUME SelectionsDiffer == NoSelection \notin Selections

Bet == [round : RoundIds, stake : Stakes,
        selection : Selections \cup {NoSelection}, odds : Nat,
        status : BetStatuses, multiplier : Nat, payout : Nat]

SelectionsOf(game) == IF game = "CRASH" THEN {NoSelection} ELSE Selections

NewBet(r, stake, selection) ==
  [round |-> r, stake |-> stake, selection |-> selection,
   odds |-> IF selection = NoSelection THEN 0 ELSE Odds[selection],
   status |-> "ACTIVE", multiplier |-> 0, payout |-> 0]

Won(bet, bp) == [bet EXCEPT !.status = "WON", !.multiplier = bp,
                            !.payout = Payout(bet.stake, bp)]
\* Mutation of Lost: the loss is written as a negative payout.
LostNegative(bet) == [bet EXCEPT !.status = "LOST", !.payout = -bet.stake]
Lost(bet) == [bet EXCEPT !.status = "LOST", !.payout = 0]
Refunded(bet) == [bet EXCEPT !.status = "VOIDED", !.payout = bet.stake]

\* Settlement of a bet still ACTIVE when its round has resolved.
Settled(bet, round) ==
  IF /\ round.game = "ROULETTE"
     /\ bet.selection # NoSelection
     /\ round.outcome \in Covers[bet.selection]
    THEN Won(bet, bet.odds)
    ELSE Lost(bet)

-----------------------------------------------------------------------------
(* ledger transactions, one amount per account they touch *)

Kinds == {"BET_PLACED", "BET_CASHOUT", "BET_LOST", "ROUND_VOID_REFUND"}
Transaction == [kind : Kinds, wallet : Int, escrow : Int, house : Int]

PlacedTx(stake) ==
  [kind |-> "BET_PLACED", wallet |-> -stake, escrow |-> stake, house |-> 0]
WonTx(stake, payout) ==
  [kind |-> "BET_CASHOUT", wallet |-> payout, escrow |-> -stake,
   house |-> stake - payout]
LostTx(stake) ==
  [kind |-> "BET_LOST", wallet |-> 0, escrow |-> -stake, house |-> stake]
RefundTx(stake) ==
  [kind |-> "ROUND_VOID_REFUND", wallet |-> stake, escrow |-> -stake,
   house |-> 0]

\* The transaction that closes the books of a bet that has just left ACTIVE.
ClosingTx(bet) ==
  CASE bet.status = "WON"    -> WonTx(bet.stake, bet.payout)
    [] bet.status = "LOST"   -> LostTx(bet.stake)
    [] bet.status = "VOIDED" -> RefundTx(bet.stake)

=============================================================================
