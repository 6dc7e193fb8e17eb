----------------------------- MODULE RoundBook ------------------------------
(***************************************************************************)
(* What the game tables promise: every operation of the round engine and   *)
(* of the betting service as one atomic step.  Betting models the same     *)
(* operations statement by statement and is checked to implement this      *)
(* specification.                                                          *)
(***************************************************************************)
EXTENDS Tables

VARIABLES
  rounds,    \* the row of each round, NoRound before it is inserted
  bets,      \* the row of each (user, key), NoBet before it is inserted
  journal    \* the ledger transactions that reference each bet, oldest first

vars == <<rounds, bets, journal>>

BetsOn(r) == {b \in BetIds : bets[b].status # "NONE" /\ bets[b].round = r}
ActiveOn(r) == {b \in BetsOn(r) : bets[b].status = "ACTIVE"}

TypeOK ==
  /\ rounds \in [RoundIds -> Round \cup {NoRound}]
  /\ bets \in [BetIds -> Bet \cup {NoBet}]
  /\ journal \in [BetIds -> Seq(Transaction)]

Init ==
  /\ rounds = [r \in RoundIds |-> NoRound]
  /\ bets = [b \in BetIds |-> NoBet]
  /\ journal = [b \in BetIds |-> <<>>]

-----------------------------------------------------------------------------
(* the round engine *)

\* openRoundIfDue; the partial unique index admits one live round per game.
OpenRound(r, game, outcome) ==
  /\ \A q \in RoundIds : rounds[q] = NoRound <=> q >= r
  /\ \A q \in RoundIds :
       ~ (rounds[q].status \in LiveStatuses /\ rounds[q].game = game)
  /\ outcome \in OutcomesOf(game)
  /\ rounds' = [rounds EXCEPT ![r] = NewRound(game, outcome)]
  /\ UNCHANGED <<bets, journal>>

LockRound(r) ==
  /\ rounds[r].status = "OPEN"
  /\ rounds' = [rounds EXCEPT ![r].status = "LOCKED"]
  /\ UNCHANGED <<bets, journal>>

StartRound(r) ==
  /\ rounds[r].status = "LOCKED"
  /\ rounds' = [rounds EXCEPT ![r].status = "RUNNING"]
  /\ UNCHANGED <<bets, journal>>

\* The database clock moves on once a round has started.
Elapse(r) ==
  /\ rounds[r].status \in {"RUNNING", "RESOLVED"}
  /\ rounds[r].age < MaxAge
  /\ rounds' = [rounds EXCEPT ![r].age = @ + 1]
  /\ UNCHANGED <<bets, journal>>

ResolveRound(r) ==
  /\ rounds[r].status = "RUNNING"
  /\ Due(rounds[r])
  /\ rounds' = [rounds EXCEPT ![r].status = "RESOLVED"]
  /\ UNCHANGED <<bets, journal>>

\* Give each bet b that closed is defined on the row closed[b], and post the
\* transaction that closes its books.
CloseBets(closed) ==
  /\ bets' = [b \in BetIds |-> IF b \in DOMAIN closed THEN closed[b] ELSE bets[b]]
  /\ journal' = [b \in BetIds |->
                   IF b \in DOMAIN closed THEN Append(journal[b], ClosingTx(closed[b]))
                                          ELSE journal[b]]

\* Mutation of SettleRound: bets already cashed out are not filtered out.
SettleEveryBet(r) ==
  /\ rounds[r].status = "RESOLVED"
  /\ rounds' = [rounds EXCEPT ![r].status = "SETTLED"]
  /\ CloseBets([b \in BetsOn(r) |-> Settled(bets[b], rounds[r])])

\* Mutation of SettleRound: only the winners are looked at.
SettleWinners(r) ==
  /\ rounds[r].status = "RESOLVED"
  /\ rounds' = [rounds EXCEPT ![r].status = "SETTLED"]
  /\ LET rows == [b \in ActiveOn(r) |-> Settled(bets[b], rounds[r])]
     IN CloseBets([b \in {w \in ActiveOn(r) : rows[w].status = "WON"} |-> rows[b]])

SettleRound(r) ==
  /\ rounds[r].status = "RESOLVED"
  /\ rounds' = [rounds EXCEPT ![r].status = "SETTLED"]
  /\ CloseBets([b \in ActiveOn(r) |-> Settled(bets[b], rounds[r])])

\* Nobody resolved the round in time: every stake still in it goes back.
VoidRound(r) ==
  /\ rounds[r].status = "RUNNING"
  /\ Overdue(rounds[r])
  /\ rounds' = [rounds EXCEPT ![r].status = "VOIDED"]
  /\ CloseBets([b \in ActiveOn(r) |-> Refunded(bets[b])])

-----------------------------------------------------------------------------
(* the betting service *)

\* Mutation of PlaceBet: betting stays open until the round starts.
PlaceBetLate(b, r, stake, selection) ==
  /\ bets[b].status = "NONE"
  /\ rounds[r].status \in {"OPEN", "LOCKED"}
  /\ selection \in SelectionsOf(rounds[r].game)
  /\ bets' = [bets EXCEPT ![b] = NewBet(r, stake, selection)]
  /\ journal' = [journal EXCEPT ![b] = Append(@, PlacedTx(stake))]
  /\ UNCHANGED rounds

PlaceBet(b, r, stake, selection) ==
  /\ bets[b].status = "NONE"
  /\ rounds[r].status = "OPEN"
  /\ selection \in SelectionsOf(rounds[r].game)
  /\ bets' = [bets EXCEPT ![b] = NewBet(r, stake, selection)]
  /\ journal' = [journal EXCEPT ![b] = Append(@, PlacedTx(stake))]
  /\ UNCHANGED rounds

\* Mutation of CashOut: no check that the bet is still ACTIVE.
CashOutTwice(b, tick) ==
  LET r == bets[b].round
      row == Won(bets[b], Curve[tick])
  IN /\ bets[b].status # "NONE"
     /\ rounds[r].game = "CRASH"
     /\ rounds[r].status \in {"RUNNING", "RESOLVED"}
     /\ tick =< rounds[r].age
     /\ Curve[tick] < rounds[r].outcome
     /\ bets' = [bets EXCEPT ![b] = row]
     /\ journal' = [journal EXCEPT ![b] = Append(@, ClosingTx(row))]
     /\ UNCHANGED rounds

\* Mutation of CashOut: the crash point itself is still paid.
CashOutAtCrash(b, tick) ==
  LET r == bets[b].round
      row == Won(bets[b], Curve[tick])
  IN /\ bets[b].status = "ACTIVE"
     /\ rounds[r].game = "CRASH"
     /\ rounds[r].status \in {"RUNNING", "RESOLVED"}
     /\ tick =< rounds[r].age
     /\ Curve[tick] =< rounds[r].outcome
     /\ bets' = [bets EXCEPT ![b] = row]
     /\ journal' = [journal EXCEPT ![b] = Append(@, ClosingTx(row))]
     /\ UNCHANGED rounds

\* A cash-out is priced at the tick its clock was read; it may take effect a
\* little later, when the engine has already resolved the round, but never
\* once the round is closed.
CashOut(b, tick) ==
  LET r == bets[b].round
      row == Won(bets[b], Curve[tick])
  IN /\ bets[b].status = "ACTIVE"
     /\ rounds[r].game = "CRASH"
     /\ rounds[r].status \in {"RUNNING", "RESOLVED"}
     /\ tick =< rounds[r].age
     /\ Curve[tick] < rounds[r].outcome
     /\ bets' = [bets EXCEPT ![b] = row]
     /\ journal' = [journal EXCEPT ![b] = Append(@, ClosingTx(row))]
     /\ UNCHANGED rounds

-----------------------------------------------------------------------------
Next ==
  \/ \E r \in RoundIds :
       \/ \E game \in Games, outcome \in Outcomes : OpenRound(r, game, outcome)
       \/ LockRound(r)
       \/ StartRound(r)
       \/ Elapse(r)
       \/ ResolveRound(r)
       \/ SettleRound(r)
       \/ VoidRound(r)
  \/ \E b \in BetIds :
       \/ \E r \in RoundIds, stake \in Stakes,
             selection \in Selections \cup {NoSelection} :
            PlaceBet(b, r, stake, selection)
       \/ \E tick \in 0..MaxAge : CashOut(b, tick)

Spec == Init /\ [][Next]_vars

-----------------------------------------------------------------------------
(* properties *)

\* A bet's books tell exactly its story: nothing before it is placed, the stake
\* in escrow while it is ACTIVE, and then one closing transaction of the kind
\* and amount its verdict calls for - never two, never none.
BooksMatchBets ==
  \A b \in BetIds :
    journal[b] =
      CASE bets[b].status = "NONE"   -> <<>>
        [] bets[b].status = "ACTIVE" -> <<PlacedTx(bets[b].stake)>>
        [] OTHER -> <<PlacedTx(bets[b].stake), ClosingTx(bets[b])>>

\* A SETTLED or VOIDED round has no bet left ACTIVE: no stake is stranded in
\* escrow by a round the engine will never look at again.
ClosedRoundsHoldNoStake ==
  \A r \in RoundIds :
    rounds[r].status \in {"SETTLED", "VOIDED"} => ActiveOn(r) = {}

\* Verdicts follow the outcome drawn when the round opened.  A crash win was
\* priced below the crash point, at a tick the round had reached; a roulette win
\* covers the pocket and pays the odds taken at placement; a bet is LOST only by
\* a settled round, and refunded only by a voided one.
VerdictFollowsOutcome(b) ==
  LET bet == bets[b]
      round == rounds[bet.round]
  IN /\ bet.status = "WON" =>
          \/ /\ round.game = "CRASH"
             /\ round.status \in {"RUNNING", "RESOLVED", "SETTLED", "VOIDED"}
             /\ bet.multiplier < round.outcome
             /\ \E tick \in 0..round.age : Curve[tick] = bet.multiplier
          \/ /\ round.game = "ROULETTE"
             /\ round.status = "SETTLED"
             /\ round.outcome \in Covers[bet.selection]
             /\ bet.multiplier = bet.odds
     /\ bet.status = "LOST" =>
          /\ round.status = "SETTLED"
          /\ round.game = "ROULETTE" => round.outcome \notin Covers[bet.selection]
     /\ bet.status = "VOIDED" => round.status = "VOIDED"

VerdictsFollowOutcome == \A b \in BetIds : VerdictFollowsOutcome(b)

\* No bet slips in once betting has closed: the bets on a round are fixed when
\* it leaves OPEN, stakes, selections and odds included.
BetsFrozenOnceLocked ==
  [][\A r \in RoundIds :
       rounds[r].status \notin {"NONE", "OPEN"} =>
         /\ BetsOn(r)' = BetsOn(r)
         /\ \A b \in BetsOn(r) :
              /\ bets'[b].stake = bets[b].stake
              /\ bets'[b].selection = bets[b].selection
              /\ bets'[b].odds = bets[b].odds]_vars

\* A verdict is final: once a bet has left ACTIVE neither its row nor its books
\* change again, whichever of cash-out, settlement and void came first.
VerdictsAreFinal ==
  [][\A b \in BetIds :
       bets[b].status \in {"WON", "LOST", "VOIDED"} =>
         bets'[b] = bets[b] /\ journal'[b] = journal[b]]_vars

=============================================================================
