-------------------------- MODULE RoundBook_proofs --------------------------
(***************************************************************************)
(* Proofs about RoundBook, for every set of users, keys, stakes and        *)
(* selections, every curve and every number of rounds.                     *)
(***************************************************************************)
EXTENDS RoundBook, SequenceTheorems, TLAPS

USE DEF RoundIds, Games, LiveStatuses, RoundStatuses, BetStatuses

-----------------------------------------------------------------------------
(* rows *)

\* A payout is a whole number of minor units.
LEMMA PayoutType ==
  ASSUME NEW stake \in Nat, NEW bp \in Nat
  PROVE  Payout(stake, bp) \in Nat
BY DEF Payout, BasisPointsOne

\* The round just opened is a well-formed row.
LEMMA NewRoundType ==
  ASSUME NEW game \in Games, NEW outcome \in OutcomesOf(game)
  PROVE  NewRound(game, outcome) \in Round
BY BoundsAssumption DEF NewRound, Round, OutcomesOf, Outcomes

\* Stakes are whole minor units.
LEMMA StakesAreNat == Stakes \subseteq Nat
BY StakesAssumption

\* A bet won keeps its round, stake, selection and odds, and its row is well
\* formed.
LEMMA WonRow ==
  ASSUME NEW bet \in Bet, NEW bp \in Nat
  PROVE  /\ Won(bet, bp) \in Bet
         /\ Won(bet, bp).status = "WON"
         /\ Won(bet, bp).multiplier = bp
         /\ Won(bet, bp).round = bet.round
         /\ Won(bet, bp).stake = bet.stake
         /\ Won(bet, bp).selection = bet.selection
         /\ Won(bet, bp).odds = bet.odds
BY PayoutType, StakesAreNat DEF Won, Bet

\* A lost bet's row is well formed and pays nothing.
LEMMA LostRow ==
  ASSUME NEW bet \in Bet
  PROVE  /\ Lost(bet) \in Bet
         /\ Lost(bet).status = "LOST"
         /\ Lost(bet).round = bet.round
         /\ Lost(bet).stake = bet.stake
         /\ Lost(bet).selection = bet.selection
         /\ Lost(bet).odds = bet.odds
BY DEF Lost, Bet

\* A refunded bet's row is well formed and keeps what was wagered.
LEMMA RefundedRow ==
  ASSUME NEW bet \in Bet
  PROVE  /\ Refunded(bet) \in Bet
         /\ Refunded(bet).status = "VOIDED"
         /\ Refunded(bet).round = bet.round
         /\ Refunded(bet).stake = bet.stake
         /\ Refunded(bet).selection = bet.selection
         /\ Refunded(bet).odds = bet.odds
BY StakesAreNat DEF Refunded, Bet

\* Settlement yields a well-formed WON or LOST row, and WON only for a selection
\* that covers the drawn pocket.
LEMMA SettledRow ==
  ASSUME NEW bet \in Bet, NEW round \in Round
  PROVE  /\ Settled(bet, round) \in Bet
         /\ Settled(bet, round).status \in {"WON", "LOST"}
         /\ Settled(bet, round).round = bet.round
         /\ Settled(bet, round).stake = bet.stake
         /\ Settled(bet, round).selection = bet.selection
         /\ Settled(bet, round).odds = bet.odds
         /\ Settled(bet, round).status = "WON" =>
              /\ round.game = "ROULETTE"
              /\ bet.selection # NoSelection
              /\ round.outcome \in Covers[bet.selection]
              /\ Settled(bet, round).multiplier = bet.odds
         /\ Settled(bet, round).status = "LOST" =>
              ~ /\ round.game = "ROULETTE"
                /\ bet.selection # NoSelection
                /\ round.outcome \in Covers[bet.selection]
<1>1. bet.odds \in Nat
  BY DEF Bet
<1>2. CASE /\ round.game = "ROULETTE"
           /\ bet.selection # NoSelection
           /\ round.outcome \in Covers[bet.selection]
  <2>1. Settled(bet, round) = Won(bet, bet.odds)
    BY <1>2 DEF Settled
  <2>2. /\ Won(bet, bet.odds) \in Bet
        /\ Won(bet, bet.odds).status = "WON"
        /\ Won(bet, bet.odds).multiplier = bet.odds
        /\ Won(bet, bet.odds).round = bet.round
        /\ Won(bet, bet.odds).stake = bet.stake
        /\ Won(bet, bet.odds).selection = bet.selection
        /\ Won(bet, bet.odds).odds = bet.odds
    BY <1>1, WonRow
  <2> QED
    BY <1>2, <2>1, <2>2
<1>3. CASE ~ /\ round.game = "ROULETTE"
             /\ bet.selection # NoSelection
             /\ round.outcome \in Covers[bet.selection]
  <2>1. Settled(bet, round) = Lost(bet)
    BY <1>3 DEF Settled
  <2> QED
    BY <1>3, <2>1, LostRow
<1> QED
  BY <1>2, <1>3

\* What closes the books of a bet is a ledger transaction that balances.
LEMMA ClosingTxType ==
  ASSUME NEW bet \in Bet, bet.status # "ACTIVE"
  PROVE  /\ ClosingTx(bet) \in Transaction
         /\ ClosingTx(bet).wallet + ClosingTx(bet).escrow + ClosingTx(bet).house = 0
         /\ ClosingTx(bet).escrow = -bet.stake
<1>1. bet.stake \in Nat /\ bet.payout \in Nat
  BY StakesAreNat DEF Bet
<1>2. CASE bet.status = "WON"
  BY <1>1, <1>2 DEF ClosingTx, WonTx, Transaction, Kinds
<1>3. CASE bet.status = "LOST"
  BY <1>1, <1>3 DEF ClosingTx, LostTx, Transaction, Kinds
<1>4. CASE bet.status = "VOIDED"
  BY <1>1, <1>4 DEF ClosingTx, RefundTx, Transaction, Kinds
<1> QED
  BY <1>2, <1>3, <1>4 DEF Bet

-----------------------------------------------------------------------------
(* type correctness *)

\* A row that has a status is a row of its table.
LEMMA BetPresent ==
  ASSUME TypeOK, NEW b \in BetIds
  PROVE  /\ bets[b].status # "NONE" <=> bets[b] \in Bet
         /\ bets[b] \in Bet => bets[b].status \in BetStatuses
         /\ bets[b].status = "NONE" <=> bets[b] = NoBet
BY DEF TypeOK, Bet, NoBet

\* A round that has been opened has a full row.
LEMMA RoundPresent ==
  ASSUME TypeOK, NEW r \in RoundIds
  PROVE  /\ rounds[r].status # "NONE" <=> rounds[r] \in Round
         /\ rounds[r] \in Round => rounds[r].status \in RoundStatuses
         /\ rounds[r].status = "NONE" <=> rounds[r] = NoRound
BY DEF TypeOK, Round, NoRound

\* The bets a closing transaction takes over are ACTIVE rows on its round.
LEMMA ActiveOnRound ==
  ASSUME TypeOK, NEW r, NEW b \in ActiveOn(r)
  PROVE  /\ b \in BetIds
         /\ bets[b] \in Bet
         /\ bets[b].status = "ACTIVE"
         /\ bets[b].round = r
BY BetPresent DEF ActiveOn, BetsOn

\* The empty tables are well typed.
LEMMA TypeInit == Init => TypeOK
BY DEF Init, TypeOK

\* Every operation leaves the tables well typed.
LEMMA TypeStep == TypeOK /\ [Next]_vars => TypeOK'
<1> SUFFICES ASSUME TypeOK, Next
             PROVE  TypeOK'
  BY DEF TypeOK, vars
<1>1. ASSUME NEW r \in RoundIds, NEW game \in Games, NEW outcome \in Outcomes,
             OpenRound(r, game, outcome)
      PROVE  TypeOK'
  <2>1. NewRound(game, outcome) \in Round
    BY <1>1, NewRoundType DEF OpenRound
  <2> QED
    BY <1>1, <2>1 DEF OpenRound, TypeOK
<1>2. ASSUME NEW r \in RoundIds,
             \/ LockRound(r)
             \/ StartRound(r)
             \/ ResolveRound(r)
             \/ Elapse(r)
      PROVE  TypeOK'
  <2>1. rounds[r] \in Round
    BY <1>2, RoundPresent DEF LockRound, StartRound, ResolveRound, Elapse
  <2>2. \A status \in RoundStatuses : [rounds[r] EXCEPT !.status = status] \in Round
    BY <2>1 DEF Round
  <2>3. Elapse(r) => [rounds[r] EXCEPT !.age = @ + 1] \in Round
    BY <2>1, BoundsAssumption DEF Round, Elapse
  <2>4. \E row \in Round : rounds' = [rounds EXCEPT ![r] = row]
    <3>1. CASE LockRound(r)
      BY <2>2, <3>1 DEF LockRound
    <3>2. CASE StartRound(r)
      BY <2>2, <3>2 DEF StartRound
    <3>3. CASE ResolveRound(r)
      BY <2>2, <3>3 DEF ResolveRound
    <3>4. CASE Elapse(r)
      BY <2>3, <3>4 DEF Elapse
    <3> QED
      BY <1>2, <3>1, <3>2, <3>3, <3>4
  <2>5. rounds' \in [RoundIds -> Round \cup {NoRound}]
    BY <2>4 DEF TypeOK
  <2> QED
    BY <1>2, <2>5 DEF LockRound, StartRound, ResolveRound, Elapse, TypeOK
<1>3. ASSUME NEW r \in RoundIds, SettleRound(r)
      PROVE  TypeOK'
  <2>1. rounds[r] \in Round
    BY <1>3, RoundPresent DEF SettleRound
  <2>2. rounds' \in [RoundIds -> Round \cup {NoRound}]
    BY <1>3, <2>1 DEF SettleRound, TypeOK, Round
  <2>3. \A b \in ActiveOn(r) :
          /\ Settled(bets[b], rounds[r]) \in Bet
          /\ ClosingTx(Settled(bets[b], rounds[r])) \in Transaction
    BY <2>1, ActiveOnRound, SettledRow, ClosingTxType
  <2>4. bets' \in [BetIds -> Bet \cup {NoBet}]
    BY <1>3, <2>3 DEF SettleRound, CloseBets, TypeOK
  <2>5. journal' \in [BetIds -> Seq(Transaction)]
    BY <1>3, <2>3 DEF SettleRound, CloseBets, TypeOK
  <2> QED
    BY <2>2, <2>4, <2>5 DEF TypeOK
<1>4. ASSUME NEW r \in RoundIds, VoidRound(r)
      PROVE  TypeOK'
  <2>1. rounds[r] \in Round
    BY <1>4, RoundPresent DEF VoidRound
  <2>2. rounds' \in [RoundIds -> Round \cup {NoRound}]
    BY <1>4, <2>1 DEF VoidRound, TypeOK, Round
  <2>3. \A b \in ActiveOn(r) :
          /\ Refunded(bets[b]) \in Bet
          /\ ClosingTx(Refunded(bets[b])) \in Transaction
    BY ActiveOnRound, RefundedRow, ClosingTxType
  <2>4. bets' \in [BetIds -> Bet \cup {NoBet}]
    BY <1>4, <2>3 DEF VoidRound, CloseBets, TypeOK
  <2>5. journal' \in [BetIds -> Seq(Transaction)]
    BY <1>4, <2>3 DEF VoidRound, CloseBets, TypeOK
  <2> QED
    BY <2>2, <2>4, <2>5 DEF TypeOK
<1>5. ASSUME NEW b \in BetIds, NEW r \in RoundIds, NEW stake \in Stakes,
             NEW selection \in Selections \cup {NoSelection},
             PlaceBet(b, r, stake, selection)
      PROVE  TypeOK'
  <2>1. NewBet(r, stake, selection) \in Bet
    BY OddsAssumption DEF NewBet, Bet
  <2>2. PlacedTx(stake) \in Transaction
    BY StakesAreNat DEF PlacedTx, Transaction, Kinds
  <2> QED
    BY <1>5, <2>1, <2>2 DEF PlaceBet, TypeOK
<1>6. ASSUME NEW b \in BetIds, NEW tick \in 0..MaxAge, CashOut(b, tick)
      PROVE  TypeOK'
  <2> DEFINE row == Won(bets[b], Curve[tick])
  <2>1. row \in Bet /\ ClosingTx(row) \in Transaction
    BY <1>6, BetPresent, WonRow, ClosingTxType, CurveAssumption DEF CashOut
  <2> QED
    BY <1>6, <2>1 DEF CashOut, TypeOK
<1> QED
  BY <1>1, <1>2, <1>3, <1>4, <1>5, <1>6 DEF Next

\* The tables only ever hold well-formed rows and transactions.
THEOREM TypeCorrect == Spec => []TypeOK
<1>1. Init => TypeOK
  BY TypeInit
<1>2. TypeOK /\ [Next]_vars => TypeOK'
  BY TypeStep
<1> QED
  BY <1>1, <1>2, PTL DEF Spec

-----------------------------------------------------------------------------
(* what a step does to one round and to one bet *)

Started == {"RUNNING", "RESOLVED", "SETTLED", "VOIDED"}

\* A round keeps its game and outcome, its clock never goes back, it never
\* returns to OPEN, and once closed it does not change at all.
RoundAdvances(r) ==
  /\ rounds'[r].status # "NONE"
  /\ rounds'[r].game = rounds[r].game
  /\ rounds'[r].outcome = rounds[r].outcome
  /\ rounds'[r].age >= rounds[r].age
  /\ rounds'[r].status = "OPEN" => rounds[r].status = "OPEN"
  /\ rounds[r].status \in Started => rounds'[r].status \in Started
  /\ rounds[r].status \in {"SETTLED", "VOIDED"} => rounds'[r] = rounds[r]

\* Every bet references a round that exists, and backs something that round's
\* game can pay (the foreign key, and priceSelection's checks).
BetsFitTheirRound ==
  \A b \in BetIds : bets[b].status # "NONE" =>
    /\ rounds[bets[b].round].status # "NONE"
    /\ bets[b].selection \in SelectionsOf(rounds[bets[b].round].game)

BetKept(b) == bets'[b] = bets[b] /\ journal'[b] = journal[b]

BetPlaced(b) ==
  /\ bets[b].status = "NONE"
  /\ \E r \in RoundIds, stake \in Stakes :
       \E selection \in SelectionsOf(rounds[r].game) :
         /\ rounds[r].status = "OPEN"
         /\ rounds' = rounds
         /\ bets'[b] = NewBet(r, stake, selection)
         /\ journal'[b] = Append(journal[b], PlacedTx(stake))

BetClosed(b) ==
  /\ bets[b].status = "ACTIVE"
  /\ bets'[b].status \in {"WON", "LOST", "VOIDED"}
  /\ bets'[b].round = bets[b].round
  /\ bets'[b].stake = bets[b].stake
  /\ bets'[b].selection = bets[b].selection
  /\ bets'[b].odds = bets[b].odds
  /\ journal'[b] = Append(journal[b], ClosingTx(bets'[b]))
  /\ VerdictFollowsOutcome(b)'

\* No operation rewrites a round's game or outcome, turns its clock back, or
\* changes it once it is closed.
LEMMA RoundStep ==
  ASSUME TypeOK, Next, NEW q \in RoundIds, rounds[q].status # "NONE"
  PROVE  RoundAdvances(q)
<1> USE DEF Started
<1>0. rounds[q] \in Round /\ rounds[q].age \in 0..MaxAge
  BY RoundPresent DEF Round
<1>1. ASSUME NEW r \in RoundIds, NEW game \in Games, NEW outcome \in Outcomes,
             OpenRound(r, game, outcome)
      PROVE  RoundAdvances(q)
  <2>1. q # r
    BY <1>1, RoundPresent DEF OpenRound
  <2>2. rounds'[q] = rounds[q]
    BY <1>1, <2>1 DEF OpenRound, TypeOK
  <2> QED
    BY <1>0, <2>2, BoundsAssumption DEF RoundAdvances
<1>2. ASSUME NEW r \in RoundIds, LockRound(r) \/ StartRound(r) \/ ResolveRound(r)
      PROVE  RoundAdvances(q)
  <2>1. CASE q # r
    <3>1. rounds'[q] = rounds[q]
      BY <1>2, <2>1 DEF LockRound, StartRound, ResolveRound, TypeOK
    <3> QED
      BY <1>0, <3>1, BoundsAssumption DEF RoundAdvances
  <2>2. CASE q = r
    <3>1. \E status \in {"LOCKED", "RUNNING", "RESOLVED"} :
            /\ rounds'[q] = [rounds[q] EXCEPT !.status = status]
            /\ status # "RESOLVED" => rounds[q].status \in {"OPEN", "LOCKED"}
            /\ status = "RESOLVED" => rounds[q].status = "RUNNING"
      BY <1>0, <1>2, <2>2 DEF LockRound, StartRound, ResolveRound, TypeOK
    <3> QED
      BY <1>0, <3>1, BoundsAssumption DEF RoundAdvances, Round
  <2> QED
    BY <2>1, <2>2
<1>3. ASSUME NEW r \in RoundIds, Elapse(r)
      PROVE  RoundAdvances(q)
  <2>1. CASE q # r
    <3>1. rounds'[q] = rounds[q]
      BY <1>3, <2>1 DEF Elapse, TypeOK
    <3> QED
      BY <1>0, <3>1, BoundsAssumption DEF RoundAdvances
  <2>2. CASE q = r
    <3>1. rounds'[q] = [rounds[q] EXCEPT !.age = @ + 1]
      BY <1>3, <2>2 DEF Elapse, TypeOK
    <3>2. rounds[q].status \in {"RUNNING", "RESOLVED"}
      BY <1>3, <2>2 DEF Elapse
    <3> QED
      BY <1>0, <3>1, <3>2, BoundsAssumption DEF RoundAdvances, Round
  <2> QED
    BY <2>1, <2>2
<1>4. ASSUME NEW r \in RoundIds, SettleRound(r) \/ VoidRound(r)
      PROVE  RoundAdvances(q)
  <2>1. CASE q # r
    <3>1. rounds'[q] = rounds[q]
      BY <1>4, <2>1 DEF SettleRound, VoidRound, TypeOK
    <3> QED
      BY <1>0, <3>1, BoundsAssumption DEF RoundAdvances
  <2>2. CASE q = r
    <3>1. \E status \in {"SETTLED", "VOIDED"} :
            rounds'[q] = [rounds[q] EXCEPT !.status = status]
      BY <1>4, <2>2 DEF SettleRound, VoidRound, TypeOK
    <3>2. rounds[q].status \in {"RESOLVED", "RUNNING"}
      BY <1>4, <2>2 DEF SettleRound, VoidRound
    <3> QED
      BY <1>0, <3>1, <3>2, BoundsAssumption DEF RoundAdvances, Round
  <2> QED
    BY <2>1, <2>2
<1>5. ASSUME NEW b \in BetIds,
             \/ \E r \in RoundIds, stake \in Stakes,
                   selection \in Selections \cup {NoSelection} :
                  PlaceBet(b, r, stake, selection)
             \/ \E tick \in 0..MaxAge : CashOut(b, tick)
      PROVE  RoundAdvances(q)
  <2>1. rounds' = rounds
    BY <1>5 DEF PlaceBet, CashOut
  <2> QED
    BY <1>0, <2>1, BoundsAssumption DEF RoundAdvances
<1> QED
  BY <1>1, <1>2, <1>3, <1>4, <1>5 DEF Next

\* An operation leaves a bet alone, places it on an OPEN round, or closes it with
\* one ledger transaction and a verdict its round's outcome justifies.
LEMMA BetStep ==
  ASSUME TypeOK, BetsFitTheirRound, Next, NEW b \in BetIds
  PROVE  BetKept(b) \/ BetPlaced(b) \/ BetClosed(b)
<1>1. ASSUME NEW r \in RoundIds, NEW game \in Games, NEW outcome \in Outcomes,
             OpenRound(r, game, outcome)
      PROVE  BetKept(b)
  BY <1>1 DEF OpenRound, BetKept
<1>2. ASSUME NEW r \in RoundIds,
             LockRound(r) \/ StartRound(r) \/ ResolveRound(r) \/ Elapse(r)
      PROVE  BetKept(b)
  BY <1>2 DEF LockRound, StartRound, ResolveRound, Elapse, BetKept
<1>3. ASSUME NEW r \in RoundIds, SettleRound(r)
      PROVE  BetKept(b) \/ BetClosed(b)
  <2> DEFINE row == Settled(bets[b], rounds[r])
  <2>1. CASE b \notin ActiveOn(r)
    BY <1>3, <2>1 DEF SettleRound, CloseBets, TypeOK, BetKept
  <2>2. CASE b \in ActiveOn(r)
    <3>1. /\ bets[b] \in Bet
          /\ bets[b].status = "ACTIVE"
          /\ bets[b].round = r
      BY <2>2, ActiveOnRound
    <3>2. rounds[r] \in Round /\ rounds[r].status = "RESOLVED"
      BY <1>3, RoundPresent DEF SettleRound
    <3>3. /\ bets'[b] = row
          /\ journal'[b] = Append(journal[b], ClosingTx(row))
      BY <1>3, <2>2 DEF SettleRound, CloseBets
    <3>4. rounds'[r] = [rounds[r] EXCEPT !.status = "SETTLED"]
      BY <1>3 DEF SettleRound, TypeOK
    <3>5. /\ rounds'[r].status = "SETTLED"
          /\ rounds'[r].game = rounds[r].game
          /\ rounds'[r].outcome = rounds[r].outcome
      BY <3>2, <3>4 DEF Round
    <3>6. /\ row.status \in {"WON", "LOST"}
          /\ row.round = bets[b].round
          /\ row.stake = bets[b].stake
          /\ row.selection = bets[b].selection
          /\ row.odds = bets[b].odds
      BY <3>1, <3>2, SettledRow
    <3>7. /\ row.status = "WON" =>
               /\ rounds[r].game = "ROULETTE"
               /\ rounds[r].outcome \in Covers[bets[b].selection]
               /\ row.multiplier = bets[b].odds
          /\ row.status = "LOST" =>
               ~ /\ rounds[r].game = "ROULETTE"
                 /\ bets[b].selection # NoSelection
                 /\ rounds[r].outcome \in Covers[bets[b].selection]
      BY <3>1, <3>2, SettledRow
    <3>8. rounds[r].game = "ROULETTE" => bets[b].selection # NoSelection
      BY <3>1, SelectionsDiffer DEF BetsFitTheirRound, SelectionsOf
    <3>9. VerdictFollowsOutcome(b)'
      BY <3>1, <3>3, <3>5, <3>6, <3>7, <3>8 DEF VerdictFollowsOutcome
    <3> QED
      BY <3>1, <3>3, <3>6, <3>9 DEF BetClosed
  <2> QED
    BY <2>1, <2>2
<1>4. ASSUME NEW r \in RoundIds, VoidRound(r)
      PROVE  BetKept(b) \/ BetClosed(b)
  <2> DEFINE row == Refunded(bets[b])
  <2>1. CASE b \notin ActiveOn(r)
    BY <1>4, <2>1 DEF VoidRound, CloseBets, TypeOK, BetKept
  <2>2. CASE b \in ActiveOn(r)
    <3>1. /\ bets[b] \in Bet
          /\ bets[b].status = "ACTIVE"
          /\ bets[b].round = r
      BY <2>2, ActiveOnRound
    <3>2. rounds[r] \in Round
      BY <1>4, RoundPresent DEF VoidRound
    <3>3. /\ bets'[b] = row
          /\ journal'[b] = Append(journal[b], ClosingTx(row))
      BY <1>4, <2>2 DEF VoidRound, CloseBets
    <3>4. rounds'[r].status = "VOIDED"
      BY <1>4, <3>2 DEF VoidRound, TypeOK, Round
    <3>5. /\ row.status = "VOIDED"
          /\ row.round = bets[b].round
          /\ row.stake = bets[b].stake
          /\ row.selection = bets[b].selection
          /\ row.odds = bets[b].odds
      BY <3>1, RefundedRow
    <3>6. VerdictFollowsOutcome(b)'
      BY <3>1, <3>3, <3>4, <3>5 DEF VerdictFollowsOutcome
    <3> QED
      BY <3>1, <3>3, <3>5, <3>6 DEF BetClosed
  <2> QED
    BY <2>1, <2>2
<1>5. ASSUME NEW c \in BetIds, NEW r \in RoundIds, NEW stake \in Stakes,
             NEW selection \in Selections \cup {NoSelection},
             PlaceBet(c, r, stake, selection)
      PROVE  BetKept(b) \/ BetPlaced(b)
  <2>1. CASE b # c
    BY <1>5, <2>1 DEF PlaceBet, TypeOK, BetKept
  <2>2. CASE b = c
    BY <1>5, <2>2 DEF PlaceBet, TypeOK, BetPlaced
  <2> QED
    BY <2>1, <2>2
<1>6. ASSUME NEW c \in BetIds, NEW tick \in 0..MaxAge, CashOut(c, tick)
      PROVE  BetKept(b) \/ BetClosed(b)
  <2> DEFINE row == Won(bets[b], Curve[tick])
  <2>1. CASE b # c
    BY <1>6, <2>1 DEF CashOut, TypeOK, BetKept
  <2>2. CASE b = c
    <3>1. bets[b] \in Bet /\ bets[b].status = "ACTIVE"
      BY <1>6, <2>2, BetPresent DEF CashOut
    <3>2. Curve[tick] \in Nat
      BY CurveAssumption
    <3>3. /\ bets'[b] = row
          /\ journal'[b] = Append(journal[b], ClosingTx(row))
          /\ rounds' = rounds
      BY <1>6, <2>2 DEF CashOut, TypeOK
    <3>4. /\ row.status = "WON"
          /\ row.multiplier = Curve[tick]
          /\ row.round = bets[b].round
          /\ row.stake = bets[b].stake
          /\ row.selection = bets[b].selection
          /\ row.odds = bets[b].odds
      BY <3>1, <3>2, WonRow
    <3>5. LET round == rounds[bets[b].round]
          IN /\ round.game = "CRASH"
             /\ round.status \in {"RUNNING", "RESOLVED"}
             /\ tick =< round.age
             /\ Curve[tick] < round.outcome
      BY <1>6, <2>2 DEF CashOut
    <3>6. rounds[bets[b].round].age \in 0..MaxAge
      BY <3>1, <3>5, RoundPresent DEF Bet, Round
    <3>7. \E t \in 0..rounds[bets[b].round].age : Curve[t] = row.multiplier
      BY <3>4, <3>5, <3>6
    <3>8. VerdictFollowsOutcome(b)'
      BY <3>3, <3>4, <3>5, <3>7 DEF VerdictFollowsOutcome
    <3> QED
      BY <3>1, <3>3, <3>4, <3>8 DEF BetClosed
  <2> QED
    BY <2>1, <2>2
<1> QED
  BY <1>1, <1>2, <1>3, <1>4, <1>5, <1>6 DEF Next

-----------------------------------------------------------------------------
(* the inductive invariant *)

Inv ==
  /\ TypeOK
  /\ BetsFitTheirRound
  /\ BooksMatchBets
  /\ ClosedRoundsHoldNoStake
  /\ VerdictsFollowOutcome

\* The empty tables satisfy the inductive invariant.
LEMMA InvInit == Init => Inv
<1> SUFFICES ASSUME Init
             PROVE  Inv
  OBVIOUS
<1>1. TypeOK
  BY TypeInit
<1>2. \A b \in BetIds : bets[b].status = "NONE" /\ journal[b] = <<>>
  BY DEF Init, NoBet
<1>3. \A r \in RoundIds : rounds[r].status = "NONE"
  BY DEF Init, NoRound
<1> QED
  BY <1>1, <1>2, <1>3
     DEF Inv, BetsFitTheirRound, BooksMatchBets, ClosedRoundsHoldNoStake,
         VerdictsFollowOutcome, VerdictFollowsOutcome

\* Placing a bet checks its round; no operation changes a round's game.
LEMMA FitStep == Inv /\ Next => BetsFitTheirRound'
<1> SUFFICES ASSUME Inv, Next, NEW b \in BetIds, bets'[b].status # "NONE"
             PROVE  /\ rounds'[bets'[b].round].status # "NONE"
                    /\ bets'[b].selection \in SelectionsOf(rounds'[bets'[b].round].game)
  BY DEF BetsFitTheirRound
<1> USE DEF Inv
<1>1. CASE \/ BetKept(b)
           \/ BetClosed(b)
  <2>1. /\ bets[b].status # "NONE"
        /\ bets'[b].round = bets[b].round
        /\ bets'[b].selection = bets[b].selection
    BY <1>1 DEF BetKept, BetClosed
  <2>2. /\ bets[b].round \in RoundIds
        /\ rounds[bets[b].round].status # "NONE"
        /\ bets[b].selection \in SelectionsOf(rounds[bets[b].round].game)
    BY <2>1, BetPresent DEF BetsFitTheirRound, Bet
  <2>3. RoundAdvances(bets[b].round)
    BY <2>2, RoundStep
  <2> QED
    BY <2>1, <2>2, <2>3 DEF RoundAdvances
<1>2. CASE BetPlaced(b)
  BY <1>2 DEF BetPlaced, NewBet
<1> QED
  BY <1>1, <1>2, BetStep

\* Appending to a one-element sequence yields the pair.
LEMMA AppendToOne ==
  ASSUME NEW tx \in Transaction, NEW next \in Transaction
  PROVE  Append(<<tx>>, next) = <<tx, next>>
<1>1. /\ <<tx>> \in Seq(Transaction) /\ Len(<<tx>>) = 1
      /\ <<tx, next>> \in Seq(Transaction) /\ Len(<<tx, next>>) = 2
  OBVIOUS
<1>2. /\ Append(<<tx>>, next) \in Seq(Transaction)
      /\ Len(Append(<<tx>>, next)) = 2
  BY <1>1
<1>3. \A i \in 1..2 : Append(<<tx>>, next)[i] = <<tx, next>>[i]
  BY <1>1
<1> QED
  BY <1>1, <1>2, <1>3, SeqEqual

\* Bets and books move together: every step that changes one changes the other.
LEMMA BooksStep == Inv /\ Next => BooksMatchBets'
<1> SUFFICES ASSUME Inv, Next, NEW b \in BetIds
             PROVE  journal'[b] =
                      CASE bets'[b].status = "NONE"   -> <<>>
                        [] bets'[b].status = "ACTIVE" -> <<PlacedTx(bets'[b].stake)>>
                        [] OTHER -> <<PlacedTx(bets'[b].stake), ClosingTx(bets'[b])>>
  BY DEF BooksMatchBets
<1> USE DEF Inv
<1>0. journal[b] =
        CASE bets[b].status = "NONE"   -> <<>>
          [] bets[b].status = "ACTIVE" -> <<PlacedTx(bets[b].stake)>>
          [] OTHER -> <<PlacedTx(bets[b].stake), ClosingTx(bets[b])>>
  BY DEF BooksMatchBets
<1>1. CASE BetKept(b)
  BY <1>0, <1>1 DEF BetKept
<1>2. CASE BetPlaced(b)
  <2>1. PICK stake \in Stakes :
          /\ bets'[b].status = "ACTIVE"
          /\ bets'[b].stake = stake
          /\ journal'[b] = Append(journal[b], PlacedTx(stake))
    BY <1>2 DEF BetPlaced, NewBet
  <2>2. journal[b] = <<>>
    BY <1>0, <1>2 DEF BetPlaced
  <2> QED
    BY <2>1, <2>2
<1>3. CASE BetClosed(b)
  <2>1. journal[b] = <<PlacedTx(bets[b].stake)>>
    BY <1>0, <1>3 DEF BetClosed
  <2>2. /\ journal'[b] = Append(journal[b], ClosingTx(bets'[b]))
        /\ bets'[b].stake = bets[b].stake
        /\ bets'[b].status \notin {"NONE", "ACTIVE"}
    BY <1>3 DEF BetClosed
  <2>3. PlacedTx(bets[b].stake) \in Transaction /\ ClosingTx(bets'[b]) \in Transaction
    <3>1. TypeOK'
      BY TypeStep
    <3>2. bets'[b] \in Bet \cup {NoBet}
      BY <3>1 DEF TypeOK
    <3>3. bets'[b] \in Bet
      BY <2>2, <3>2 DEF NoBet
    <3>4. bets[b] \in Bet
      BY <1>3, BetPresent DEF BetClosed
    <3>5. bets[b].stake \in Nat
      BY <3>4, StakesAreNat DEF Bet
    <3>6. PlacedTx(bets[b].stake) \in Transaction
      BY <3>5 DEF PlacedTx, Transaction, Kinds
    <3>7. ClosingTx(bets'[b]) \in Transaction
      BY <2>2, <3>3, ClosingTxType
    <3> QED
      BY <3>6, <3>7
  <2>4. journal'[b] = <<PlacedTx(bets'[b].stake), ClosingTx(bets'[b])>>
    BY <2>1, <2>2, <2>3, AppendToOne
  <2> QED
    BY <2>2, <2>4
<1> QED
  BY <1>1, <1>2, <1>3, BetStep

\* Closing a round closes its ACTIVE bets; no bet joins or reopens afterwards.
LEMMA ClosedStep == Inv /\ Next => ClosedRoundsHoldNoStake'
<1> SUFFICES ASSUME Inv, Next,
                    NEW r \in RoundIds, rounds'[r].status \in {"SETTLED", "VOIDED"},
                    NEW b \in BetIds,
                    bets'[b].status = "ACTIVE", bets'[b].round = r
             PROVE  FALSE
  BY DEF ClosedRoundsHoldNoStake, ActiveOn, BetsOn
<1> USE DEF Inv
\* A bet ACTIVE after the step was ACTIVE before it, or has just been placed on
\* a round that is, and stays, OPEN.
<1>1. bets[b].status = "ACTIVE" /\ bets[b].round = r
  <2>1. CASE BetKept(b)
    BY <2>1 DEF BetKept
  <2>2. CASE BetPlaced(b)
    BY <2>2 DEF BetPlaced, NewBet
  <2>3. CASE BetClosed(b)
    BY <2>3 DEF BetClosed
  <2> QED
    BY <2>1, <2>2, <2>3, BetStep
<1>2. bets[b] \in Bet /\ b \in ActiveOn(r)
  BY <1>1, BetPresent DEF ActiveOn, BetsOn
<1>3. rounds[r].status \notin {"SETTLED", "VOIDED"}
  BY <1>2 DEF ClosedRoundsHoldNoStake
<1>4. rounds'[r].status # rounds[r].status
  BY <1>3
<1>5. SettleRound(r) \/ VoidRound(r)
  <2>1. ASSUME NEW q \in RoundIds,
               \/ \E game \in Games, outcome \in Outcomes : OpenRound(q, game, outcome)
               \/ LockRound(q) \/ StartRound(q) \/ Elapse(q) \/ ResolveRound(q)
        PROVE  FALSE
    <3>1. CASE \E game \in Games, outcome \in Outcomes : OpenRound(q, game, outcome)
      BY <1>3, <3>1 DEF OpenRound, NewRound, TypeOK
    <3>2. CASE LockRound(q)
      BY <1>3, <3>2, RoundPresent DEF LockRound, TypeOK, Round
    <3>3. CASE StartRound(q)
      BY <1>3, <3>3, RoundPresent DEF StartRound, TypeOK, Round
    <3>4. CASE Elapse(q)
      BY <1>3, <3>4, RoundPresent DEF Elapse, TypeOK, Round
    <3>5. CASE ResolveRound(q)
      BY <1>3, <3>5, RoundPresent DEF ResolveRound, TypeOK, Round
    <3> QED
      BY <2>1, <3>1, <3>2, <3>3, <3>4, <3>5
  <2>2. ASSUME NEW q \in RoundIds, SettleRound(q) \/ VoidRound(q)
        PROVE  q = r
    BY <1>4, <2>2 DEF SettleRound, VoidRound, TypeOK
  <2>3. ASSUME NEW c \in BetIds,
               \/ \E q \in RoundIds, stake \in Stakes,
                     selection \in Selections \cup {NoSelection} :
                    PlaceBet(c, q, stake, selection)
               \/ \E tick \in 0..MaxAge : CashOut(c, tick)
        PROVE  FALSE
    BY <1>4, <2>3 DEF PlaceBet, CashOut
  <2> QED
    BY <2>1, <2>2, <2>3 DEF Next
\* ... and that step closed every bet of the round.
<1>6. CASE SettleRound(r)
  <2>1. bets'[b] = Settled(bets[b], rounds[r]) /\ rounds[r] \in Round
    BY <1>2, <1>6, RoundPresent DEF SettleRound, CloseBets
  <2> QED
    BY <1>2, <2>1, SettledRow
<1>7. CASE VoidRound(r)
  <2>1. bets'[b] = Refunded(bets[b])
    BY <1>2, <1>7 DEF VoidRound, CloseBets
  <2> QED
    BY <1>2, <2>1, RefundedRow
<1> QED
  BY <1>5, <1>6, <1>7

\* A verdict given is justified when it is given, and stays so.
LEMMA VerdictStep == Inv /\ Next => VerdictsFollowOutcome'
<1> SUFFICES ASSUME Inv, Next, NEW b \in BetIds
             PROVE  VerdictFollowsOutcome(b)'
  BY DEF VerdictsFollowOutcome
<1> USE DEF Inv
<1>1. CASE BetKept(b)
  <2>1. CASE bets[b].status \in {"NONE", "ACTIVE"}
    BY <1>1, <2>1 DEF BetKept, VerdictFollowsOutcome
  <2>2. CASE bets[b].status \notin {"NONE", "ACTIVE"}
    <3> DEFINE r == bets[b].round
    <3>1. bets[b] \in Bet /\ r \in RoundIds /\ rounds[r].status # "NONE"
      BY <2>2, BetPresent DEF BetsFitTheirRound, Bet
    <3>2. RoundAdvances(r)
      BY <3>1, RoundStep
    <3>3. rounds[r].age \in Nat /\ rounds'[r].age \in Nat
      <4>1. TypeOK'
        BY TypeStep
      <4>2. rounds'[r] \in Round \cup {NoRound} /\ rounds'[r].status # "NONE"
        BY <3>1, <3>2, <4>1 DEF TypeOK, RoundAdvances
      <4>3. rounds'[r] \in Round /\ rounds[r] \in Round
        BY <3>1, <4>2, RoundPresent DEF NoRound
      <4> QED
        BY <4>3, BoundsAssumption DEF Round
    <3>4. \A t \in 0..rounds[r].age : t \in 0..rounds'[r].age
      BY <3>2, <3>3 DEF RoundAdvances
    <3>5. VerdictFollowsOutcome(b)
      BY DEF VerdictsFollowOutcome
    <3>6. bets'[b] = bets[b]
      BY <1>1 DEF BetKept
    <3>7. bets'[b].round = r
      BY <3>6
    <3> HIDE DEF r
    <3> QED
      BY <3>2, <3>4, <3>5, <3>6, <3>7
         DEF VerdictFollowsOutcome, RoundAdvances, Started, r
  <2> QED
    BY <2>1, <2>2
<1>2. CASE BetPlaced(b)
  BY <1>2 DEF BetPlaced, NewBet, VerdictFollowsOutcome
<1>3. CASE BetClosed(b)
  BY <1>3 DEF BetClosed
<1> QED
  BY <1>1, <1>2, <1>3, BetStep

\* The invariant is inductive.
LEMMA InvStep == Inv /\ [Next]_vars => Inv'
<1>1. Inv /\ Next => Inv'
  BY TypeStep, FitStep, BooksStep, ClosedStep, VerdictStep DEF Inv
<1>2. Inv /\ UNCHANGED vars => Inv'
  BY DEF Inv, vars, TypeOK, BetsFitTheirRound, BooksMatchBets,
         ClosedRoundsHoldNoStake, ActiveOn, BetsOn, VerdictsFollowOutcome,
         VerdictFollowsOutcome
<1> QED
  BY <1>1, <1>2

-----------------------------------------------------------------------------
(* the theorems *)

\* Every reachable state satisfies the inductive invariant.
LEMMA Invariance == Spec => []Inv
<1> QED
  BY InvInit, InvStep, PTL DEF Spec

\* Each bet's ledger transactions tell its story exactly: the stake once into
\* escrow, and one closing transaction of the kind its verdict calls for.
THEOREM BooksAlwaysMatch == Spec => []BooksMatchBets
<1>1. Inv => BooksMatchBets
  BY DEF Inv
<1> QED
  BY <1>1, Invariance, PTL

\* No closed round keeps a stake in escrow.
THEOREM ClosedRoundsAreEmpty == Spec => []ClosedRoundsHoldNoStake
<1>1. Inv => ClosedRoundsHoldNoStake
  BY DEF Inv
<1> QED
  BY <1>1, Invariance, PTL

\* No verdict contradicts the outcome drawn when the round opened.
THEOREM VerdictsAlwaysFollow == Spec => []VerdictsFollowOutcome
<1>1. Inv => VerdictsFollowOutcome
  BY DEF Inv
<1> QED
  BY <1>1, Invariance, PTL

\* A bet that was decided never changes again, nor do its books.
THEOREM VerdictsNeverChange == Spec => VerdictsAreFinal
<1>1. ASSUME Inv, [Next]_vars, NEW b \in BetIds,
             bets[b].status \in {"WON", "LOST", "VOIDED"}
      PROVE  bets'[b] = bets[b] /\ journal'[b] = journal[b]
  <2>1. CASE Next
    BY <1>1, <2>1, BetStep DEF Inv, BetKept, BetPlaced, BetClosed
  <2>2. CASE UNCHANGED vars
    BY <2>2 DEF vars
  <2> QED
    BY <1>1, <2>1, <2>2
<1>2. Inv /\ [Next]_vars =>
        [\A b \in BetIds :
           bets[b].status \in {"WON", "LOST", "VOIDED"} =>
             bets'[b] = bets[b] /\ journal'[b] = journal[b]]_vars
  BY <1>1
<1> QED
  BY <1>2, Invariance, PTL DEF Spec, VerdictsAreFinal

\* Once a round has left OPEN no bet joins it, leaves it or changes its terms.
THEOREM BetsNeverJoinLate == Spec => BetsFrozenOnceLocked
<1>1. ASSUME Inv, [Next]_vars, NEW r \in RoundIds,
             rounds[r].status \notin {"NONE", "OPEN"}
      PROVE  /\ BetsOn(r)' = BetsOn(r)
             /\ \A b \in BetsOn(r) :
                  /\ bets'[b].stake = bets[b].stake
                  /\ bets'[b].selection = bets[b].selection
                  /\ bets'[b].odds = bets[b].odds
  <2>1. CASE Next
    <3>1. ASSUME NEW b \in BetIds
          PROVE  \/ BetKept(b)
                 \/ BetClosed(b)
                 \/ /\ bets[b].status = "NONE"
                    /\ bets'[b].round # r
      <4>1. BetPlaced(b) => bets[b].status = "NONE" /\ bets'[b].round # r
        BY <1>1 DEF BetPlaced, NewBet
      <4>2. BetKept(b) \/ BetPlaced(b) \/ BetClosed(b)
        BY <1>1, <2>1, BetStep DEF Inv
      <4> QED
        BY <4>1, <4>2
    <3>2. ASSUME NEW b \in BetIds
          PROVE  /\ bets[b].status # "NONE" /\ bets[b].round = r
                    <=> bets'[b].status # "NONE" /\ bets'[b].round = r
                 /\ bets[b].status # "NONE" =>
                      /\ bets'[b].stake = bets[b].stake
                      /\ bets'[b].selection = bets[b].selection
                      /\ bets'[b].odds = bets[b].odds
      BY <3>1 DEF BetKept, BetClosed
    <3> QED
      BY <3>2 DEF BetsOn
  <2>2. CASE UNCHANGED vars
    BY <2>2 DEF vars, BetsOn
  <2> QED
    BY <1>1, <2>1, <2>2
<1>2. Inv /\ [Next]_vars =>
        [\A r \in RoundIds :
           rounds[r].status \notin {"NONE", "OPEN"} =>
             /\ BetsOn(r)' = BetsOn(r)
             /\ \A b \in BetsOn(r) :
                  /\ bets'[b].stake = bets[b].stake
                  /\ bets'[b].selection = bets[b].selection
                  /\ bets'[b].odds = bets[b].odds]_vars
  BY <1>1
<1> QED
  BY <1>2, Invariance, PTL DEF Spec, BetsFrozenOnceLocked

=============================================================================
