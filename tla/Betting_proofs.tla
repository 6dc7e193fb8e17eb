--------------------------- MODULE Betting_proofs ---------------------------
(***************************************************************************)
(* What holds of the transactions for any number of users, keys, requests, *)
(* engines and rounds: no wallet is overdrawn, escrow holds the stakes of  *)
(* the ACTIVE bets, and, interleaved in any way, with victims of wait      *)
(* cycles and lost processes, the transactions do no more than the atomic  *)
(* operations of RoundBook.  The argument is the row lock: what a          *)
(* transaction found under its locks still holds when it commits.          *)
(***************************************************************************)
EXTENDS Betting, Data_proofs

Fields == {"pc", "op", "bet", "round", "stake", "selection", "tick", "game",
           "order", "need", "held"}

\* A transaction is a record with these fields.
Shape == DOMAIN trx = Workers /\ \A p \in Workers : DOMAIN trx[p] = Fields

\* No two transactions hold conflicting locks.
LocksExclude ==
  \A p, q \in Workers : p # q =>
    \A l \in trx[p].held, m \in trx[q].held : ~ Conflict(l, m)

Placed == {b \in BetIds : bets[b] # NoBet}

\* Bets are on rounds that were opened, rounds are opened in nonce order, and
\* finitely many bets have been placed; each key has its books.
RowsOK ==
  /\ \A b \in Placed : rounds[bets[b].round] # NoRound
  /\ \A q, r \in RoundIds : rounds[q] = NoRound /\ r >= q => rounds[r] = NoRound
  /\ IsFiniteSet(Placed)
  /\ journal = [b \in BetIds |-> journal[b]]

Started == {"RUNNING", "RESOLVED", "SETTLED", "VOIDED"}

\* p waits for this lock, or has it already.
Awaits(p, lock) ==
  \/ trx[p].need = <<lock>>
  \/ trx[p].need = <<>> /\ lock \in trx[p].held

\* placeBet: the share lock keeps the round OPEN, the lock on the wallet keeps
\* the balance up, the entry of the unique index keeps the key unused.
Placing(p) ==
  /\ trx[p].pc \in {"round read", "funds", "insert bet", "placed"} =>
       /\ trx[p].bet \in BetIds
       /\ trx[p].round \in RoundIds
       /\ rounds[trx[p].round] # NoRound
       /\ trx[p].stake \in Stakes
       /\ trx[p].selection \in SelectionsOf(rounds[trx[p].round].game)
  /\ trx[p].pc = "round read" => Awaits(p, Shared(RoundRow(trx[p].round)))
  /\ trx[p].pc \in {"funds", "insert bet", "placed"} =>
       /\ Shared(RoundRow(trx[p].round)) \in trx[p].held
       /\ rounds[trx[p].round].status = "OPEN"
  /\ trx[p].pc = "funds" => Awaits(p, Exclusive(BalanceRow(Owner(trx[p].bet))))
  /\ trx[p].pc \in {"insert bet", "placed"} =>
       /\ Exclusive(BalanceRow(Owner(trx[p].bet))) \in trx[p].held
       /\ balance[Owner(trx[p].bet)] >= trx[p].stake
  /\ trx[p].pc = "insert bet" => Awaits(p, Exclusive(KeyEntry(trx[p].bet)))
  /\ trx[p].pc = "placed" =>
       /\ Exclusive(KeyEntry(trx[p].bet)) \in trx[p].held
       /\ bets[trx[p].bet] = NoBet

\* cashOut: the bet's lock keeps it ACTIVE, and an ACTIVE bet that the engine
\* cannot lock keeps the round from being closed.
CashingOut(p) ==
  /\ trx[p].pc \in {"bet read", "clock read", "cashed out"} =>
       /\ trx[p].bet \in Placed
       /\ trx[p].round = bets[trx[p].bet].round
  /\ trx[p].pc = "bet read" => Awaits(p, Exclusive(BetRow(trx[p].bet)))
  /\ trx[p].pc \in {"clock read", "cashed out"} =>
       /\ Exclusive(BetRow(trx[p].bet)) \in trx[p].held
       /\ bets[trx[p].bet].status = "ACTIVE"
       /\ rounds[trx[p].round].game = "CRASH"
       /\ rounds[trx[p].round].status \in {"RUNNING", "RESOLVED"}
  /\ trx[p].pc = "cashed out" =>
       /\ trx[p].tick \in 0..rounds[trx[p].round].age
       /\ Curve[trx[p].tick] < rounds[trx[p].round].outcome

\* The tick opens a round of one of the two games ...
Opening(p) == trx[p].pc = "insert round" => trx[p].game \in Games

\* ... or moves one on: what the clock showed does not become untrue.
Advancing(p) ==
  /\ trx[p].pc \in {"elapsed", "update"} =>
       /\ trx[p].round \in RoundIds
       /\ rounds[trx[p].round] # NoRound
  /\ trx[p].pc = "elapsed" => rounds[trx[p].round].status \in Started
  /\ trx[p].pc = "update" =>
       /\ trx[p].op \in {"lock", "start", "resolve"}
       /\ trx[p].op = "resolve" =>
            /\ rounds[trx[p].round].status \in Started
            /\ Due(rounds[trx[p].round])
       /\ Awaits(p, Exclusive(RoundRow(trx[p].round)))

\* settleRound and voidRound: no ACTIVE bet of the locked round is missed, and
\* at the end the locked bets are exactly those.
Closing(p) ==
  /\ trx[p].pc \in {"round lock", "bets lock", "posted"} =>
       /\ trx[p].round \in RoundIds
       /\ rounds[trx[p].round] # NoRound
       /\ trx[p].op \in {"settle", "void"}
       /\ trx[p].op = "void" =>
            /\ rounds[trx[p].round].status \in Started
            /\ Overdue(rounds[trx[p].round])
  /\ trx[p].pc = "round lock" => Awaits(p, Exclusive(RoundRow(trx[p].round)))
  /\ trx[p].pc \in {"bets lock", "posted"} =>
       /\ Exclusive(RoundRow(trx[p].round)) \in trx[p].held
       /\ MayClose(trx[p].op, rounds[trx[p].round].status)
       /\ trx[p].order \in Seq(BetIds)
       /\ ActiveOn(trx[p].round) \subseteq ToSet(trx[p].order)
  /\ trx[p].pc = "bets lock" =>
       /\ trx[p].need \in Seq({Exclusive(BetRow(b)) : b \in BetIds})
       /\ \A b \in ToSet(trx[p].order) :
            /\ b \in Placed /\ bets[b].round = trx[p].round
            /\ Exclusive(BetRow(b)) \in trx[p].held \cup ToSet(trx[p].need)
  /\ trx[p].pc = "posted" =>
       \A b \in ToSet(trx[p].order) :
         /\ b \in ActiveOn(trx[p].round)
         /\ Exclusive(BetRow(b)) \in trx[p].held

Standing(p) ==
  Placing(p) /\ CashingOut(p) /\ Opening(p) /\ Advancing(p) /\ Closing(p)

IInv ==
  /\ TypeOK
  /\ Shape
  /\ LocksExclude
  /\ RowsOK
  /\ \A p \in Workers : Standing(p)

-----------------------------------------------------------------------------
(* rows *)

LEMMA StakesAreNat == Stakes \subseteq Nat
BY StakesAssumption

\* A row that is in the bets table has the fields of a bet.
LEMMA BetPresent ==
  ASSUME TypeOK, NEW b \in BetIds
  PROVE  /\ b \in Placed <=> bets[b] \in Bet
         /\ bets[b].status = "ACTIVE" => b \in Placed
         /\ bets[b] = NoBet <=> bets[b].status = "NONE"
BY DEF TypeOK, Bet, NoBet, BetStatuses, Placed

\* A round that was opened has the fields of a round.
LEMMA RoundPresent ==
  ASSUME TypeOK, NEW r \in RoundIds
  PROVE  /\ rounds[r] # NoRound <=> rounds[r] \in Round
         /\ rounds[r] # NoRound <=> rounds[r].status # "NONE"
         /\ rounds[r] # NoRound => rounds[r].status \in RoundStatuses
BY DEF TypeOK, Round, NoRound, RoundStatuses, LiveStatuses

LEMMA OwnerHasAccount ==
  ASSUME NEW b \in BetIds
  PROVE  Owner(b) \in Users /\ Owner(b) \in Accounts
BY DEF BetIds, Owner, Accounts

-----------------------------------------------------------------------------
(* steps that leave the tables alone *)

\* If the tables stay as they are, so does the standing of every other worker.
LEMMA OthersStand ==
  ASSUME UNCHANGED tables, NEW q, Standing(q), trx'[q] = trx[q]
  PROVE  Standing(q)'
<1> USE DEF tables
<1>1. Placing(q)'
  BY DEF Standing, Placing, Awaits
<1>2. CashingOut(q)'
  BY DEF Standing, CashingOut, Awaits, Placed
<1>3. Advancing(q)'
  BY DEF Standing, Advancing, Awaits
<1>4. Closing(q)'
  BY DEF Standing, Closing, Awaits, Placed, ActiveOn
<1>5. Opening(q)'
  BY DEF Standing, Opening
<1> QED
  BY <1>1, <1>2, <1>3, <1>4, <1>5 DEF Standing

\* A step of one transaction that takes no lock keeps the invariant if the
\* transaction knows what it must where it ends up.
LEMMA LocalStep ==
  ASSUME IInv, UNCHANGED tables, NEW p \in Workers,
         DOMAIN trx' = Workers, DOMAIN trx'[p] = Fields,
         \A q \in Workers \ {p} : trx'[q] = trx[q],
         trx'[p].held \subseteq trx[p].held,
         trx'[p].pc \in PCs,
         trx'[p].bet \in BetIds \cup {<<>>},
         trx'[p].round \in RoundIds \cup {0},
         Standing(p)'
  PROVE  IInv'
<1>1. TypeOK'
  BY DEF IInv, TypeOK, tables
<1>2. Shape'
  BY DEF IInv, Shape
<1>3. LocksExclude'
  BY DEF IInv, LocksExclude
<1>4. RowsOK'
  BY DEF IInv, RowsOK, tables, Placed
<1>5. ASSUME NEW q \in Workers PROVE Standing(q)'
  BY OthersStand DEF IInv
<1> QED
  BY <1>1, <1>2, <1>3, <1>4, <1>5 DEF IInv

\* Once p waits for nothing it has the lock it asked for.
LEMMA Has ==
  ASSUME NEW p, NEW lock, Awaits(p, lock), trx[p].need = <<>>
  PROVE  lock \in trx[p].held
<1>1. <<lock>> # <<>>
  OBVIOUS
<1> QED
  BY <1>1 DEF Awaits

\* What GoOn changes.
LEMMA GoOnEffect ==
  ASSUME Shape, NEW p \in Workers, NEW a, NEW s, GoOn(p, a, s)
  PROVE  /\ DOMAIN trx' = Workers /\ DOMAIN trx'[p] = Fields
         /\ \A q \in Workers \ {p} : trx'[q] = trx[q]
         /\ trx'[p].pc = a /\ trx'[p].need = s
         /\ trx'[p].op = trx[p].op /\ trx'[p].bet = trx[p].bet
         /\ trx'[p].round = trx[p].round /\ trx'[p].stake = trx[p].stake
         /\ trx'[p].selection = trx[p].selection /\ trx'[p].tick = trx[p].tick
         /\ trx'[p].order = trx[p].order /\ trx'[p].held = trx[p].held
BY DEF Shape, Fields, GoOn

\* The end of a transaction, however it comes about, keeps the invariant.
LEMMA EndEffect ==
  ASSUME Shape, NEW p \in Workers, End(p)
  PROVE  /\ DOMAIN trx' = Workers /\ DOMAIN trx'[p] = Fields
         /\ \A q \in Workers \ {p} : trx'[q] = trx[q]
         /\ trx'[p] = Idle
         /\ Standing(p)'
<1>1. trx'[p] = Idle
  BY DEF Shape, End
<1>2. Standing(p)'
  BY <1>1 DEF Idle, Standing, Placing, CashingOut, Opening, Advancing, Closing
<1>3. DOMAIN Idle = Fields
  BY DEF Idle, Fields
<1> QED
  BY <1>1, <1>2, <1>3 DEF Shape, End

LEMMA EndStep ==
  ASSUME IInv, UNCHANGED tables, NEW p \in Workers, End(p)
  PROVE  IInv'
<1>1. Shape
  BY DEF IInv
<1>2. /\ trx'[p] = Idle /\ DOMAIN trx' = Workers /\ DOMAIN trx'[p] = Fields
      /\ \A q \in Workers \ {p} : trx'[q] = trx[q]
      /\ Standing(p)'
  BY <1>1, EndEffect
<1>3. /\ Idle.held = {} /\ Idle.pc \in PCs /\ Idle.bet = <<>> /\ Idle.round = 0
  BY DEF Idle, PCs
<1> QED
  BY <1>2, <1>3, LocalStep

\* Refused, aborted, lost: the transactions that end without a commit.
LEMMA RefusalStep ==
  ASSUME IInv, NEW p \in Workers,
         \/ RefuseRoundNotOpen(p) \/ RefuseInsufficientFunds(p) \/ ReplayWinner(p)
         \/ RefuseCashOut(p) \/ RefuseTooLate(p)
         \/ LeaveRound(p) \/ AbortClose(p) \/ AbortDeadlock(p) \/ Lose(p)
  PROVE  IInv' /\ UNCHANGED tables
<1>1. End(p) /\ UNCHANGED tables
  BY DEF RefuseRoundNotOpen, RefuseInsufficientFunds, ReplayWinner, RefuseCashOut,
         RefuseTooLate, LeaveRound, AbortClose, AbortDeadlock, Lose
<1> QED
  BY <1>1, EndStep

\* A statement that asks for locks: what it found out it knows from here on.
LEMMA GoOnStep ==
  ASSUME IInv, UNCHANGED tables, NEW p \in Workers, NEW a \in PCs, NEW s,
         GoOn(p, a, s), Standing(p)'
  PROVE  IInv'
<1>1. Shape /\ TypeOK
  BY DEF IInv
<1>2. /\ DOMAIN trx' = Workers /\ DOMAIN trx'[p] = Fields
      /\ \A q \in Workers \ {p} : trx'[q] = trx[q]
      /\ trx'[p].pc = a /\ trx'[p].bet = trx[p].bet
      /\ trx'[p].round = trx[p].round /\ trx'[p].held = trx[p].held
  BY <1>1, GoOnEffect
<1> QED
  BY <1>1, <1>2, LocalStep DEF TypeOK

-----------------------------------------------------------------------------
(* placeBet *)

LEMMA BeginPlaceBetStep ==
  ASSUME IInv, NEW c \in Workers, NEW b \in BetIds, NEW r \in RoundIds,
         NEW stake \in Stakes, NEW selection, BeginPlaceBet(c, b, r, stake, selection)
  PROVE  IInv'
<1> DEFINE t == [Idle EXCEPT !.pc = "round read", !.op = "place", !.bet = b,
                             !.round = r, !.stake = stake, !.selection = selection,
                             !.need = <<Shared(RoundRow(r))>>]
<1>1. /\ DOMAIN t = Fields /\ t.pc = "round read" /\ t.bet = b /\ t.round = r
      /\ t.stake = stake /\ t.selection = selection /\ t.held = {}
      /\ t.need = <<Shared(RoundRow(r))>>
  BY DEF Idle, Fields
<1>2. /\ DOMAIN trx' = Workers /\ trx'[c] = t
      /\ \A q \in Workers \ {c} : trx'[q] = trx[q]
  BY DEF IInv, Shape, BeginPlaceBet
<1> HIDE DEF t
<1>3. /\ rounds[r] # NoRound /\ selection \in SelectionsOf(rounds[r].game)
      /\ UNCHANGED tables
  BY DEF BeginPlaceBet
<1>4. Placing(c)'
  BY <1>1, <1>2, <1>3 DEF Placing, Awaits, tables
<1>5. Standing(c)'
  BY <1>1, <1>2, <1>4 DEF Standing, CashingOut, Opening, Advancing, Closing
<1>6. "round read" \in PCs
  BY DEF PCs
<1> QED
  BY <1>1, <1>2, <1>3, <1>5, <1>6, LocalStep

LEMMA AcceptRoundStep ==
  ASSUME IInv, NEW c \in Workers, AcceptRound(c)
  PROVE  IInv'
<1> DEFINE s == <<Exclusive(BalanceRow(Owner(trx[c].bet)))>>
<1>1. /\ Shape /\ Standing(c)
      /\ GoOn(c, "funds", s) /\ UNCHANGED tables
      /\ trx[c].pc = "round read" /\ trx[c].need = <<>>
      /\ rounds[trx[c].round].status = "OPEN"
  BY DEF IInv, AcceptRound, Ready
<1> HIDE DEF s
<1>2. /\ trx'[c].pc = "funds" /\ trx'[c].need = s
      /\ trx'[c].bet = trx[c].bet /\ trx'[c].round = trx[c].round
      /\ trx'[c].stake = trx[c].stake /\ trx'[c].selection = trx[c].selection
      /\ trx'[c].held = trx[c].held
  BY <1>1 DEF GoOn, Shape, Fields
<1>3. /\ trx[c].bet \in BetIds /\ trx[c].round \in RoundIds
      /\ rounds[trx[c].round] # NoRound /\ trx[c].stake \in Stakes
      /\ trx[c].selection \in SelectionsOf(rounds[trx[c].round].game)
      /\ Shared(RoundRow(trx[c].round)) \in trx[c].held
  BY <1>1, Has DEF Standing, Placing
<1>4. Placing(c)'
  BY <1>1, <1>2, <1>3 DEF Placing, Awaits, tables, s
<1>5. Standing(c)'
  BY <1>2, <1>4 DEF Standing, CashingOut, Opening, Advancing, Closing
<1> QED
  BY <1>1, <1>5, GoOnStep DEF PCs

LEMMA AcceptFundsStep ==
  ASSUME IInv, NEW c \in Workers, AcceptFunds(c)
  PROVE  IInv'
<1> DEFINE s == <<Exclusive(KeyEntry(trx[c].bet))>>
<1>1. /\ Shape /\ Standing(c)
      /\ GoOn(c, "insert bet", s) /\ UNCHANGED tables
      /\ trx[c].pc = "funds" /\ trx[c].need = <<>>
      /\ balance[Owner(trx[c].bet)] >= trx[c].stake
  BY DEF IInv, AcceptFunds, Ready
<1> HIDE DEF s
<1>2. /\ trx'[c].pc = "insert bet" /\ trx'[c].need = s
      /\ trx'[c].bet = trx[c].bet /\ trx'[c].round = trx[c].round
      /\ trx'[c].stake = trx[c].stake /\ trx'[c].selection = trx[c].selection
      /\ trx'[c].held = trx[c].held
  <2> DEFINE pc == "insert bet"
  <2>1. Shape /\ GoOn(c, pc, s)
    BY <1>1
  <2> HIDE DEF pc
  <2>2. /\ trx'[c].pc = pc /\ trx'[c].need = s
        /\ trx'[c].bet = trx[c].bet /\ trx'[c].round = trx[c].round
        /\ trx'[c].stake = trx[c].stake /\ trx'[c].selection = trx[c].selection
        /\ trx'[c].held = trx[c].held
    BY <2>1, GoOnEffect
  <2> QED
    BY <2>2 DEF pc
<1>3. /\ trx[c].bet \in BetIds /\ trx[c].round \in RoundIds
      /\ rounds[trx[c].round] # NoRound /\ trx[c].stake \in Stakes
      /\ trx[c].selection \in SelectionsOf(rounds[trx[c].round].game)
      /\ rounds[trx[c].round].status = "OPEN"
      /\ Shared(RoundRow(trx[c].round)) \in trx[c].held
      /\ Exclusive(BalanceRow(Owner(trx[c].bet))) \in trx[c].held
  BY <1>1, Has DEF Standing, Placing
<1>4. Placing(c)'
  BY <1>1, <1>2, <1>3 DEF Placing, Awaits, tables, s
<1>5. Standing(c)'
  BY <1>2, <1>4 DEF Standing, CashingOut, Opening, Advancing, Closing
<1> QED
  BY <1>1, <1>5, GoOnStep DEF PCs

LEMMA InsertBetStep ==
  ASSUME IInv, NEW c \in Workers, InsertBet(c)
  PROVE  IInv'
<1> DEFINE s == Missing(c, PostingRows(trx[c].bet, PlacedTx(trx[c].stake)))
<1>1. /\ Shape /\ Standing(c)
      /\ GoOn(c, "placed", s) /\ UNCHANGED tables
      /\ trx[c].pc = "insert bet" /\ trx[c].need = <<>>
      /\ bets[trx[c].bet] = NoBet
  BY DEF IInv, InsertBet, Ready
<1> HIDE DEF s
<1>2. /\ trx'[c].pc = "placed"
      /\ trx'[c].bet = trx[c].bet /\ trx'[c].round = trx[c].round
      /\ trx'[c].stake = trx[c].stake /\ trx'[c].selection = trx[c].selection
      /\ trx'[c].held = trx[c].held
  BY <1>1, GoOnEffect
<1>3. /\ trx[c].bet \in BetIds /\ trx[c].round \in RoundIds
      /\ rounds[trx[c].round] # NoRound /\ trx[c].stake \in Stakes
      /\ trx[c].selection \in SelectionsOf(rounds[trx[c].round].game)
      /\ rounds[trx[c].round].status = "OPEN"
      /\ Shared(RoundRow(trx[c].round)) \in trx[c].held
      /\ Exclusive(BalanceRow(Owner(trx[c].bet))) \in trx[c].held
      /\ balance[Owner(trx[c].bet)] >= trx[c].stake
      /\ Exclusive(KeyEntry(trx[c].bet)) \in trx[c].held
  BY <1>1, Has DEF Standing, Placing
<1>4. Placing(c)'
  BY <1>1, <1>2, <1>3 DEF Placing, Awaits, tables
<1>5. Standing(c)'
  BY <1>2, <1>4 DEF Standing, CashingOut, Opening, Advancing, Closing
<1> QED
  BY <1>1, <1>5, GoOnStep DEF PCs

-----------------------------------------------------------------------------
(* cashOut *)

LEMMA BeginCashOutStep ==
  ASSUME IInv, NEW c \in Workers, NEW b \in BetIds, BeginCashOut(c, b)
  PROVE  IInv'
<1> DEFINE t == [Idle EXCEPT !.pc = "bet read", !.op = "cash out", !.bet = b,
                             !.round = bets[b].round, !.need = <<Exclusive(BetRow(b))>>]
<1>1. /\ DOMAIN t = Fields /\ t.pc = "bet read" /\ t.bet = b
      /\ t.round = bets[b].round /\ t.held = {} /\ t.need = <<Exclusive(BetRow(b))>>
  BY DEF Idle, Fields
<1>2. /\ DOMAIN trx' = Workers /\ trx'[c] = t
      /\ \A q \in Workers \ {c} : trx'[q] = trx[q]
  BY DEF IInv, Shape, BeginCashOut
<1> HIDE DEF t
<1>3. b \in Placed /\ bets[b].round \in RoundIds /\ UNCHANGED tables
  <2>1. TypeOK /\ bets[b] # NoBet /\ UNCHANGED tables
    BY DEF IInv, BeginCashOut
  <2> QED
    BY <2>1 DEF TypeOK, Bet, Placed
<1>4. CashingOut(c)'
  BY <1>1, <1>2, <1>3 DEF CashingOut, Awaits, Placed, tables
<1>5. Standing(c)'
  BY <1>1, <1>2, <1>4 DEF Standing, Placing, Opening, Advancing, Closing
<1>6. "bet read" \in PCs
  BY DEF PCs
<1> QED
  BY <1>1, <1>2, <1>3, <1>5, <1>6, LocalStep

LEMMA AcceptCashOutStep ==
  ASSUME IInv, NEW c \in Workers, AcceptCashOut(c)
  PROVE  IInv'
<1>1. /\ Shape /\ Standing(c)
      /\ GoOn(c, "clock read", <<>>) /\ UNCHANGED tables
      /\ trx[c].pc = "bet read" /\ trx[c].need = <<>> /\ MayCashOut(c)
  BY DEF IInv, AcceptCashOut, Ready
<1>2. /\ trx'[c].pc = "clock read" /\ trx'[c].need = <<>>
      /\ trx'[c].bet = trx[c].bet /\ trx'[c].round = trx[c].round
      /\ trx'[c].held = trx[c].held
  <2> DEFINE pc == "clock read"
  <2>1. Shape /\ GoOn(c, pc, <<>>)
    BY <1>1
  <2> HIDE DEF pc
  <2>2. /\ trx'[c].pc = pc /\ trx'[c].need = <<>>
        /\ trx'[c].bet = trx[c].bet /\ trx'[c].round = trx[c].round
        /\ trx'[c].held = trx[c].held
    BY <2>1, GoOnEffect
  <2> QED
    BY <2>2 DEF pc
<1>3. /\ trx[c].bet \in Placed /\ trx[c].round = bets[trx[c].bet].round
      /\ Exclusive(BetRow(trx[c].bet)) \in trx[c].held
  BY <1>1, Has DEF Standing, CashingOut
<1>4. CashingOut(c)'
  <2>1. rounds' = rounds /\ bets' = bets
    BY <1>1 DEF tables
  <2>2. /\ bets[trx[c].bet].status = "ACTIVE"
        /\ rounds[trx[c].round].game = "CRASH"
        /\ rounds[trx[c].round].status = "RUNNING"
    BY <1>1 DEF MayCashOut
  <2> QED
    BY <1>2, <1>3, <2>1, <2>2 DEF CashingOut, Placed
<1>5. Standing(c)'
  BY <1>2, <1>4 DEF Standing, Placing, Opening, Advancing, Closing
<1> QED
  BY <1>1, <1>5, GoOnStep DEF PCs

LEMMA PriceCashOutStep ==
  ASSUME IInv, NEW c \in Workers, PriceCashOut(c)
  PROVE  IInv'
<1>1. /\ TypeOK /\ Shape /\ RowsOK /\ Standing(c) /\ UNCHANGED tables
      /\ trx[c].pc = "clock read" /\ trx[c].need = <<>> /\ StillWorth(c)
  BY DEF IInv, PriceCashOut, Ready
<1>2. /\ DOMAIN trx' = Workers /\ DOMAIN trx'[c] = Fields
      /\ \A q \in Workers \ {c} : trx'[q] = trx[q]
      /\ trx'[c].pc = "cashed out" /\ trx'[c].tick = rounds[trx[c].round].age
      /\ trx'[c].bet = trx[c].bet /\ trx'[c].round = trx[c].round
      /\ trx'[c].held = trx[c].held
  BY <1>1 DEF Shape, Fields, PriceCashOut
<1>3. /\ trx[c].bet \in Placed /\ trx[c].round = bets[trx[c].bet].round
      /\ Exclusive(BetRow(trx[c].bet)) \in trx[c].held
      /\ rounds[trx[c].round].game = "CRASH"
      /\ rounds[trx[c].round].status \in {"RUNNING", "RESOLVED"}
  BY <1>1 DEF Standing, CashingOut
<1>4. rounds[trx[c].round].age \in Nat
  <2>1. trx[c].round \in RoundIds /\ rounds[trx[c].round] # NoRound
    BY <1>1, <1>3 DEF RowsOK, TypeOK, Placed, Bet
  <2>2. rounds[trx[c].round] \in Round
    BY <1>1, <2>1, RoundPresent
  <2> QED
    BY <2>2, BoundsAssumption DEF Round
<1>5. CashingOut(c)'
  <2>1. rounds[trx[c].round].age \in 0..rounds[trx[c].round].age
    BY <1>4
  <2>2. /\ rounds' = rounds /\ bets' = bets /\ Placed' = Placed
    BY <1>1 DEF tables, Placed
  <2> QED
    BY <1>1, <1>2, <1>3, <2>1, <2>2 DEF CashingOut, StillWorth
<1>6. Standing(c)'
  BY <1>2, <1>5 DEF Standing, Placing, Opening, Advancing, Closing
<1>7. "cashed out" \in PCs
  BY DEF PCs
<1> QED
  BY <1>1, <1>2, <1>6, <1>7, LocalStep DEF TypeOK

-----------------------------------------------------------------------------
(* the tick *)

LEMMA TickOpensStep ==
  ASSUME IInv, NEW e \in Workers, NEW game \in Games, TickOpens(e, game)
  PROVE  IInv'
<1> DEFINE t == [Idle EXCEPT !.pc = "insert round", !.op = "open", !.game = game]
<1>1. /\ DOMAIN t = Fields /\ t.pc = "insert round" /\ t.game = game /\ t.held = {}
      /\ t.bet = <<>> /\ t.round = 0
  BY DEF Idle, Fields
<1>2. /\ DOMAIN trx' = Workers /\ trx'[e] = t
      /\ \A q \in Workers \ {e} : trx'[q] = trx[q]
      /\ UNCHANGED tables
  BY DEF IInv, Shape, TickOpens
<1> HIDE DEF t
<1>3. Standing(e)'
  BY <1>1, <1>2 DEF Standing, Placing, CashingOut, Opening, Advancing, Closing
<1>4. "insert round" \in PCs
  BY DEF PCs
<1> QED
  BY <1>1, <1>2, <1>3, <1>4, LocalStep

\* The round a tick acts on is there, and is not closed.
LEMMA PendingRound ==
  ASSUME TypeOK, NEW game, Pending(game) # {}
  PROVE  /\ Max(Pending(game)) \in RoundIds
         /\ rounds[Max(Pending(game))] # NoRound
         /\ rounds[Max(Pending(game))].status \in {"OPEN", "LOCKED", "RUNNING", "RESOLVED"}
<1>1. Pending(game) \subseteq 0..MaxRounds /\ MaxRounds \in Nat
  BY BoundsAssumption DEF Pending, RoundIds
<1>2. Max(Pending(game)) \in Pending(game)
  BY <1>1, MaxIsGreatest
<1> QED
  BY <1>2, RoundPresent DEF Pending, LiveStatuses

LEMMA TickAdvancesStep ==
  ASSUME IInv, NEW e \in Workers, NEW game \in Games, TickAdvances(e, game)
  PROVE  IInv'
<1> DEFINE r == Max(Pending(game))
           next == NextOp(rounds[r].status)
           need == IF next.pc = "elapsed" THEN <<>> ELSE <<Exclusive(RoundRow(r))>>
           t == [Idle EXCEPT !.pc = next.pc, !.op = next.op, !.round = r, !.need = need]
<1>1. r \in RoundIds /\ rounds[r] # NoRound
      /\ rounds[r].status \in {"OPEN", "LOCKED", "RUNNING", "RESOLVED"}
  BY PendingRound DEF IInv, TickAdvances
<1>2. /\ DOMAIN trx' = Workers /\ trx'[e] = t
      /\ \A q \in Workers \ {e} : trx'[q] = trx[q]
      /\ UNCHANGED tables
  BY DEF IInv, Shape, TickAdvances
<1>3. /\ DOMAIN t = Fields /\ t.held = {} /\ t.bet = <<>> /\ t.round = r
      /\ t.pc = next.pc /\ t.op = next.op /\ t.need = need
  BY DEF Idle, Fields
<1>4. \/ rounds[r].status = "OPEN" /\ next = [pc |-> "update", op |-> "lock"]
      \/ rounds[r].status = "LOCKED" /\ next = [pc |-> "update", op |-> "start"]
      \/ rounds[r].status = "RUNNING" /\ next = [pc |-> "elapsed", op |-> "none"]
      \/ rounds[r].status = "RESOLVED" /\ next = [pc |-> "round lock", op |-> "settle"]
  BY <1>1 DEF NextOp
<1>5. \/ /\ t.pc = "update" /\ t.op \in {"lock", "start"}
         /\ t.need = <<Exclusive(RoundRow(r))>>
      \/ t.pc = "elapsed" /\ rounds[r].status = "RUNNING"
      \/ t.pc = "round lock" /\ t.op = "settle" /\ t.need = <<Exclusive(RoundRow(r))>>
  <2>1. /\ need = IF next.pc = "elapsed" THEN <<>> ELSE <<Exclusive(RoundRow(r))>>
        /\ t.pc = next.pc /\ t.op = next.op /\ t.need = need
    BY <1>3
  <2> HIDE DEF t, need, next, r
  <2>2. CASE rounds[r].status = "OPEN" /\ next = [pc |-> "update", op |-> "lock"]
    BY <2>1, <2>2
  <2>3. CASE rounds[r].status = "LOCKED" /\ next = [pc |-> "update", op |-> "start"]
    BY <2>1, <2>3
  <2>4. CASE rounds[r].status = "RUNNING" /\ next = [pc |-> "elapsed", op |-> "none"]
    BY <2>1, <2>4
  <2>5. CASE rounds[r].status = "RESOLVED" /\ next = [pc |-> "round lock", op |-> "settle"]
    BY <2>1, <2>5
  <2> QED
    BY <1>4, <2>2, <2>3, <2>4, <2>5
<1>6. rounds' = rounds
  BY <1>2 DEF tables
<1> HIDE DEF t, need, next, r
<1>7. Placing(e)' /\ CashingOut(e)' /\ Opening(e)'
  BY <1>2, <1>5 DEF Placing, CashingOut, Opening
<1>8. Advancing(e)'
  BY <1>1, <1>2, <1>3, <1>5, <1>6 DEF Advancing, Awaits, Started
<1>9. Closing(e)'
  BY <1>1, <1>2, <1>3, <1>5, <1>6 DEF Closing, Awaits
<1>10. t.pc \in PCs
  BY <1>5 DEF PCs
<1> QED
  BY <1>1, <1>2, <1>3, <1>7, <1>8, <1>9, <1>10, LocalStep DEF Standing

\* The clock was read: void the round, resolve it, or leave it for now.
LEMMA CompareElapsedStep ==
  ASSUME IInv, NEW e \in Workers, CompareElapsed(e)
  PROVE  IInv'
<1> DEFINE round == rounds[trx[e].round]
<1>1. /\ TypeOK /\ Shape /\ Standing(e) /\ UNCHANGED tables /\ trx[e].pc = "elapsed"
  BY DEF IInv, CompareElapsed, Ready
<1>2. trx[e].round \in RoundIds /\ round # NoRound /\ round.status \in Started
  BY <1>1 DEF Standing, Advancing
<1>3. ASSUME NEW pc, NEW op,
             \/ pc = "round lock" /\ op = "void" /\ Overdue(round)
             \/ pc = "update" /\ op = "resolve" /\ Due(round),
             trx' = [trx EXCEPT ![e].pc = pc, ![e].op = op,
                                ![e].need = <<Exclusive(RoundRow(trx[e].round))>>]
      PROVE  IInv'
  <2>1. /\ DOMAIN trx' = Workers /\ DOMAIN trx'[e] = Fields
        /\ \A q \in Workers \ {e} : trx'[q] = trx[q]
        /\ trx'[e].pc = pc /\ trx'[e].op = op
        /\ trx'[e].need = <<Exclusive(RoundRow(trx[e].round))>>
        /\ trx'[e].bet = trx[e].bet /\ trx'[e].round = trx[e].round
        /\ trx'[e].held = trx[e].held
    BY <1>1, <1>3 DEF Shape, Fields
  <2>2. rounds' = rounds
    BY <1>1 DEF tables
  <2>3. Placing(e)' /\ CashingOut(e)' /\ Opening(e)'
    BY <1>3, <2>1 DEF Placing, CashingOut, Opening
  <2>4. Advancing(e)'
    BY <1>2, <1>3, <2>1, <2>2 DEF Advancing, Awaits
  <2>5. Closing(e)'
    BY <1>2, <1>3, <2>1, <2>2 DEF Closing, Awaits
  <2>6. pc \in PCs
    BY <1>3 DEF PCs
  <2> QED
    BY <1>1, <2>1, <2>3, <2>4, <2>5, <2>6, LocalStep DEF Standing, TypeOK
<1>4. CASE Overdue(round)
  BY <1>3, <1>4 DEF CompareElapsed
<1>5. CASE ~ Overdue(round) /\ Due(round)
  BY <1>3, <1>5 DEF CompareElapsed
<1>6. CASE ~ Overdue(round) /\ ~ Due(round)
  <2>1. End(e)
    BY <1>6 DEF CompareElapsed
  <2> QED
    BY <1>1, <2>1, EndStep
<1> QED
  BY <1>4, <1>5, <1>6

\* The bets of a round that are ACTIVE are finitely many rows.
LEMMA ActiveFinite ==
  ASSUME IInv, NEW r
  PROVE  ActiveOn(r) \subseteq Placed /\ IsFiniteSet(ActiveOn(r))
<1>1. ActiveOn(r) \in SUBSET Placed /\ IsFiniteSet(Placed)
  BY DEF ActiveOn, Placed, IInv, RowsOK
<1> QED
  BY <1>1, FS_Subset

LEMMA LockBetsStep ==
  ASSUME IInv, NEW e \in Workers, LockBets(e)
  PROVE  IInv'
<1>1. /\ TypeOK /\ Shape /\ Standing(e) /\ UNCHANGED tables
      /\ trx[e].pc = "round lock" /\ trx[e].need = <<>>
      /\ MayClose(trx[e].op, rounds[trx[e].round].status)
  BY DEF IInv, LockBets, Ready
<1>2. PICK order \in SetToSeqs(ActiveOn(trx[e].round)) :
        trx' = [trx EXCEPT ![e].pc = "bets lock", ![e].order = order,
                  ![e].need = [i \in DOMAIN order |-> Exclusive(BetRow(order[i]))]]
  BY DEF LockBets
<1> DEFINE need == [i \in DOMAIN order |-> Exclusive(BetRow(order[i]))]
           Locks == {Exclusive(BetRow(b)) : b \in BetIds}
<1>3. /\ DOMAIN trx' = Workers /\ DOMAIN trx'[e] = Fields
      /\ \A q \in Workers \ {e} : trx'[q] = trx[q]
      /\ trx'[e].pc = "bets lock" /\ trx'[e].order = order /\ trx'[e].need = need
      /\ trx'[e].op = trx[e].op /\ trx'[e].bet = trx[e].bet
      /\ trx'[e].round = trx[e].round /\ trx'[e].held = trx[e].held
  BY <1>1, <1>2 DEF Shape, Fields
<1>4. /\ order \in Seq(ActiveOn(trx[e].round)) /\ ToSet(order) = ActiveOn(trx[e].round)
  BY ActiveFinite, SeqsEnumerate
<1>5. order \in Seq(BetIds) /\ DOMAIN order = 1..Len(order) /\ Len(order) \in Nat
  BY <1>4 DEF ActiveOn
<1>6. /\ trx[e].round \in RoundIds /\ rounds[trx[e].round] # NoRound
      /\ trx[e].op \in {"settle", "void"}
      /\ trx[e].op = "void" => /\ rounds[trx[e].round].status \in Started
                               /\ Overdue(rounds[trx[e].round])
      /\ Exclusive(RoundRow(trx[e].round)) \in trx[e].held
  BY <1>1, Has DEF Standing, Closing
<1>7. need \in Seq(Locks)
  BY <1>5
<1>8. \A b \in ToSet(order) : Exclusive(BetRow(b)) \in ToSet(need)
  BY <1>5 DEF ToSet
<1>9. \A b \in ToSet(order) : b \in Placed /\ bets[b].round = trx[e].round
  BY <1>4 DEF ActiveOn, Placed
<1>10. /\ rounds' = rounds /\ bets' = bets /\ Placed' = Placed
       /\ \A r : ActiveOn(r)' = ActiveOn(r)
  BY <1>1 DEF tables, Placed, ActiveOn
<1> HIDE DEF need, Locks
<1>11. Placing(e)' /\ CashingOut(e)' /\ Opening(e)' /\ Advancing(e)'
  BY <1>3 DEF Placing, CashingOut, Opening, Advancing
<1>12. Closing(e)'
  BY <1>1, <1>3, <1>4, <1>5, <1>6, <1>7, <1>8, <1>9, <1>10 DEF Closing, Locks
<1>13. "bets lock" \in PCs
  BY DEF PCs
<1> QED
  BY <1>1, <1>3, <1>11, <1>12, <1>13, LocalStep DEF Standing, TypeOK

LEMMA PostBetsStep ==
  ASSUME IInv, NEW e \in Workers, PostBets(e)
  PROVE  IInv'
<1> DEFINE order == trx[e].order
           active == {i \in DOMAIN order : bets[order[i]].status = "ACTIVE"}
<1>1. /\ TypeOK /\ Shape /\ Standing(e) /\ UNCHANGED tables
      /\ trx[e].pc = "bets lock" /\ trx[e].need = <<>>
  BY DEF IInv, PostBets, Ready
<1>2. /\ trx[e].round \in RoundIds /\ rounds[trx[e].round] # NoRound
      /\ trx[e].op \in {"settle", "void"}
      /\ trx[e].op = "void" => /\ rounds[trx[e].round].status \in Started
                               /\ Overdue(rounds[trx[e].round])
      /\ Exclusive(RoundRow(trx[e].round)) \in trx[e].held
      /\ MayClose(trx[e].op, rounds[trx[e].round].status)
      /\ order \in Seq(BetIds)
      /\ ActiveOn(trx[e].round) \subseteq ToSet(order)
  BY <1>1 DEF Standing, Closing
<1>3. \A b \in ToSet(order) :
        /\ b \in Placed /\ bets[b].round = trx[e].round
        /\ Exclusive(BetRow(b)) \in trx[e].held
  <2>1. ToSet(trx[e].need) = {}
    <3>1. DOMAIN <<>> = {}
      OBVIOUS
    <3> QED
      BY <1>1, <3>1 DEF ToSet
  <2> QED
    BY <1>1, <2>1 DEF Standing, Closing
<1> HIDE DEF order, active
<1>4. PICK kept \in SetToSeqs(active) :
        \E need :
          trx' = [trx EXCEPT ![e].pc = "posted",
                             ![e].order = [i \in DOMAIN kept |-> order[kept[i]]],
                             ![e].need = need]
  BY DEF PostBets, order, active
<1>5. PICK need :
        trx' = [trx EXCEPT ![e].pc = "posted",
                           ![e].order = [i \in DOMAIN kept |-> order[kept[i]]],
                           ![e].need = need]
  BY <1>4
<1> DEFINE still == [i \in DOMAIN kept |-> order[kept[i]]]
<1>6. /\ DOMAIN trx' = Workers /\ DOMAIN trx'[e] = Fields
      /\ \A q \in Workers \ {e} : trx'[q] = trx[q]
      /\ trx'[e].pc = "posted" /\ trx'[e].order = still
      /\ trx'[e].op = trx[e].op /\ trx'[e].bet = trx[e].bet
      /\ trx'[e].round = trx[e].round /\ trx'[e].held = trx[e].held
  BY <1>1, <1>5 DEF Shape, Fields
<1>7. DOMAIN order = 1..Len(order) /\ Len(order) \in Nat
      /\ \A i \in 1..Len(order) : order[i] \in BetIds
  BY <1>2
<1>8. active \in SUBSET (1..Len(order)) /\ IsFiniteSet(active)
  <2>1. active \in SUBSET (1..Len(order))
    BY <1>7 DEF active
  <2>2. IsFiniteSet(1..Len(order))
    BY <1>7, FS_Interval
  <2> QED
    BY <2>1, <2>2, FS_Subset
<1>9. kept \in Seq(active) /\ ToSet(kept) = active
  BY <1>8, SeqsEnumerate
<1>10. DOMAIN kept = 1..Len(kept) /\ Len(kept) \in Nat /\ \A i \in 1..Len(kept) : kept[i] \in active
  BY <1>9
<1>11. still \in Seq(BetIds) /\ DOMAIN still = 1..Len(kept)
  <2>1. \A i \in 1..Len(kept) : order[kept[i]] \in BetIds
    BY <1>7, <1>8, <1>10
  <2>2. still \in [1..Len(kept) -> BetIds]
    BY <1>10, <2>1
  <2> HIDE DEF still
  <2> QED
    BY <1>10, <2>2
<1>12. ToSet(still) = {b \in ToSet(order) : bets[b].status = "ACTIVE"}
  <2>1. \A i \in DOMAIN order : bets[order[i]].status = "ACTIVE" => \E j \in DOMAIN kept : kept[j] = i
    BY <1>9 DEF ToSet, active
  <2>2. \A j \in DOMAIN kept : kept[j] \in DOMAIN order /\ bets[order[kept[j]]].status = "ACTIVE"
    BY <1>10 DEF active
  <2> QED
    BY <2>1, <2>2 DEF ToSet
<1> HIDE DEF still
<1>13. ActiveOn(trx[e].round) = ToSet(still)
  BY <1>2, <1>3, <1>12 DEF ActiveOn, Placed
<1>14. /\ rounds' = rounds /\ bets' = bets /\ Placed' = Placed
       /\ \A r : ActiveOn(r)' = ActiveOn(r)
  BY <1>1 DEF tables, Placed, ActiveOn
<1>15. Placing(e)' /\ CashingOut(e)' /\ Opening(e)' /\ Advancing(e)'
  BY <1>6 DEF Placing, CashingOut, Opening, Advancing
<1>16. Closing(e)'
  BY <1>2, <1>3, <1>6, <1>11, <1>12, <1>13, <1>14 DEF Closing
<1>17. "posted" \in PCs
  BY DEF PCs
<1> QED
  BY <1>1, <1>6, <1>15, <1>16, <1>17, LocalStep DEF Standing, TypeOK

-----------------------------------------------------------------------------
(* locks *)

\* What the grant of a lock changes.
LEMMA GrantEffect ==
  ASSUME Shape, NEW p \in Workers, Granted(p)
  PROVE  /\ DOMAIN trx' = Workers /\ DOMAIN trx'[p] = Fields
         /\ \A q \in Workers \ {p} : trx'[q] = trx[q]
         /\ trx'[p].pc = trx[p].pc /\ trx'[p].op = trx[p].op
         /\ trx'[p].bet = trx[p].bet /\ trx'[p].round = trx[p].round
         /\ trx'[p].stake = trx[p].stake /\ trx'[p].selection = trx[p].selection
         /\ trx'[p].tick = trx[p].tick /\ trx'[p].game = trx[p].game
         /\ trx'[p].order = trx[p].order
         /\ trx'[p].need = Tail(trx[p].need)
         /\ trx'[p].held = trx[p].held \cup {Head(trx[p].need)}
BY DEF Shape, Fields, Granted

\* A grant of the one lock waited for ends the wait.
LEMMA GrantEndsWait ==
  ASSUME NEW p, NEW lock, Awaits(p, lock), trx[p].need # <<>>,
         trx'[p].need = Tail(trx[p].need),
         trx'[p].held = trx[p].held \cup {Head(trx[p].need)}
  PROVE  Awaits(p, lock)'
<1>1. trx[p].need = <<lock>>
  BY DEF Awaits
<1>2. Tail(<<lock>>) = <<>> /\ Head(<<lock>>) = lock
  OBVIOUS
<1>3. trx'[p].need = <<>> /\ lock \in trx'[p].held
  BY <1>1, <1>2
<1> QED
  BY <1>3 DEF Awaits

\* A lock is granted to one transaction only if nobody else's conflicts with it.
LEMMA GrantExcludes ==
  ASSUME Shape, LocksExclude, NEW p \in Workers, Granted(p)
  PROVE  LocksExclude'
<1> DEFINE lock == Head(trx[p].need)
<1>1. /\ trx'[p].held = trx[p].held \cup {lock}
      /\ \A q \in Workers \ {p} : trx'[q] = trx[q]
  BY GrantEffect
<1>2. ASSUME NEW q \in Workers, q # p, NEW l \in trx[q].held
      PROVE  ~ Conflict(l, lock) /\ ~ Conflict(lock, l)
  <2>1. trx[p].need # <<>> /\ Blockers(p) = {}
    BY DEF Granted
  <2>2. ~ Conflict(l, lock)
    BY <1>2, <2>1 DEF Blockers
  <2> QED
    BY <2>2 DEF Conflict
<1> HIDE DEF lock
<1>3. ASSUME NEW q \in Workers, NEW r \in Workers, q # r,
             NEW l \in trx'[q].held, NEW m \in trx'[r].held
      PROVE  ~ Conflict(l, m)
  <2>1. CASE q = p
    <3>1. trx'[r] = trx[r] /\ (l \in trx[p].held \/ l = lock)
      BY <1>1, <1>3, <2>1
    <3> QED
      BY <1>2, <1>3, <2>1, <3>1 DEF LocksExclude
  <2>2. CASE r = p
    <3>1. trx'[q] = trx[q] /\ (m \in trx[p].held \/ m = lock)
      BY <1>1, <1>3, <2>2
    <3> QED
      BY <1>2, <1>3, <2>2, <3>1 DEF LocksExclude
  <2>3. CASE q # p /\ r # p
    BY <1>1, <1>3, <2>3 DEF LocksExclude
  <2> QED
    BY <2>1, <2>2, <2>3
<1> QED
  BY <1>3 DEF LocksExclude

\* The rest of the locks asked for, and the one granted, are all of them.
LEMMA HeadAndTail ==
  ASSUME NEW S, NEW s \in Seq(S), s # <<>>
  PROVE  /\ Tail(s) \in Seq(S)
         /\ \A x \in ToSet(s) : x = Head(s) \/ x \in ToSet(Tail(s))
<1>1. /\ Len(s) \in Nat \ {0} /\ DOMAIN s = 1..Len(s) /\ Head(s) = s[1]
      /\ Tail(s) \in Seq(S) /\ Len(Tail(s)) = Len(s) - 1
      /\ \A i \in 1..Len(s) - 1 : Tail(s)[i] = s[i + 1]
  OBVIOUS
<1>2. DOMAIN Tail(s) = 1..Len(s) - 1
  BY <1>1
<1>3. ASSUME NEW i \in 1..Len(s), i # 1
      PROVE  i - 1 \in 1..Len(s) - 1 /\ Tail(s)[i - 1] = s[i]
  BY <1>1, <1>3
<1>4. ASSUME NEW i \in 1..Len(s), i # 1 PROVE s[i] \in ToSet(Tail(s))
  BY <1>2, <1>3, <1>4 DEF ToSet
<1> QED
  BY <1>1, <1>4 DEF ToSet

LEMMA AcquireLockStep ==
  ASSUME IInv, NEW p \in Workers, AcquireLock(p)
  PROVE  IInv'
<1>1. /\ TypeOK /\ Shape /\ LocksExclude /\ Standing(p) /\ UNCHANGED tables
      /\ Granted(p) /\ trx[p].need # <<>>
  BY DEF IInv, AcquireLock, Granted
<1>2. /\ DOMAIN trx' = Workers /\ DOMAIN trx'[p] = Fields
      /\ \A q \in Workers \ {p} : trx'[q] = trx[q]
      /\ trx'[p].pc = trx[p].pc /\ trx'[p].op = trx[p].op
      /\ trx'[p].bet = trx[p].bet /\ trx'[p].round = trx[p].round
      /\ trx'[p].stake = trx[p].stake /\ trx'[p].selection = trx[p].selection
      /\ trx'[p].tick = trx[p].tick /\ trx'[p].game = trx[p].game
      /\ trx'[p].order = trx[p].order
      /\ trx'[p].need = Tail(trx[p].need)
      /\ trx'[p].held = trx[p].held \cup {Head(trx[p].need)}
  BY <1>1, GrantEffect
<1>3. ASSUME NEW lock, Awaits(p, lock) PROVE Awaits(p, lock)'
  BY <1>1, <1>2, <1>3, GrantEndsWait
<1>4. /\ rounds' = rounds /\ bets' = bets /\ balance' = balance /\ Placed' = Placed
      /\ \A r : ActiveOn(r)' = ActiveOn(r)
  BY <1>1 DEF tables, Placed, ActiveOn
<1>5. Placing(p)'
  <2>1. Placing(p)
    BY <1>1 DEF Standing
  <2>2. trx[p].held \subseteq trx'[p].held
    BY <1>2
  <2> QED
    BY <1>2, <1>3, <1>4, <2>1, <2>2 DEF Placing
<1>6. CashingOut(p)'
  BY <1>1, <1>2, <1>3, <1>4 DEF Standing, CashingOut
<1>7. Opening(p)'
  BY <1>1, <1>2 DEF Standing, Opening
<1>8. Advancing(p)'
  BY <1>1, <1>2, <1>3, <1>4 DEF Standing, Advancing
<1>9. Closing(p)'
  <2>1. Closing(p)
    BY <1>1 DEF Standing
  <2> QED
    BY <1>1, <1>2, <1>3, <1>4, <2>1, HeadAndTail DEF Closing
<1>10. Standing(p)'
  BY <1>5, <1>6, <1>7, <1>8, <1>9 DEF Standing
<1>11. LocksExclude'
  BY <1>1, GrantExcludes
<1>12. TypeOK' /\ RowsOK'
  BY <1>1, <1>2, <1>4 DEF IInv, TypeOK, RowsOK, tables
<1>13. ASSUME NEW q \in Workers PROVE Standing(q)'
  BY <1>1, <1>2, <1>10, OthersStand DEF IInv
<1> QED
  BY <1>2, <1>11, <1>12, <1>13 DEF IInv, Shape

-----------------------------------------------------------------------------
(* rows and postings *)

\* A payout is a whole number of minor units.
LEMMA PayoutType ==
  ASSUME NEW stake \in Nat, NEW bp \in Nat
  PROVE  Payout(stake, bp) \in Nat
BY DEF Payout, BasisPointsOne

\* The bet placed is a well-formed row.
LEMMA NewBetRow ==
  ASSUME NEW r \in RoundIds, NEW stake \in Stakes, NEW game,
         NEW selection \in SelectionsOf(game)
  PROVE  /\ NewBet(r, stake, selection) \in Bet
         /\ NewBet(r, stake, selection).round = r
         /\ NewBet(r, stake, selection).stake = stake
         /\ NewBet(r, stake, selection).status = "ACTIVE"
BY OddsAssumption, SelectionsDiffer DEF NewBet, Bet, BetStatuses, SelectionsOf

\* new is what becomes of the ACTIVE bet old: the transaction that closes its
\* books empties its place in escrow, and takes nothing from the wallet.
Closes(old, new) ==
  /\ new \in Bet
  /\ new.status \in {"WON", "LOST", "VOIDED"}
  /\ new.round = old.round /\ new.stake = old.stake
  /\ ClosingTx(new).escrow = -old.stake
  /\ ClosingTx(new).wallet \in Nat
  /\ ClosingTx(new).house \in Int

LEMMA WonCloses ==
  ASSUME NEW bet \in Bet, NEW bp \in Nat
  PROVE  Closes(bet, Won(bet, bp))
<1> DEFINE new == Won(bet, bp)
<1>1. bet.stake \in Nat
  BY StakesAreNat DEF Bet
<1>2. Payout(bet.stake, bp) \in Nat
  BY <1>1, PayoutType
<1>3. /\ new \in Bet /\ new.status = "WON" /\ new.round = bet.round
      /\ new.stake = bet.stake /\ new.payout = Payout(bet.stake, bp)
  BY <1>2 DEF Won, Bet, BetStatuses
<1> HIDE DEF new
<1>4. ClosingTx(new) = WonTx(bet.stake, Payout(bet.stake, bp))
  BY <1>3 DEF ClosingTx
<1>5. /\ ClosingTx(new).escrow = -bet.stake
      /\ ClosingTx(new).wallet = Payout(bet.stake, bp)
      /\ ClosingTx(new).house = bet.stake - Payout(bet.stake, bp)
  BY <1>4 DEF WonTx
<1>6. ClosingTx(new).house \in Int
  BY <1>1, <1>2, <1>5
<1>7. Closes(bet, new)
  BY <1>2, <1>3, <1>5, <1>6 DEF Closes
<1> QED
  BY <1>7 DEF new

LEMMA LostCloses == ASSUME NEW bet \in Bet PROVE Closes(bet, Lost(bet))
<1> DEFINE new == Lost(bet)
<1>1. bet.stake \in Nat
  BY StakesAreNat DEF Bet
<1>2. /\ new \in Bet /\ new.status = "LOST" /\ new.round = bet.round
      /\ new.stake = bet.stake
  BY DEF Lost, Bet, BetStatuses
<1> HIDE DEF new
<1>3. ClosingTx(new) = LostTx(bet.stake)
  BY <1>2 DEF ClosingTx
<1>4. /\ ClosingTx(new).escrow = -bet.stake /\ ClosingTx(new).wallet \in Nat
      /\ ClosingTx(new).house \in Int
  BY <1>1, <1>3 DEF LostTx
<1>5. Closes(bet, new)
  BY <1>2, <1>4 DEF Closes
<1> QED
  BY <1>5 DEF new

LEMMA RefundCloses == ASSUME NEW bet \in Bet PROVE Closes(bet, Refunded(bet))
<1> DEFINE new == Refunded(bet)
<1>1. bet.stake \in Nat
  BY StakesAreNat DEF Bet
<1>2. /\ new \in Bet /\ new.status = "VOIDED" /\ new.round = bet.round
      /\ new.stake = bet.stake
  BY <1>1 DEF Refunded, Bet, BetStatuses
<1> HIDE DEF new
<1>3. ClosingTx(new) = RefundTx(bet.stake)
  BY <1>2 DEF ClosingTx
<1>4. /\ ClosingTx(new).escrow = -bet.stake /\ ClosingTx(new).wallet \in Nat
      /\ ClosingTx(new).house \in Int
  BY <1>1, <1>3 DEF RefundTx
<1>5. Closes(bet, new)
  BY <1>2, <1>4 DEF Closes
<1> QED
  BY <1>5 DEF new

\* Settled or voided with its round.
LEMMA VerdictCloses ==
  ASSUME NEW e, NEW b, bets[b] \in Bet
  PROVE  Closes(bets[b], Verdict(e, b))
<1>1. bets[b].odds \in Nat
  BY DEF Bet
<1> QED
  BY <1>1, WonCloses, LostCloses, RefundCloses DEF Verdict, Settled

\* What a transaction moves, account by account.
LEMMA Amounts ==
  ASSUME NEW tx, NEW b \in BetIds
  PROVE  /\ Amount(tx, b, "ESCROW") = tx.escrow
         /\ Amount(tx, b, "HOUSE") = tx.house
         /\ Amount(tx, b, Owner(b)) = tx.wallet
         /\ \A u \in Users \ {Owner(b)} : Amount(tx, b, u) = 0
BY AccountsAssumption, OwnerHasAccount DEF Amount

\* A transaction of integers moves an integer on every account.
LEMMA AmountType ==
  ASSUME NEW tx, NEW b \in BetIds, tx.escrow \in Int, tx.house \in Int,
         tx.wallet \in Int, NEW a \in Accounts
  PROVE  Amount(tx, b, a) \in Int
BY Amounts DEF Accounts

\* One posting.
LEMMA PostOne ==
  ASSUME NEW b \in BetIds, NEW tx, balance \in [Accounts -> Int],
         tx.escrow \in Int, tx.house \in Int, tx.wallet \in Int,
         PostAll([x \in {b} |-> tx])
  PROVE  /\ balance' \in [Accounts -> Int]
         /\ balance'["ESCROW"] = balance["ESCROW"] + tx.escrow
         /\ balance'[Owner(b)] = balance[Owner(b)] + tx.wallet
         /\ \A u \in Users \ {Owner(b)} : balance'[u] = balance[u]
         /\ journal' = [x \in BetIds |-> IF x = b THEN Append(journal[x], tx)
                                                  ELSE journal[x]]
<1> DEFINE txs == [x \in {b} |-> tx]
           moved(a) == [x \in DOMAIN txs |-> Amount(txs[x], x, a)]
<1>1. DOMAIN txs = {b} /\ txs[b] = tx
  OBVIOUS
<1>2. /\ balance' = [a \in Accounts |-> balance[a] + SumFunction(moved(a))]
      /\ journal' = [x \in BetIds |-> IF x \in DOMAIN txs THEN Append(journal[x], txs[x])
                                                          ELSE journal[x]]
  BY DEF PostAll
<1>3. ASSUME NEW a \in Accounts PROVE SumFunction(moved(a)) = Amount(tx, b, a)
  <2>1. DOMAIN moved(a) = {b} /\ moved(a)[b] = Amount(tx, b, a)
    BY <1>1
  <2>2. Amount(tx, b, a) \in Int
    BY AmountType
  <2> HIDE DEF moved
  <2>3. SumFunction(moved(a)) = SumFunctionOnSet(moved(a), {b})
    BY <2>1 DEF SumFunction
  <2> QED
    BY <2>1, <2>2, <2>3, SumOfOne
<1> HIDE DEF moved
<1>4. \A a \in Accounts : balance'[a] = balance[a] + Amount(tx, b, a)
  BY <1>2, <1>3
<1>5. \A a \in Accounts : Amount(tx, b, a) \in Int
  BY AmountType
<1>6. balance' \in [Accounts -> Int]
  <2>1. \A a \in Accounts : balance[a] + Amount(tx, b, a) \in Int
    BY <1>5
  <2>2. DOMAIN balance' = Accounts /\ balance' = [a \in Accounts |-> balance'[a]]
    BY <1>2
  <2> QED
    BY <1>4, <2>1, <2>2
<1>7. "ESCROW" \in Accounts /\ Owner(b) \in Accounts /\ Users \subseteq Accounts
  BY OwnerHasAccount DEF Accounts
<1>8. \A u \in Users \ {Owner(b)} : balance'[u] = balance[u]
  BY <1>4, <1>7, Amounts
<1>9. /\ balance'["ESCROW"] = balance["ESCROW"] + tx.escrow
      /\ balance'[Owner(b)] = balance[Owner(b)] + tx.wallet
  BY <1>4, <1>7, Amounts
<1> QED
  BY <1>1, <1>2, <1>6, <1>8, <1>9

-----------------------------------------------------------------------------
(* steps that write the tables *)

\* Rows are never taken back, rounds move on, time does not run backwards.
RowsMoveOn ==
  /\ \A r \in RoundIds : rounds[r] # NoRound =>
       /\ rounds'[r] # NoRound
       /\ rounds'[r].game = rounds[r].game
       /\ rounds'[r].outcome = rounds[r].outcome
       /\ rounds'[r].age >= rounds[r].age
       /\ rounds[r].status \in Started => rounds'[r].status \in Started
  /\ \A b \in BetIds : bets[b] # NoBet =>
       bets'[b] # NoBet /\ bets'[b].round = bets[b].round

Open(r) == rounds[r].status \in {"RUNNING", "RESOLVED"}

\* What the locks of q protect, a step of anybody else leaves as it is.
Respects(q) ==
  /\ \A r \in RoundIds :
       /\ rounds[r] # NoRound
       /\ \/ Shared(RoundRow(r)) \in trx[q].held
          \/ Exclusive(RoundRow(r)) \in trx[q].held
       => rounds'[r].status = rounds[r].status
  /\ \A r \in RoundIds : Exclusive(RoundRow(r)) \in trx[q].held =>
       ActiveOn(r)' \subseteq ActiveOn(r)
  /\ \A b \in Placed : Exclusive(BetRow(b)) \in trx[q].held =>
       /\ bets'[b] = bets[b]
       /\ bets[b].status = "ACTIVE" /\ Open(bets[b].round) => Open(bets[b].round)'
  /\ \A u \in Users : Exclusive(BalanceRow(u)) \in trx[q].held =>
       balance'[u] >= balance[u]
  /\ \A b \in BetIds : Exclusive(KeyEntry(b)) \in trx[q].held =>
       (bets[b] = NoBet => bets'[b] = NoBet)

\* What has elapsed has elapsed: the curve does not fall.
LEMMA ElapsedPersists ==
  ASSUME NEW old \in Round, NEW new \in Round, NEW late \in Nat,
         new.game = old.game, new.outcome = old.outcome, new.age >= old.age,
         ElapsedPast(old, late)
  PROVE  ElapsedPast(new, late)
<1>1. /\ old.age \in 0..MaxAge /\ new.age \in 0..MaxAge /\ MaxAge \in Nat
      /\ old.outcome \in Nat /\ SpinTicks \in Nat
  BY BoundsAssumption, OutcomesAssumption DEF Round, Outcomes
<1>2. old.age >= late /\ new.age >= late
  <2>1. \A m, n \in 0..MaxAge : n >= m /\ m >= late => n >= late
    BY <1>1
  <2> QED
    BY <1>1, <2>1 DEF ElapsedPast
<1>3. /\ old.age - late \in 0..MaxAge /\ new.age - late \in 0..MaxAge
      /\ old.age - late =< new.age - late
  BY <1>1, <1>2
<1>4. CASE old.game = "CRASH" /\ Curve[old.age - late] >= old.outcome
  <2>1. Curve[old.age - late] =< Curve[new.age - late]
    BY <1>3, CurveAssumption
  <2>2. Curve[old.age - late] \in Nat /\ Curve[new.age - late] \in Nat
    BY <1>3, CurveAssumption
  <2>3. Curve[new.age - late] >= new.outcome
    BY <1>1, <1>4, <2>1, <2>2
  <2> QED
    BY <1>2, <1>4, <2>3 DEF ElapsedPast
<1>5. CASE old.game = "ROULETTE" /\ old.age - late >= SpinTicks
  <2>1. new.age - late >= SpinTicks
    BY <1>1, <1>3, <1>5
  <2> QED
    BY <1>2, <1>5, <2>1 DEF ElapsedPast
<1> QED
  BY <1>4, <1>5 DEF ElapsedPast

\* Where the locks are respected, what a transaction found still holds.
LEMMA StandingKept ==
  ASSUME TypeOK, rounds' \in [RoundIds -> Round \cup {NoRound}],
         balance \in [Accounts -> Int], balance' \in [Accounts -> Int],
         RowsOK, RowsMoveOn,
         NEW q, trx'[q] = trx[q], Respects(q), Standing(q)
  PROVE  Standing(q)'
<1>1. ASSUME NEW r \in RoundIds, rounds[r] # NoRound
      PROVE  /\ Due(rounds[r]) => Due(rounds'[r])
             /\ Overdue(rounds[r]) => Overdue(rounds'[r])
  <2>1. rounds[r] \in Round /\ rounds'[r] \in Round
    BY <1>1 DEF TypeOK, RowsMoveOn
  <2>2. /\ rounds'[r].game = rounds[r].game /\ rounds'[r].outcome = rounds[r].outcome
        /\ rounds'[r].age >= rounds[r].age
    BY <1>1 DEF RowsMoveOn
  <2>3. 0 \in Nat /\ Grace \in Nat
    BY BoundsAssumption
  <2> QED
    BY <2>1, <2>2, <2>3, ElapsedPersists DEF Due, Overdue
<1>2. ASSUME NEW lock, Awaits(q, lock) PROVE Awaits(q, lock)'
  BY <1>2 DEF Awaits
<1>3. Placing(q)'
  <2>1. Placing(q)
    BY DEF Standing
  <2>2. ASSUME trx[q].pc \in {"round read", "funds", "insert bet", "placed"}
        PROVE  /\ rounds'[trx[q].round] # NoRound
               /\ rounds'[trx[q].round].game = rounds[trx[q].round].game
    BY <2>1, <2>2 DEF Placing, RowsMoveOn
  <2>3. ASSUME trx[q].pc \in {"funds", "insert bet", "placed"}
        PROVE  rounds'[trx[q].round].status = "OPEN"
    BY <2>1, <2>3 DEF Placing, Respects
  <2>4. ASSUME trx[q].pc \in {"insert bet", "placed"}
        PROVE  balance'[Owner(trx[q].bet)] >= trx[q].stake
    <3>1. /\ trx[q].bet \in BetIds /\ trx[q].stake \in Stakes
          /\ Exclusive(BalanceRow(Owner(trx[q].bet))) \in trx[q].held
          /\ balance[Owner(trx[q].bet)] >= trx[q].stake
      BY <2>1, <2>4 DEF Placing
    <3> DEFINE u == Owner(trx[q].bet)
    <3>2. u \in Users /\ u \in Accounts
      BY <3>1, OwnerHasAccount
    <3>3. balance'[u] >= balance[u]
      BY <3>1, <3>2 DEF Respects
    <3>4. balance[u] \in Int /\ balance'[u] \in Int
      BY <3>2
    <3>5. trx[q].stake \in Nat
      BY <3>1, StakesAreNat
    <3> HIDE DEF u
    <3>6. balance[u] >= trx[q].stake
      BY <3>1 DEF u
    <3>7. balance'[u] >= trx[q].stake
      BY <3>3, <3>4, <3>5, <3>6
    <3> QED
      BY <3>7 DEF u
  <2>5. trx[q].pc = "placed" => bets'[trx[q].bet] = NoBet
    BY <2>1 DEF Placing, Respects
  <2> QED
    BY <1>2, <2>1, <2>2, <2>3, <2>4, <2>5 DEF Placing
<1>4. CashingOut(q)'
  <2>1. CashingOut(q)
    BY DEF Standing
  <2>2. ASSUME trx[q].pc \in {"bet read", "clock read", "cashed out"}
        PROVE  /\ trx[q].bet \in Placed' /\ bets'[trx[q].bet].round = trx[q].round
               /\ trx[q].round \in RoundIds /\ rounds[trx[q].round] # NoRound
    <3>1. trx[q].bet \in Placed /\ trx[q].round = bets[trx[q].bet].round
      BY <2>1, <2>2 DEF CashingOut
    <3>2. bets[trx[q].bet] \in Bet
      BY <3>1 DEF TypeOK, Placed
    <3> QED
      BY <3>1, <3>2 DEF Placed, RowsMoveOn, RowsOK, Bet
  <2>3. ASSUME trx[q].pc \in {"clock read", "cashed out"}
        PROVE  /\ bets'[trx[q].bet].status = "ACTIVE"
               /\ rounds'[trx[q].round].game = "CRASH"
               /\ rounds'[trx[q].round].status \in {"RUNNING", "RESOLVED"}
    <3>1. /\ trx[q].bet \in Placed /\ trx[q].round = bets[trx[q].bet].round
          /\ Exclusive(BetRow(trx[q].bet)) \in trx[q].held
          /\ bets[trx[q].bet].status = "ACTIVE" /\ Open(trx[q].round)
          /\ rounds[trx[q].round].game = "CRASH"
      BY <2>1, <2>3 DEF CashingOut, Open
    <3>2. bets'[trx[q].bet] = bets[trx[q].bet] /\ Open(bets[trx[q].bet].round)'
      BY <3>1 DEF Respects
    <3>3. rounds'[trx[q].round].game = rounds[trx[q].round].game
      BY <2>2, <2>3 DEF RowsMoveOn
    <3>4. rounds'[trx[q].round].status \in {"RUNNING", "RESOLVED"}
      BY <3>1, <3>2 DEF Open
    <3> QED
      BY <3>1, <3>2, <3>3, <3>4
  <2>4. ASSUME trx[q].pc = "cashed out"
        PROVE  /\ trx[q].tick \in 0..rounds'[trx[q].round].age
               /\ Curve[trx[q].tick] < rounds'[trx[q].round].outcome
    <3>1. /\ trx[q].tick \in 0..rounds[trx[q].round].age
          /\ Curve[trx[q].tick] < rounds[trx[q].round].outcome
      BY <2>1, <2>4 DEF CashingOut
    <3>2. /\ trx[q].round \in RoundIds /\ rounds[trx[q].round] # NoRound
      BY <2>2, <2>4
    <3>3. /\ rounds'[trx[q].round].outcome = rounds[trx[q].round].outcome
          /\ rounds'[trx[q].round].age >= rounds[trx[q].round].age
          /\ rounds'[trx[q].round] # NoRound
      BY <3>2 DEF RowsMoveOn
    <3>4. rounds[trx[q].round].age \in Nat /\ rounds'[trx[q].round].age \in Nat
      BY <3>2, <3>3, BoundsAssumption DEF TypeOK, Round
    <3> QED
      BY <3>1, <3>3, <3>4
  <2> QED
    BY <1>2, <2>1, <2>2, <2>3, <2>4 DEF CashingOut
<1>5. Opening(q)'
  BY DEF Standing, Opening
<1>6. Advancing(q)'
  <2>1. Advancing(q)
    BY DEF Standing
  <2>2. ASSUME trx[q].pc \in {"elapsed", "update"}
        PROVE  /\ rounds'[trx[q].round] # NoRound
               /\ rounds[trx[q].round].status \in Started =>
                    rounds'[trx[q].round].status \in Started
               /\ Due(rounds[trx[q].round]) => Due(rounds'[trx[q].round])
    BY <1>1, <2>1, <2>2 DEF Advancing, RowsMoveOn
  <2> QED
    BY <1>2, <2>1, <2>2 DEF Advancing
<1>7. Closing(q)'
  <2>1. Closing(q)
    BY DEF Standing
  <2>2. ASSUME trx[q].pc \in {"round lock", "bets lock", "posted"}
        PROVE  /\ rounds'[trx[q].round] # NoRound
               /\ rounds[trx[q].round].status \in Started =>
                    rounds'[trx[q].round].status \in Started
               /\ Overdue(rounds[trx[q].round]) => Overdue(rounds'[trx[q].round])
    BY <1>1, <2>1, <2>2 DEF Closing, RowsMoveOn
  <2>3. ASSUME trx[q].pc \in {"bets lock", "posted"}
        PROVE  /\ MayClose(trx[q].op, rounds'[trx[q].round].status)
               /\ ActiveOn(trx[q].round)' \subseteq ToSet(trx[q].order)
    <3>1. /\ trx[q].round \in RoundIds /\ rounds[trx[q].round] # NoRound
          /\ Exclusive(RoundRow(trx[q].round)) \in trx[q].held
          /\ MayClose(trx[q].op, rounds[trx[q].round].status)
          /\ ActiveOn(trx[q].round) \subseteq ToSet(trx[q].order)
      BY <2>1, <2>3 DEF Closing
    <3>2. /\ rounds'[trx[q].round].status = rounds[trx[q].round].status
          /\ ActiveOn(trx[q].round)' \subseteq ActiveOn(trx[q].round)
      BY <3>1 DEF Respects
    <3> QED
      BY <3>1, <3>2
  <2>4. ASSUME trx[q].pc = "bets lock", NEW b \in ToSet(trx[q].order)
        PROVE  b \in Placed' /\ bets'[b].round = trx[q].round
    <3>1. b \in Placed /\ bets[b].round = trx[q].round
      BY <2>1, <2>4 DEF Closing
    <3> QED
      BY <3>1 DEF Placed, RowsMoveOn
  <2>5. ASSUME trx[q].pc = "posted", NEW b \in ToSet(trx[q].order)
        PROVE  b \in ActiveOn(trx[q].round)'
    <3>1. b \in ActiveOn(trx[q].round) /\ Exclusive(BetRow(b)) \in trx[q].held
      BY <2>1, <2>5 DEF Closing
    <3>2. bets'[b] = bets[b]
      BY <3>1 DEF Respects, ActiveOn, Placed
    <3> QED
      BY <3>1, <3>2 DEF ActiveOn
  <2>6. trx[q].pc \in {"round lock", "bets lock", "posted"} =>
          /\ trx[q].round \in RoundIds
          /\ trx[q].op \in {"settle", "void"}
          /\ trx[q].op = "void" => /\ rounds'[trx[q].round].status \in Started
                                   /\ Overdue(rounds'[trx[q].round])
    BY <2>1, <2>2 DEF Closing
  <2>7. trx[q].pc = "round lock" => Awaits(q, Exclusive(RoundRow(trx[q].round)))'
    BY <1>2, <2>1 DEF Closing
  <2>8. trx[q].pc \in {"bets lock", "posted"} =>
          /\ Exclusive(RoundRow(trx[q].round)) \in trx[q].held
          /\ trx[q].order \in Seq(BetIds)
    BY <2>1 DEF Closing
  <2>9. trx[q].pc = "bets lock" =>
          /\ trx[q].need \in Seq({Exclusive(BetRow(b)) : b \in BetIds})
          /\ \A b \in ToSet(trx[q].order) :
               Exclusive(BetRow(b)) \in trx[q].held \cup ToSet(trx[q].need)
    BY <2>1 DEF Closing
  <2>10. trx[q].pc = "posted" =>
           \A b \in ToSet(trx[q].order) : Exclusive(BetRow(b)) \in trx[q].held
    BY <2>1 DEF Closing
  <2> QED
    BY <2>2, <2>3, <2>4, <2>5, <2>6, <2>7, <2>8, <2>9, <2>10 DEF Closing
<1> QED
  BY <1>3, <1>4, <1>5, <1>6, <1>7 DEF Standing

\* A commit that respects the locks of the others keeps the invariant.
LEMMA CommitStep ==
  ASSUME IInv, NEW p \in Workers, End(p),
         rounds' \in [RoundIds -> Round \cup {NoRound}],
         bets' \in [BetIds -> Bet \cup {NoBet}],
         balance' \in [Accounts -> Int],
         RowsOK', RowsMoveOn, \A q \in Workers \ {p} : Respects(q)
  PROVE  IInv'
<1>1. TypeOK /\ Shape /\ LocksExclude /\ RowsOK /\ \A q \in Workers : Standing(q)
  BY DEF IInv
<1>2. /\ trx'[p] = Idle /\ DOMAIN trx' = Workers /\ DOMAIN trx'[p] = Fields
      /\ \A q \in Workers \ {p} : trx'[q] = trx[q]
      /\ Standing(p)'
  BY <1>1, EndEffect
<1>3. /\ Idle.held = {} /\ Idle.pc \in PCs /\ Idle.bet = <<>> /\ Idle.round = 0
  BY DEF Idle, PCs
<1>4. TypeOK'
  BY <1>1, <1>2, <1>3 DEF TypeOK
<1>5. Shape' /\ LocksExclude'
  BY <1>1, <1>2, <1>3 DEF Shape, LocksExclude
<1>6. balance \in [Accounts -> Int]
  BY <1>1 DEF TypeOK
<1>7. ASSUME NEW q \in Workers PROVE Standing(q)'
  BY <1>1, <1>2, <1>6, StandingKept
<1> QED
  BY <1>4, <1>5, <1>7 DEF IInv

\* What a placement writes.
LEMMA PlaceBetEffect ==
  ASSUME IInv, NEW c \in Workers, CommitPlaceBet(c),
         NEW b, b = trx[c].bet, NEW r, r = trx[c].round, NEW stake, stake = trx[c].stake,
         NEW selection, selection = trx[c].selection
  PROVE  /\ b \in BetIds /\ r \in RoundIds /\ stake \in Stakes /\ stake \in Nat
         /\ bets[b] = NoBet /\ rounds[r].status = "OPEN" /\ rounds[r] # NoRound
         /\ selection \in SelectionsOf(rounds[r].game)
         /\ balance[Owner(b)] >= stake
         /\ Shared(RoundRow(r)) \in trx[c].held
         /\ Exclusive(BalanceRow(Owner(b))) \in trx[c].held
         /\ Exclusive(KeyEntry(b)) \in trx[c].held
         /\ bets' = [bets EXCEPT ![b] = NewBet(r, stake, selection)]
         /\ NewBet(r, stake, selection) \in Bet
         /\ rounds' = rounds
         /\ balance' \in [Accounts -> Int]
         /\ balance'["ESCROW"] = balance["ESCROW"] + stake
         /\ balance'[Owner(b)] = balance[Owner(b)] - stake
         /\ \A u \in Users \ {Owner(b)} : balance'[u] = balance[u]
         /\ journal' = [journal EXCEPT ![b] = Append(@, PlacedTx(stake))]
<1>1. /\ TypeOK /\ Standing(c) /\ trx[c].pc = "placed" /\ rounds' = rounds
      /\ journal = [x \in BetIds |-> journal[x]]
  BY DEF IInv, RowsOK, CommitPlaceBet, Ready
<1>2. /\ bets' = [bets EXCEPT ![b] = NewBet(r, stake, selection)]
      /\ PostAll([x \in {b} |-> PlacedTx(stake)])
  BY DEF CommitPlaceBet
<1>3. /\ b \in BetIds /\ r \in RoundIds /\ stake \in Stakes
      /\ bets[b] = NoBet /\ rounds[r].status = "OPEN" /\ rounds[r] # NoRound
      /\ selection \in SelectionsOf(rounds[r].game)
      /\ balance[Owner(b)] >= stake
      /\ Shared(RoundRow(r)) \in trx[c].held
      /\ Exclusive(BalanceRow(Owner(b))) \in trx[c].held
      /\ Exclusive(KeyEntry(b)) \in trx[c].held
  BY <1>1 DEF Standing, Placing
<1>4. stake \in Nat
  BY <1>3, StakesAreNat
<1>5. /\ PlacedTx(stake).escrow = stake /\ PlacedTx(stake).wallet = -stake
      /\ PlacedTx(stake).house = 0
  BY DEF PlacedTx
<1>6. /\ PlacedTx(stake).escrow \in Int /\ PlacedTx(stake).wallet \in Int
      /\ PlacedTx(stake).house \in Int
  BY <1>4, <1>5
<1>7. balance \in [Accounts -> Int]
  BY <1>1 DEF TypeOK
<1>8. /\ balance' \in [Accounts -> Int]
      /\ balance'["ESCROW"] = balance["ESCROW"] + PlacedTx(stake).escrow
      /\ balance'[Owner(b)] = balance[Owner(b)] + PlacedTx(stake).wallet
      /\ \A u \in Users \ {Owner(b)} : balance'[u] = balance[u]
      /\ journal' = [x \in BetIds |-> IF x = b THEN Append(journal[x], PlacedTx(stake))
                                               ELSE journal[x]]
  BY <1>2, <1>3, <1>6, <1>7, PostOne
<1>9. journal' = [journal EXCEPT ![b] = Append(@, PlacedTx(stake))]
  BY <1>1, <1>3, <1>8
<1>10. balance'[Owner(b)] = balance[Owner(b)] - stake
  <2>1. balance[Owner(b)] \in Int
    BY <1>3, <1>7, OwnerHasAccount
  <2>2. \A m \in Int : m + (-stake) = m - stake
    BY <1>4
  <2> QED
    BY <1>5, <1>8, <2>1, <2>2
<1>11. NewBet(r, stake, selection) \in Bet
  BY <1>3, NewBetRow
<1> QED
  BY <1>1, <1>2, <1>3, <1>4, <1>5, <1>8, <1>9, <1>10, <1>11

LEMMA CommitPlaceBetStep ==
  ASSUME IInv, NEW c \in Workers, CommitPlaceBet(c)
  PROVE  IInv'
<1> DEFINE b == trx[c].bet
           r == trx[c].round
           stake == trx[c].stake
           selection == trx[c].selection
           new == NewBet(r, stake, selection)
<1>1. /\ b \in BetIds /\ r \in RoundIds /\ stake \in Stakes /\ stake \in Nat
      /\ bets[b] = NoBet /\ rounds[r].status = "OPEN" /\ rounds[r] # NoRound
      /\ selection \in SelectionsOf(rounds[r].game)
      /\ Shared(RoundRow(r)) \in trx[c].held
      /\ Exclusive(BalanceRow(Owner(b))) \in trx[c].held
      /\ Exclusive(KeyEntry(b)) \in trx[c].held
      /\ bets' = [bets EXCEPT ![b] = new] /\ new \in Bet
      /\ rounds' = rounds
      /\ balance' \in [Accounts -> Int]
      /\ \A u \in Users \ {Owner(b)} : balance'[u] = balance[u]
      /\ journal' = [journal EXCEPT ![b] = Append(@, PlacedTx(stake))]
  BY PlaceBetEffect
<1>2. new.round = r /\ new # NoBet
  BY <1>1, NewBetRow DEF NoBet, Bet
<1> HIDE DEF b, r, stake, selection, new
<1>3. /\ TypeOK /\ RowsOK /\ LocksExclude /\ End(c)
  BY DEF IInv, CommitPlaceBet
<1>4. rounds' \in [RoundIds -> Round \cup {NoRound}]
  BY <1>1, <1>3 DEF TypeOK
<1>5. bets' \in [BetIds -> Bet \cup {NoBet}] /\ DOMAIN bets = BetIds
  BY <1>1, <1>3 DEF TypeOK
<1>6. /\ bets'[b] = new /\ \A x \in BetIds \ {b} : bets'[x] = bets[x]
  BY <1>1, <1>5
<1>7. Placed' = Placed \cup {b}
  BY <1>1, <1>2, <1>6 DEF Placed
<1>8. RowsOK'
  <2>1. IsFiniteSet(Placed')
    BY <1>3, <1>7, FS_AddElement DEF RowsOK
  <2>2. journal' = [x \in BetIds |-> journal'[x]]
    BY <1>1, <1>3 DEF RowsOK
  <2>3. \A x \in Placed' : rounds'[bets'[x].round] # NoRound
    BY <1>1, <1>2, <1>3, <1>6, <1>7 DEF RowsOK, Placed
  <2> QED
    BY <1>1, <1>3, <2>1, <2>2, <2>3 DEF RowsOK
<1>9. RowsMoveOn
  <2>1. \A q \in RoundIds : rounds[q] # NoRound => rounds[q].age >= rounds[q].age
    <3>1. ASSUME NEW q \in RoundIds, rounds[q] # NoRound PROVE rounds[q].age \in Int
      BY <1>3, <3>1, BoundsAssumption DEF TypeOK, Round
    <3> QED
      BY <3>1
  <2> QED
    BY <1>1, <1>6, <2>1 DEF RowsMoveOn
<1>10. ASSUME NEW q \in Workers \ {c} PROVE Respects(q)
  <2>1. \A l \in trx[q].held, m \in trx[c].held : ~ Conflict(l, m)
    BY <1>3 DEF LocksExclude
  <2>2. ASSUME NEW row, Exclusive(row) \in trx[q].held
        PROVE  Shared(row) \notin trx[c].held /\ Exclusive(row) \notin trx[c].held
    BY <2>1, <2>2 DEF Conflict, Shared, Exclusive
  <2>3. ASSUME NEW s \in RoundIds, Exclusive(RoundRow(s)) \in trx[q].held
        PROVE  ActiveOn(s)' \subseteq ActiveOn(s)
    <3>1. s # r
      BY <1>1, <2>2, <2>3
    <3> QED
      BY <1>2, <1>6, <3>1 DEF ActiveOn
  <2>4. ASSUME NEW u \in Users, Exclusive(BalanceRow(u)) \in trx[q].held
        PROVE  balance'[u] >= balance[u]
    <3>1. u # Owner(b)
      BY <1>1, <2>2, <2>4
    <3>2. balance[u] \in Int
      BY <1>3 DEF TypeOK, Accounts
    <3>3. balance'[u] = balance[u]
      BY <1>1, <3>1
    <3> QED
      BY <3>2, <3>3
  <2>5. ASSUME NEW x \in BetIds, Exclusive(KeyEntry(x)) \in trx[q].held, bets[x] = NoBet
        PROVE  bets'[x] = NoBet
    BY <1>1, <1>6, <2>2, <2>5
  <2>6. ASSUME NEW x \in Placed
        PROVE  /\ bets'[x] = bets[x]
               /\ Open(bets[x].round) => Open(bets[x].round)'
    <3>1. x \in BetIds /\ x # b
      BY <1>1 DEF Placed
    <3>2. Open(bets[x].round)' <=> rounds'[bets'[x].round].status \in {"RUNNING", "RESOLVED"}
      BY DEF Open
    <3> QED
      BY <1>1, <1>6, <3>1, <3>2 DEF Open
  <2> QED
    BY <1>1, <2>3, <2>4, <2>5, <2>6 DEF Respects
<1> QED
  BY <1>1, <1>3, <1>4, <1>5, <1>8, <1>9, <1>10, CommitStep

\* What a cash-out writes: a win below the crash point, at a tick that has passed.
LEMMA CashOutEffect ==
  ASSUME IInv, NEW c \in Workers, CommitCashOut(c),
         NEW b, b = trx[c].bet, NEW tick, tick = trx[c].tick,
         NEW r, r = bets[b].round, NEW row, row = Won(bets[b], Curve[tick])
  PROVE  /\ b \in BetIds /\ bets[b] \in Bet /\ bets[b].status = "ACTIVE"
         /\ r \in RoundIds /\ rounds[r].game = "CRASH"
         /\ rounds[r].status \in {"RUNNING", "RESOLVED"}
         /\ tick \in 0..MaxAge /\ tick =< rounds[r].age /\ Curve[tick] < rounds[r].outcome
         /\ Exclusive(BetRow(b)) \in trx[c].held
         /\ bets' = [bets EXCEPT ![b] = row] /\ Closes(bets[b], row)
         /\ rounds' = rounds
         /\ balance' \in [Accounts -> Int]
         /\ balance'["ESCROW"] = balance["ESCROW"] - bets[b].stake
         /\ \A u \in Users : balance'[u] >= balance[u]
         /\ journal' = [journal EXCEPT ![b] = Append(@, ClosingTx(row))]
<1>1. /\ TypeOK /\ RowsOK /\ Standing(c) /\ trx[c].pc = "cashed out" /\ rounds' = rounds
      /\ journal = [x \in BetIds |-> journal[x]]
  BY DEF IInv, RowsOK, CommitCashOut, Ready
<1>2. /\ b \in Placed /\ trx[c].round = r
      /\ Exclusive(BetRow(b)) \in trx[c].held
      /\ bets[b].status = "ACTIVE"
      /\ rounds[r].game = "CRASH"
      /\ rounds[r].status \in {"RUNNING", "RESOLVED"}
      /\ tick \in 0..rounds[r].age
      /\ Curve[tick] < rounds[r].outcome
  BY <1>1 DEF Standing, CashingOut
<1>3. /\ bets' = [bets EXCEPT ![b] = row]
      /\ PostAll([x \in {b} |-> ClosingTx(row)])
  BY DEF CommitCashOut
<1>4. b \in BetIds /\ bets[b] \in Bet /\ r \in RoundIds /\ bets[b].stake \in Nat
  <2>1. b \in BetIds /\ bets[b] \in Bet
    BY <1>1, <1>2 DEF TypeOK, Placed
  <2> QED
    BY <2>1, StakesAreNat DEF Bet
<1>5. rounds[r] \in Round
  BY <1>1, <1>2, <1>4 DEF TypeOK, RowsOK
<1>6. tick \in 0..MaxAge /\ tick =< rounds[r].age /\ tick \in Nat
  <2>1. MaxAge \in Nat /\ rounds[r].age \in 0..MaxAge
    BY <1>5, BoundsAssumption DEF Round
  <2>2. tick \in 0..rounds[r].age
    BY <1>2
  <2>3. \A n \in 0..MaxAge : \A m \in 0..n : m \in 0..MaxAge /\ m =< n /\ m \in Nat
    BY <2>1
  <2> QED
    BY <2>1, <2>2, <2>3, Zenon
<1>7. Closes(bets[b], row)
  BY <1>4, <1>6, CurveAssumption, WonCloses
<1>8. /\ ClosingTx(row).escrow = -bets[b].stake /\ ClosingTx(row).wallet \in Nat
      /\ ClosingTx(row).house \in Int
  BY <1>7 DEF Closes
<1>9. ClosingTx(row).escrow \in Int /\ ClosingTx(row).wallet \in Int
  BY <1>4, <1>8
<1>10. balance \in [Accounts -> Int]
  BY <1>1 DEF TypeOK
<1>11. /\ balance' \in [Accounts -> Int]
       /\ balance'["ESCROW"] = balance["ESCROW"] + ClosingTx(row).escrow
       /\ balance'[Owner(b)] = balance[Owner(b)] + ClosingTx(row).wallet
       /\ \A u \in Users \ {Owner(b)} : balance'[u] = balance[u]
       /\ journal' = [x \in BetIds |-> IF x = b THEN Append(journal[x], ClosingTx(row))
                                                ELSE journal[x]]
  BY <1>3, <1>4, <1>8, <1>9, <1>10, PostOne
<1>12. journal' = [journal EXCEPT ![b] = Append(@, ClosingTx(row))]
  BY <1>1, <1>4, <1>11
<1>13. balance'["ESCROW"] = balance["ESCROW"] - bets[b].stake
  <2>1. balance["ESCROW"] \in Int
    BY <1>10 DEF Accounts
  <2>2. \A m \in Int : m + (-bets[b].stake) = m - bets[b].stake
    BY <1>4
  <2> QED
    BY <1>8, <1>11, <2>1, <2>2
<1>14. ASSUME NEW u \in Users PROVE balance'[u] >= balance[u]
  <2>1. balance[u] \in Int /\ balance[Owner(b)] \in Int
    BY <1>4, <1>10, OwnerHasAccount DEF Accounts
  <2>2. \A m \in Int, n \in Nat : m >= m /\ m + n >= m
    OBVIOUS
  <2>3. CASE u = Owner(b)
    BY <1>8, <1>11, <2>1, <2>2, <2>3
  <2>4. CASE u # Owner(b)
    BY <1>11, <2>1, <2>2, <2>4
  <2> QED
    BY <2>3, <2>4
<1> QED
  BY <1>1, <1>2, <1>3, <1>4, <1>6, <1>7, <1>11, <1>12, <1>13, <1>14

\* Rounds are unchanged, so is what the locks on them protect.
LEMMA SameAge ==
  ASSUME TypeOK, NEW r \in RoundIds, rounds[r] # NoRound
  PROVE  rounds[r].age >= rounds[r].age
<1>1. rounds[r].age \in Int
  BY BoundsAssumption DEF TypeOK, Round
<1> QED
  BY <1>1

LEMMA CommitCashOutStep ==
  ASSUME IInv, NEW c \in Workers, CommitCashOut(c)
  PROVE  IInv'
<1> DEFINE b == trx[c].bet
           row == Won(bets[b], Curve[trx[c].tick])
<1>1. /\ b \in BetIds /\ bets[b] \in Bet /\ bets[b].status = "ACTIVE"
      /\ Exclusive(BetRow(b)) \in trx[c].held
      /\ bets' = [bets EXCEPT ![b] = row] /\ Closes(bets[b], row)
      /\ rounds' = rounds
      /\ balance' \in [Accounts -> Int]
      /\ \A u \in Users : balance'[u] >= balance[u]
      /\ journal' = [journal EXCEPT ![b] = Append(@, ClosingTx(row))]
  BY CashOutEffect
<1> HIDE DEF b, row
<1>2. row \in Bet /\ row.round = bets[b].round /\ row.status # "ACTIVE" /\ row # NoBet
  <2>1. row \in Bet /\ row.round = bets[b].round /\ row.status \in {"WON", "LOST", "VOIDED"}
    BY <1>1 DEF Closes
  <2>2. \A x \in Bet : x # NoBet
    BY DEF NoBet, Bet
  <2> QED
    BY <2>1, <2>2
<1>3. /\ TypeOK /\ RowsOK /\ LocksExclude /\ End(c)
  BY DEF IInv, CommitCashOut
<1>4. rounds' \in [RoundIds -> Round \cup {NoRound}]
  BY <1>1, <1>3 DEF TypeOK
<1>5. bets' \in [BetIds -> Bet \cup {NoBet}] /\ DOMAIN bets = BetIds
  BY <1>1, <1>2, <1>3 DEF TypeOK
<1>6. /\ bets'[b] = row /\ \A x \in BetIds \ {b} : bets'[x] = bets[x]
  BY <1>1, <1>5
<1>7. bets[b] # NoBet
  BY <1>1 DEF NoBet, Bet
<1>8. Placed' = Placed
  BY <1>1, <1>2, <1>6, <1>7 DEF Placed
<1>9. RowsOK'
  <2>1. journal' = [x \in BetIds |-> journal'[x]]
    BY <1>1, <1>3 DEF RowsOK
  <2>2. \A x \in Placed' : rounds'[bets'[x].round] # NoRound
    BY <1>1, <1>2, <1>3, <1>6, <1>7, <1>8 DEF RowsOK, Placed
  <2> QED
    BY <1>1, <1>3, <1>8, <2>1, <2>2 DEF RowsOK
<1>10. RowsMoveOn
  BY <1>1, <1>2, <1>3, <1>6, SameAge DEF RowsMoveOn
<1>11. ASSUME NEW q \in Workers \ {c} PROVE Respects(q)
  <2>1. \A l \in trx[q].held, m \in trx[c].held : ~ Conflict(l, m)
    BY <1>3 DEF LocksExclude
  <2>2. ASSUME NEW locked, Exclusive(locked) \in trx[q].held
        PROVE  Exclusive(locked) \notin trx[c].held
    BY <2>1, <2>2 DEF Conflict, Exclusive
  <2>3. ASSUME NEW s \in RoundIds PROVE ActiveOn(s)' \subseteq ActiveOn(s)
    BY <1>2, <1>6 DEF ActiveOn
  <2>4. ASSUME NEW x \in Placed, Exclusive(BetRow(x)) \in trx[q].held
        PROVE  /\ bets'[x] = bets[x]
               /\ Open(bets[x].round) => Open(bets[x].round)'
    <3>1. x \in BetIds /\ x # b
      BY <1>1, <2>2, <2>4 DEF Placed
    <3>2. Open(bets[x].round)' <=> rounds'[bets'[x].round].status \in {"RUNNING", "RESOLVED"}
      BY DEF Open
    <3> QED
      BY <1>1, <1>6, <3>1, <3>2 DEF Open
  <2>5. ASSUME NEW x \in BetIds, bets[x] = NoBet PROVE bets'[x] = NoBet
    BY <1>6, <1>7, <2>5
  <2> QED
    BY <1>1, <2>3, <2>4, <2>5 DEF Respects
<1> QED
  BY <1>1, <1>3, <1>4, <1>5, <1>9, <1>10, <1>11, CommitStep

\* What a tick that opens a round writes, if anything: the next row, unless the
\* game has a live round.
LEMMA InsertRoundEffect ==
  ASSUME IInv, NEW e \in Workers, InsertRound(e), rounds' # rounds
  PROVE  \E game \in Games : \E outcome \in OutcomesOf(game), r \in RoundIds :
           /\ \A q \in RoundIds : rounds[q] = NoRound <=> q >= r
           /\ \A q \in RoundIds :
                ~ (rounds[q].status \in LiveStatuses /\ rounds[q].game = game)
           /\ rounds' = [rounds EXCEPT ![r] = NewRound(game, outcome)]
<1>1. /\ TypeOK /\ RowsOK /\ Standing(e) /\ trx[e].pc = "insert round"
  BY DEF IInv, InsertRound, Ready
<1>2. trx[e].game \in Games
  BY <1>1 DEF Standing, Opening
<1>3. /\ Unused # {}
      /\ ~ \E r \in Pending(trx[e].game) : rounds[r].status \in LiveStatuses
      /\ \E outcome \in OutcomesOf(trx[e].game) :
           rounds' = [rounds EXCEPT ![Min(Unused)] = NewRound(trx[e].game, outcome)]
  BY DEF InsertRound
<1>4. Unused \subseteq Nat
  BY BoundsAssumption DEF Unused, RoundIds
<1>5. Min(Unused) \in Unused /\ \A x \in Unused : Min(Unused) =< x
  BY <1>3, <1>4, MinIsLeast
<1> DEFINE r == Min(Unused)
<1> HIDE DEF r
<1>6. r \in RoundIds /\ rounds[r] = NoRound /\ \A q \in RoundIds : rounds[q] = NoRound => r =< q
  BY <1>5 DEF r, Unused
<1>7. ASSUME NEW q \in RoundIds PROVE rounds[q] = NoRound <=> q >= r
  <2>1. q \in Int /\ r \in Int
    BY <1>6, BoundsAssumption DEF RoundIds
  <2>2. rounds[q] = NoRound => q >= r
    BY <1>6, <2>1
  <2>3. q >= r => rounds[q] = NoRound
    BY <1>1, <1>6 DEF RowsOK
  <2> QED
    BY <2>2, <2>3
<1>8. \A q \in RoundIds :
        ~ (rounds[q].status \in LiveStatuses /\ rounds[q].game = trx[e].game)
  BY <1>3 DEF Pending
<1> QED
  BY <1>2, <1>3, <1>6, <1>7, <1>8 DEF r

\* The round just opened is a well-formed row.
LEMMA NewRoundRow ==
  ASSUME NEW game \in Games, NEW outcome \in OutcomesOf(game)
  PROVE  NewRound(game, outcome) \in Round
BY BoundsAssumption DEF NewRound, Round, OutcomesOf, Outcomes, Games, RoundStatuses,
                        LiveStatuses

LEMMA InsertRoundStep ==
  ASSUME IInv, NEW e \in Workers, InsertRound(e)
  PROVE  IInv'
<1>1. /\ TypeOK /\ RowsOK /\ End(e) /\ UNCHANGED <<bets, journal, balance>>
  BY DEF IInv, InsertRound
<1>2. CASE rounds' = rounds
  BY <1>1, <1>2, EndStep DEF tables
<1>3. ASSUME rounds' # rounds PROVE IInv'
  <2>0. PICK game \in Games : \E outcome \in OutcomesOf(game), r \in RoundIds :
          /\ \A q \in RoundIds : rounds[q] = NoRound <=> q >= r
          /\ rounds' = [rounds EXCEPT ![r] = NewRound(game, outcome)]
    BY <1>3, InsertRoundEffect
  <2>1. PICK outcome \in OutcomesOf(game), r \in RoundIds :
          /\ \A q \in RoundIds : rounds[q] = NoRound <=> q >= r
          /\ rounds' = [rounds EXCEPT ![r] = NewRound(game, outcome)]
    BY <2>0
  <2> DEFINE new == NewRound(game, outcome)
  <2>2. new \in Round /\ new # NoRound
    BY NewRoundRow DEF Round, NoRound
  <2>3. rounds' = [rounds EXCEPT ![r] = new]
    BY <2>1
  <2> HIDE DEF new
  <2>4. /\ rounds' \in [RoundIds -> Round \cup {NoRound}]
        /\ bets' \in [BetIds -> Bet \cup {NoBet}]
        /\ balance' \in [Accounts -> Int]
        /\ rounds'[r] = new /\ \A q \in RoundIds \ {r} : rounds'[q] = rounds[q]
    BY <1>1, <2>2, <2>3 DEF TypeOK
  <2>5. rounds[r] = NoRound
    <3>1. r >= r
      BY BoundsAssumption DEF RoundIds
    <3> QED
      BY <2>1, <3>1
  <2>6. Placed' = Placed
    BY <1>1 DEF Placed
  <2>7. RowsOK'
    <3>1. \A b \in Placed : rounds'[bets[b].round] # NoRound
      <4>1. ASSUME NEW b \in Placed PROVE bets[b].round \in RoundIds
        BY <1>1 DEF TypeOK, Placed, Bet
      <4> QED
        BY <1>1, <2>2, <2>4, <4>1 DEF RowsOK
    <3>2. ASSUME NEW q \in RoundIds, NEW s \in RoundIds, rounds'[q] = NoRound, s >= q
          PROVE  rounds'[s] = NoRound
      <4>1. q # r
        BY <2>2, <2>4, <3>2
      <4>2. rounds[q] = NoRound /\ q >= r
        BY <2>1, <2>4, <3>2, <4>1
      <4>3. s # r /\ s >= r
        <5>1. q \in Int /\ r \in Int /\ s \in Int
          BY BoundsAssumption DEF RoundIds
        <5> QED
          BY <3>2, <4>1, <4>2, <5>1
      <4> QED
        BY <2>1, <2>4, <4>3
    <3> QED
      BY <1>1, <2>6, <3>1, <3>2 DEF RowsOK
  <2>8. RowsMoveOn
    BY <1>1, <2>4, <2>5, SameAge DEF RowsMoveOn
  <2>9. ASSUME NEW q \in Workers \ {e} PROVE Respects(q)
    <3>1. ASSUME NEW u \in Users PROVE balance'[u] >= balance[u]
      <4>1. balance[u] \in Int
        BY <1>1 DEF TypeOK, Accounts
      <4> QED
        BY <1>1, <4>1
    <3>2. \A s : ActiveOn(s)' = ActiveOn(s)
      BY <1>1 DEF ActiveOn
    <3>3. ASSUME NEW b \in Placed, Open(bets[b].round) PROVE Open(bets[b].round)'
      <4>1. bets[b].round \in RoundIds /\ rounds[bets[b].round] # NoRound
        BY <1>1 DEF TypeOK, Placed, Bet, RowsOK
      <4>2. rounds'[bets[b].round] = rounds[bets[b].round] /\ bets' = bets
        BY <1>1, <2>4, <2>5, <4>1
      <4> QED
        BY <3>3, <4>2 DEF Open
    <3> QED
      BY <1>1, <2>4, <2>5, <3>1, <3>2, <3>3 DEF Respects
  <2> QED
    BY <1>1, <2>4, <2>7, <2>8, <2>9, CommitStep
<1> QED
  BY <1>2, <1>3

\* What lockRound, startRound and resolveRound write, if the guard holds.
Moves(r, from, to) ==
  rounds[r].status = from /\ rounds' = [rounds EXCEPT ![r].status = to]

LEMMA UpdateRoundEffect ==
  ASSUME IInv, NEW e \in Workers, UpdateRound(e), NEW r, r = trx[e].round
  PROVE  /\ r \in RoundIds /\ rounds[r] # NoRound
         /\ Exclusive(RoundRow(r)) \in trx[e].held
         /\ \/ rounds' = rounds
            \/ Moves(r, "OPEN", "LOCKED")
            \/ Moves(r, "LOCKED", "RUNNING")
            \/ Moves(r, "RUNNING", "RESOLVED") /\ Due(rounds[r])
<1>1. /\ TypeOK /\ RowsOK /\ Standing(e) /\ trx[e].pc = "update" /\ trx[e].need = <<>>
  BY DEF IInv, UpdateRound, Ready
<1>2. /\ r \in RoundIds /\ rounds[r] # NoRound
      /\ trx[e].op \in {"lock", "start", "resolve"}
      /\ trx[e].op = "resolve" => Due(rounds[r])
      /\ Awaits(e, Exclusive(RoundRow(r)))
  BY <1>1 DEF Standing, Advancing
<1>3. Exclusive(RoundRow(r)) \in trx[e].held
  BY <1>1, <1>2, Has
<1> DEFINE step == CASE trx[e].op = "lock"    -> <<"OPEN", "LOCKED">>
                     [] trx[e].op = "start"   -> <<"LOCKED", "RUNNING">>
                     [] trx[e].op = "resolve" -> <<"RUNNING", "RESOLVED">>
<1>0. rounds' = IF rounds[r].status = step[1]
                  THEN [rounds EXCEPT ![r].status = step[2]]
                  ELSE rounds
  BY DEF UpdateRound
<1>4. CASE trx[e].op = "lock"
  <2>1. step = <<"OPEN", "LOCKED">>
    BY <1>4
  <2> HIDE DEF step
  <2>2. step[1] = "OPEN" /\ step[2] = "LOCKED"
    BY <2>1
  <2> QED
    BY <1>0, <1>2, <1>3, <2>2 DEF Moves
<1>5. CASE trx[e].op = "start"
  <2>1. step = <<"LOCKED", "RUNNING">>
    BY <1>5
  <2> HIDE DEF step
  <2>2. step[1] = "LOCKED" /\ step[2] = "RUNNING"
    BY <2>1
  <2> QED
    BY <1>0, <1>2, <1>3, <2>2 DEF Moves
<1>6. CASE trx[e].op = "resolve"
  <2>1. step = <<"RUNNING", "RESOLVED">>
    BY <1>6
  <2> HIDE DEF step
  <2>2. step[1] = "RUNNING" /\ step[2] = "RESOLVED"
    BY <2>1
  <2> QED
    BY <1>0, <1>2, <1>3, <1>6, <2>2 DEF Moves
<1> QED
  BY <1>2, <1>3, <1>4, <1>5, <1>6

LEMMA UpdateRoundStep ==
  ASSUME IInv, NEW e \in Workers, UpdateRound(e)
  PROVE  IInv'
<1> DEFINE r == trx[e].round
<1>1. /\ TypeOK /\ RowsOK /\ LocksExclude /\ End(e)
      /\ UNCHANGED <<bets, journal, balance>>
  BY DEF IInv, UpdateRound
<1>2. /\ r \in RoundIds /\ rounds[r] # NoRound
      /\ Exclusive(RoundRow(r)) \in trx[e].held
      /\ \/ rounds' = rounds
         \/ \E from, to : /\ Moves(r, from, to)
                          /\ <<from, to>> \in {<<"OPEN", "LOCKED">>, <<"LOCKED", "RUNNING">>,
                                               <<"RUNNING", "RESOLVED">>}
  BY UpdateRoundEffect
<1> HIDE DEF r
<1>3. CASE rounds' = rounds
  BY <1>1, <1>3, EndStep DEF tables
<1>4. ASSUME NEW from, NEW to, Moves(r, from, to),
             \/ from = "OPEN" /\ to = "LOCKED"
             \/ from = "LOCKED" /\ to = "RUNNING"
             \/ from = "RUNNING" /\ to = "RESOLVED"
      PROVE  IInv'
  <2>1. /\ rounds[r] \in Round /\ rounds[r].status = from
        /\ rounds' = [rounds EXCEPT ![r].status = to]
    BY <1>1, <1>2, <1>4 DEF TypeOK, Moves
  <2>2. to \in RoundStatuses
    BY <1>4 DEF RoundStatuses, LiveStatuses
  <2> DEFINE new == [rounds[r] EXCEPT !.status = to]
  <2>3. /\ new \in Round /\ new # NoRound /\ new.status = to
        /\ new.game = rounds[r].game /\ new.outcome = rounds[r].outcome
        /\ new.age = rounds[r].age
    BY <2>1, <2>2 DEF Round, NoRound
  <2>4. rounds' = [rounds EXCEPT ![r] = new]
    BY <2>1
  <2> HIDE DEF new
  <2>5. /\ rounds' \in [RoundIds -> Round \cup {NoRound}]
        /\ bets' \in [BetIds -> Bet \cup {NoBet}]
        /\ balance' \in [Accounts -> Int]
        /\ rounds'[r] = new /\ \A q \in RoundIds \ {r} : rounds'[q] = rounds[q]
    BY <1>1, <1>2, <2>3, <2>4 DEF TypeOK
  <2>6. Placed' = Placed /\ \A q \in RoundIds : rounds'[q] = NoRound <=> rounds[q] = NoRound
    BY <1>1, <1>2, <2>3, <2>5 DEF Placed
  <2>7. \A b \in Placed : bets[b].round \in RoundIds
    BY <1>1 DEF TypeOK, Placed, Bet
  <2>8. RowsOK'
    BY <1>1, <2>6, <2>7 DEF RowsOK
  <2>9. RowsMoveOn
    <3>1. rounds[r].status \in Started => to \in Started
      BY <1>4, <2>1 DEF Started
    <3> QED
      BY <1>1, <1>2, <2>3, <2>5, <3>1, SameAge DEF RowsMoveOn
  <2>10. ASSUME NEW q \in Workers \ {e} PROVE Respects(q)
    <3>1. \A l \in trx[q].held, m \in trx[e].held : ~ Conflict(l, m)
      BY <1>1 DEF LocksExclude
    <3>2. ASSUME NEW s \in RoundIds,
                 \/ Shared(RoundRow(s)) \in trx[q].held
                 \/ Exclusive(RoundRow(s)) \in trx[q].held
          PROVE  rounds'[s] = rounds[s]
      BY <1>2, <2>5, <3>1, <3>2 DEF Conflict, Shared, Exclusive
    <3>3. ASSUME NEW u \in Users PROVE balance'[u] >= balance[u]
      <4>1. balance[u] \in Int
        BY <1>1 DEF TypeOK, Accounts
      <4> QED
        BY <1>1, <4>1
    <3>4. \A s : ActiveOn(s)' = ActiveOn(s)
      BY <1>1 DEF ActiveOn
    <3>5. ASSUME NEW b \in Placed, Open(bets[b].round) PROVE Open(bets[b].round)'
      <4>1. CASE bets[b].round = r
        <5>1. rounds'[r].status \in {"RUNNING", "RESOLVED"}
          BY <1>4, <2>1, <2>3, <2>5, <3>5, <4>1 DEF Open
        <5> QED
          BY <1>1, <4>1, <5>1 DEF Open
      <4>2. CASE bets[b].round # r
        BY <1>1, <2>5, <2>7, <3>5, <4>2 DEF Open
      <4> QED
        BY <4>1, <4>2
    <3> QED
      BY <1>1, <3>2, <3>3, <3>4, <3>5 DEF Respects
  <2> QED
    BY <1>1, <2>5, <2>8, <2>9, <2>10, CommitStep
<1> QED
  BY <1>2, <1>3, <1>4

\* Many postings at once, none of which takes from a wallet.  g is what each
\* takes out of escrow.
LEMMA PostMany ==
  ASSUME balance \in [Accounts -> Int],
         NEW txs, DOMAIN txs \subseteq BetIds, IsFiniteSet(DOMAIN txs),
         NEW g, \A b \in DOMAIN txs : /\ g[b] \in Int /\ txs[b].escrow = -g[b]
                                      /\ txs[b].house \in Int /\ txs[b].wallet \in Nat,
         PostAll(txs)
  PROVE  /\ balance' \in [Accounts -> Int]
         /\ balance'["ESCROW"] = balance["ESCROW"] - SumFunctionOnSet(g, DOMAIN txs)
         /\ \A u \in Users : balance'[u] >= balance[u]
<1> DEFINE S == DOMAIN txs
           moved(a) == [b \in S |-> Amount(txs[b], b, a)]
           sum(a) == SumFunctionOnSet(moved(a), S)
<1>1. balance' = [a \in Accounts |-> balance[a] + SumFunction(moved(a))]
  BY DEF PostAll
<1>2. \A a : DOMAIN moved(a) = S /\ \A b \in S : moved(a)[b] = Amount(txs[b], b, a)
  OBVIOUS
<1>3. /\ S \subseteq BetIds /\ IsFiniteSet(S)
      /\ \A b \in S : /\ g[b] \in Int /\ txs[b].escrow = -g[b] /\ txs[b].escrow \in Int
                      /\ txs[b].house \in Int /\ txs[b].wallet \in Nat
                      /\ txs[b].wallet \in Int
  OBVIOUS
<1> HIDE DEF S, moved
<1>4. \A a : SumFunction(moved(a)) = sum(a)
  BY <1>2 DEF SumFunction
<1>5. ASSUME NEW a \in Accounts PROVE sum(a) \in Int
  <2>1. \A b \in S : moved(a)[b] \in Int
    BY <1>2, <1>3, AmountType
  <2> QED
    BY <1>3, <2>1, SumType
<1>6. "ESCROW" \in Accounts /\ Users \subseteq Accounts
  BY DEF Accounts
<1>7. SumFunctionOnSet(g, S) \in Int
  BY <1>3, SumType
<1>8. sum("ESCROW") = -SumFunctionOnSet(g, S)
  <2> DEFINE f == moved("ESCROW")
             h == [b \in S |-> 0]
  <2>1. \A b \in S : f[b] = -g[b]
    BY <1>2, <1>3, Amounts
  <2>2. \A b \in S : f[b] \in Int /\ g[b] \in Int /\ h[b] = f[b] + g[b]
    BY <1>3, <2>1
  <2>3. \A b \in S : h[b] = 0
    OBVIOUS
  <2> HIDE DEF f, h
  <2>4. SumFunctionOnSet(h, S) = SumFunctionOnSet(f, S) + SumFunctionOnSet(g, S)
    BY <1>3, <2>2, SumOfSums
  <2>5. SumFunctionOnSet(h, S) = 0
    BY <1>3, <2>3, SumOfZeros
  <2>6. SumFunctionOnSet(f, S) = sum("ESCROW")
    BY DEF f
  <2> HIDE DEF sum
  <2> QED
    BY <1>5, <1>6, <1>7, <2>4, <2>5, <2>6
<1>9. ASSUME NEW u \in Users PROVE sum(u) \in Nat
  <2>1. \A b \in S : moved(u)[b] \in Nat
    <3>1. ASSUME NEW b \in S PROVE Amount(txs[b], b, u) \in Nat
      <4>1. b \in BetIds /\ txs[b].wallet \in Nat
        BY <1>3
      <4>2. Amount(txs[b], b, u) = IF u = Owner(b) THEN txs[b].wallet ELSE 0
        BY <4>1, Amounts
      <4> QED
        BY <4>1, <4>2
    <3> QED
      BY <1>2, <3>1
  <2> QED
    BY <1>3, <2>1, SumNotNegative
<1> HIDE DEF sum
<1>10. /\ DOMAIN balance' = Accounts /\ balance' = [a \in Accounts |-> balance'[a]]
       /\ \A a \in Accounts : balance'[a] = balance[a] + sum(a)
  BY <1>1, <1>4
<1>11. \A a \in Accounts : balance[a] \in Int /\ balance[a] + sum(a) \in Int
  BY <1>5
<1>12. balance' \in [Accounts -> Int]
  BY <1>10, <1>11
<1>13. balance'["ESCROW"] = balance["ESCROW"] - SumFunctionOnSet(g, S)
  BY <1>6, <1>7, <1>8, <1>10, <1>11
<1>14. ASSUME NEW u \in Users PROVE balance'[u] >= balance[u]
  <2>1. \A m \in Int, n \in Nat : m + n >= m
    OBVIOUS
  <2> QED
    BY <1>6, <1>9, <1>10, <1>11, <2>1
<1> QED
  BY <1>12, <1>13, <1>14 DEF S

StakeOf == [b \in BetIds |-> bets[b].stake]

\* What settleRound and voidRound write: exactly the ACTIVE bets of the round
\* are closed, with the verdict of the operation.
LEMMA CloseEffect ==
  ASSUME IInv, NEW e \in Workers, CommitClose(e), NEW r, r = trx[e].round,
         NEW S, S = ActiveOn(r)
  PROVE  /\ r \in RoundIds /\ rounds[r] \in Round
         /\ S \subseteq Placed /\ IsFiniteSet(S)
         /\ \/ trx[e].op = "settle" /\ rounds[r].status = "RESOLVED"
            \/ trx[e].op = "void" /\ rounds[r].status = "RUNNING" /\ Overdue(rounds[r])
         /\ Exclusive(RoundRow(r)) \in trx[e].held
         /\ \A b \in S : Exclusive(BetRow(b)) \in trx[e].held
         /\ \A b \in S : bets[b] \in Bet /\ Closes(bets[b], Verdict(e, b))
         /\ bets' = [b \in BetIds |-> IF b \in S THEN Verdict(e, b) ELSE bets[b]]
         /\ rounds' = [rounds EXCEPT ![r].status =
                         IF trx[e].op = "void" THEN "VOIDED" ELSE "SETTLED"]
         /\ journal' = [b \in BetIds |-> IF b \in S
                          THEN Append(journal[b], ClosingTx(Verdict(e, b)))
                          ELSE journal[b]]
         /\ balance' \in [Accounts -> Int]
         /\ balance'["ESCROW"] = balance["ESCROW"] - SumFunctionOnSet(StakeOf, S)
         /\ \A u \in Users : balance'[u] >= balance[u]
<1>1. /\ TypeOK /\ RowsOK /\ Standing(e) /\ trx[e].pc = "posted" /\ ~ BreaksCheck(e)
  BY DEF IInv, CommitClose, Ready
<1>2. /\ r \in RoundIds /\ rounds[r] # NoRound
      /\ trx[e].op \in {"settle", "void"}
      /\ trx[e].op = "void" => rounds[r].status \in Started /\ Overdue(rounds[r])
      /\ Exclusive(RoundRow(r)) \in trx[e].held
      /\ MayClose(trx[e].op, rounds[r].status)
      /\ ActiveOn(r) \subseteq ToSet(trx[e].order)
      /\ \A b \in ToSet(trx[e].order) : /\ b \in ActiveOn(r)
                                        /\ Exclusive(BetRow(b)) \in trx[e].held
  BY <1>1 DEF Standing, Closing
<1>3. ToSet(trx[e].order) = S
  BY <1>2
<1>4. /\ bets' = [b \in BetIds |->
                    IF b \in S /\ bets[b].status = "ACTIVE" THEN Verdict(e, b)
                                                            ELSE bets[b]]
      /\ PostAll([b \in S |-> ClosingTx(Verdict(e, b))])
      /\ rounds' = [rounds EXCEPT ![r].status =
                      IF trx[e].op = "void" THEN "VOIDED" ELSE "SETTLED"]
  BY <1>3 DEF CommitClose
<1>5. rounds[r] \in Round
  BY <1>1, <1>2 DEF TypeOK
<1>6. S \subseteq Placed /\ IsFiniteSet(S) /\ S \subseteq BetIds
  BY ActiveFinite DEF Placed
<1>7. \A b \in S : bets[b] \in Bet /\ bets[b].status = "ACTIVE" /\ bets[b].stake \in Nat
  <2>1. ASSUME NEW b \in S PROVE bets[b] \in Bet /\ bets[b].status = "ACTIVE"
    BY <1>1, <1>6 DEF TypeOK, Placed, ActiveOn
  <2> QED
    BY <2>1, StakesAreNat DEF Bet
<1>8. \A b \in S : Closes(bets[b], Verdict(e, b))
  BY <1>7, VerdictCloses
<1>9. \/ trx[e].op = "settle" /\ rounds[r].status = "RESOLVED"
      \/ trx[e].op = "void" /\ rounds[r].status = "RUNNING" /\ Overdue(rounds[r])
  BY <1>1, <1>2 DEF MayClose, BreaksCheck, Started
<1>10. bets' = [b \in BetIds |-> IF b \in S THEN Verdict(e, b) ELSE bets[b]]
  BY <1>4, <1>7
<1> DEFINE txs == [b \in S |-> ClosingTx(Verdict(e, b))]
<1>11. /\ DOMAIN txs = S /\ PostAll(txs)
       /\ \A b \in S : txs[b] = ClosingTx(Verdict(e, b))
  BY <1>4
<1> HIDE DEF txs
<1>12. \A b \in DOMAIN txs : /\ StakeOf[b] \in Int /\ txs[b].escrow = -StakeOf[b]
                             /\ txs[b].house \in Int /\ txs[b].wallet \in Nat
  <2>1. \A b \in S : StakeOf[b] = bets[b].stake
    BY <1>6 DEF StakeOf
  <2> QED
    BY <1>7, <1>8, <1>11, <2>1 DEF Closes
<1>13. journal' = [b \in BetIds |-> IF b \in S
                     THEN Append(journal[b], ClosingTx(Verdict(e, b)))
                     ELSE journal[b]]
  BY <1>11 DEF PostAll
<1>14. balance \in [Accounts -> Int] /\ DOMAIN txs \subseteq BetIds /\ IsFiniteSet(DOMAIN txs)
  BY <1>1, <1>6, <1>11 DEF TypeOK
<1>15. /\ balance' \in [Accounts -> Int]
       /\ balance'["ESCROW"] = balance["ESCROW"] - SumFunctionOnSet(StakeOf, DOMAIN txs)
       /\ \A u \in Users : balance'[u] >= balance[u]
  BY <1>11, <1>12, <1>14, PostMany
<1>16. balance'["ESCROW"] = balance["ESCROW"] - SumFunctionOnSet(StakeOf, S)
  BY <1>11, <1>15
<1> QED
  BY <1>2, <1>3, <1>4, <1>5, <1>6, <1>7, <1>8, <1>9, <1>10, <1>13, <1>15, <1>16

LEMMA CommitCloseStep ==
  ASSUME IInv, NEW e \in Workers, CommitClose(e)
  PROVE  IInv'
<1> DEFINE r == trx[e].round
           S == ActiveOn(r)
           to == IF trx[e].op = "void" THEN "VOIDED" ELSE "SETTLED"
<1>0. /\ r = trx[e].round /\ S = ActiveOn(r)
      /\ to = IF trx[e].op = "void" THEN "VOIDED" ELSE "SETTLED"
  OBVIOUS
<1> HIDE DEF r, S, to
<1>1. /\ r \in RoundIds /\ rounds[r] \in Round /\ S \subseteq Placed
      /\ rounds[r].status \in {"RUNNING", "RESOLVED"}
      /\ Exclusive(RoundRow(r)) \in trx[e].held
      /\ \A b \in S : Exclusive(BetRow(b)) \in trx[e].held
      /\ \A b \in S : bets[b] \in Bet /\ Closes(bets[b], Verdict(e, b))
      /\ bets' = [b \in BetIds |-> IF b \in S THEN Verdict(e, b) ELSE bets[b]]
      /\ rounds' = [rounds EXCEPT ![r].status = to]
      /\ journal' = [b \in BetIds |-> journal'[b]]
      /\ balance' \in [Accounts -> Int]
      /\ \A u \in Users : balance'[u] >= balance[u]
  <2>1. bets' = [b \in BetIds |-> IF b \in S THEN Verdict(e, b) ELSE bets[b]]
    BY <1>0, CloseEffect
  <2>2. rounds' = [rounds EXCEPT ![r].status = to]
    BY <1>0, CloseEffect
  <2>3. journal' = [b \in BetIds |-> IF b \in S
                      THEN Append(journal[b], ClosingTx(Verdict(e, b)))
                      ELSE journal[b]]
    BY <1>0, CloseEffect
  <2>4. /\ r \in RoundIds /\ rounds[r] \in Round /\ S \subseteq Placed
        /\ rounds[r].status \in {"RUNNING", "RESOLVED"}
        /\ Exclusive(RoundRow(r)) \in trx[e].held
        /\ \A b \in S : Exclusive(BetRow(b)) \in trx[e].held
        /\ \A b \in S : bets[b] \in Bet /\ Closes(bets[b], Verdict(e, b))
        /\ balance' \in [Accounts -> Int]
        /\ \A u \in Users : balance'[u] >= balance[u]
    BY <1>0, CloseEffect
  <2> QED
    BY <2>1, <2>2, <2>3, <2>4
<1>2. /\ TypeOK /\ RowsOK /\ LocksExclude /\ End(e)
  BY DEF IInv, CommitClose
<1>3. to \in {"SETTLED", "VOIDED"} /\ to \in RoundStatuses
  BY <1>0 DEF RoundStatuses
<1>4. \A b : b \in S <=> /\ b \in BetIds /\ bets[b] # NoBet
                         /\ bets[b].round = r /\ bets[b].status = "ACTIVE"
  BY <1>0 DEF ActiveOn
<1> DEFINE new == [rounds[r] EXCEPT !.status = to]
<1>5. /\ new \in Round /\ new # NoRound /\ new.status = to
      /\ new.game = rounds[r].game /\ new.outcome = rounds[r].outcome
      /\ new.age = rounds[r].age /\ rounds[r] # NoRound
  BY <1>1, <1>3 DEF Round, NoRound
<1>6. rounds' = [rounds EXCEPT ![r] = new]
  BY <1>1
<1> HIDE DEF new
<1>7. /\ rounds' \in [RoundIds -> Round \cup {NoRound}]
      /\ rounds'[r] = new /\ \A q \in RoundIds \ {r} : rounds'[q] = rounds[q]
  BY <1>1, <1>2, <1>5, <1>6 DEF TypeOK
<1>8. ASSUME NEW b \in S
      PROVE  /\ bets'[b] = Verdict(e, b) /\ bets'[b] \in Bet /\ bets'[b] # NoBet
             /\ bets'[b].round = bets[b].round /\ bets'[b].status # "ACTIVE"
             /\ b \in Placed
  <2>1. b \in BetIds /\ b \in Placed
    BY <1>1 DEF Placed
  <2>2. bets'[b] = Verdict(e, b)
    BY <1>1, <2>1
  <2>3. Closes(bets[b], Verdict(e, b))
    BY <1>1
  <2>4. /\ Verdict(e, b) \in Bet /\ Verdict(e, b).round = bets[b].round
        /\ Verdict(e, b).status \in {"WON", "LOST", "VOIDED"}
    BY <2>3 DEF Closes
  <2>5. Verdict(e, b) # NoBet
    BY <2>4 DEF NoBet, Bet
  <2> QED
    BY <2>1, <2>2, <2>4, <2>5
<1>9. \A b \in BetIds \ S : bets'[b] = bets[b]
  BY <1>1
<1>10. bets' \in [BetIds -> Bet \cup {NoBet}]
  <2>1. DOMAIN bets' = BetIds /\ bets' = [b \in BetIds |-> bets'[b]]
    BY <1>1
  <2>2. \A b \in BetIds : bets'[b] \in Bet \cup {NoBet}
    BY <1>2, <1>8, <1>9 DEF TypeOK
  <2> QED
    BY <2>1, <2>2
<1>11. Placed' = Placed
  BY <1>8, <1>9 DEF Placed
<1>12. \A b \in Placed : bets[b].round \in RoundIds /\ bets'[b].round = bets[b].round
  BY <1>2, <1>8, <1>9 DEF TypeOK, Placed, Bet
<1>13. \A q \in RoundIds : rounds'[q] = NoRound <=> rounds[q] = NoRound
  BY <1>5, <1>7
<1>14. RowsOK'
  <2>1. \A b \in Placed' : rounds'[bets'[b].round] # NoRound
    BY <1>2, <1>11, <1>12, <1>13 DEF RowsOK
  <2>2. \A q, p \in RoundIds : rounds'[q] = NoRound /\ p >= q => rounds'[p] = NoRound
    BY <1>2, <1>13 DEF RowsOK
  <2>3. IsFiniteSet(Placed') /\ journal' = [b \in BetIds |-> journal'[b]]
    BY <1>1, <1>2, <1>11 DEF RowsOK
  <2> QED
    BY <2>1, <2>2, <2>3 DEF RowsOK
<1>15. RowsMoveOn
  <2>1. to \in Started
    BY <1>3 DEF Started
  <2>2. \A b \in BetIds : bets[b] # NoBet => bets'[b] # NoBet /\ bets'[b].round = bets[b].round
    BY <1>8, <1>9
  <2> QED
    BY <1>2, <1>5, <1>7, <2>1, <2>2, SameAge DEF RowsMoveOn
<1>16. ASSUME NEW q \in Workers \ {e} PROVE Respects(q)
  <2>1. \A l \in trx[q].held, m \in trx[e].held : ~ Conflict(l, m)
    BY <1>2 DEF LocksExclude
  <2>2. ASSUME NEW s \in RoundIds,
               \/ Shared(RoundRow(s)) \in trx[q].held
               \/ Exclusive(RoundRow(s)) \in trx[q].held
        PROVE  rounds'[s] = rounds[s]
    BY <1>1, <1>7, <2>1, <2>2 DEF Conflict, Shared, Exclusive
  <2>3. ASSUME NEW s \in RoundIds PROVE ActiveOn(s)' \subseteq ActiveOn(s)
    BY <1>8, <1>9 DEF ActiveOn
  <2>4. ASSUME NEW b \in Placed, Exclusive(BetRow(b)) \in trx[q].held
        PROVE  /\ bets'[b] = bets[b]
               /\ bets[b].status = "ACTIVE" /\ Open(bets[b].round) => Open(bets[b].round)'
    <3>1. b \notin S
      BY <1>1, <2>1, <2>4 DEF Conflict, Exclusive
    <3>2. bets'[b] = bets[b] /\ b \in BetIds /\ bets[b] # NoBet
      BY <1>9, <3>1 DEF Placed
    <3>3. ASSUME bets[b].status = "ACTIVE", Open(bets[b].round)
          PROVE  Open(bets[b].round)'
      <4>1. bets[b].round # r
        BY <1>4, <3>1, <3>2, <3>3
      <4>2. rounds'[bets[b].round] = rounds[bets[b].round]
        BY <1>7, <1>12, <4>1
      <4> QED
        BY <3>2, <3>3, <4>2 DEF Open
    <3> QED
      BY <3>2, <3>3
  <2>5. ASSUME NEW b \in BetIds, bets[b] = NoBet PROVE bets'[b] = NoBet
    BY <1>4, <1>9, <2>5
  <2> QED
    BY <1>1, <2>2, <2>3, <2>4, <2>5 DEF Respects
<1> QED
  BY <1>1, <1>2, <1>7, <1>10, <1>14, <1>15, <1>16, CommitStep

\* The clock: a tick of the database's, not of a worker.
LEMMA ElapseStep ==
  ASSUME IInv, NEW r \in RoundIds, Elapse(r)
  PROVE  IInv'
<1>1. /\ TypeOK /\ Shape /\ LocksExclude /\ RowsOK /\ \A q \in Workers : Standing(q)
      /\ UNCHANGED <<bets, journal, balance, trx>>
      /\ rounds[r].status \in {"RUNNING", "RESOLVED"} /\ rounds[r].age < MaxAge
      /\ rounds' = [rounds EXCEPT ![r].age = @ + 1]
  BY DEF IInv, Elapse
<1>2. rounds[r] \in Round /\ rounds[r] # NoRound
  BY <1>1 DEF TypeOK, NoRound
<1> DEFINE new == [rounds[r] EXCEPT !.age = @ + 1]
<1>3. rounds[r].age \in 0..MaxAge /\ MaxAge \in Nat
  BY <1>2, BoundsAssumption DEF Round
<1>4. rounds[r].age + 1 \in 0..MaxAge /\ rounds[r].age + 1 >= rounds[r].age
  BY <1>1, <1>3
<1>5. /\ new \in Round /\ new # NoRound /\ new.status = rounds[r].status
      /\ new.game = rounds[r].game /\ new.outcome = rounds[r].outcome
      /\ new.age >= rounds[r].age
  BY <1>2, <1>4 DEF Round, NoRound
<1>6. rounds' = [rounds EXCEPT ![r] = new]
  BY <1>1
<1> HIDE DEF new
<1>7. /\ rounds' \in [RoundIds -> Round \cup {NoRound}]
      /\ rounds'[r] = new /\ \A q \in RoundIds \ {r} : rounds'[q] = rounds[q]
  BY <1>1, <1>5, <1>6 DEF TypeOK
<1>8. \A q \in RoundIds : /\ rounds'[q] = NoRound <=> rounds[q] = NoRound
                          /\ rounds'[q].status = rounds[q].status
  BY <1>2, <1>5, <1>7
<1>9. Placed' = Placed /\ \A s : ActiveOn(s)' = ActiveOn(s)
  BY <1>1 DEF Placed, ActiveOn
<1>10. \A b \in Placed : bets[b].round \in RoundIds
  BY <1>1 DEF TypeOK, Placed, Bet
<1>11. TypeOK'
  BY <1>1, <1>7 DEF TypeOK
<1>12. RowsOK'
  BY <1>1, <1>8, <1>9, <1>10 DEF RowsOK
<1>13. RowsMoveOn
  BY <1>1, <1>5, <1>7, <1>8, SameAge DEF RowsMoveOn
<1>14. ASSUME NEW q \in Workers PROVE Respects(q)
  <2>1. ASSUME NEW u \in Users PROVE balance'[u] >= balance[u]
    <3>1. balance[u] \in Int
      BY <1>1 DEF TypeOK, Accounts
    <3> QED
      BY <1>1, <3>1
  <2>2. \A b \in Placed : Open(bets[b].round) => Open(bets[b].round)'
    BY <1>1, <1>8, <1>10 DEF Open
  <2> QED
    BY <1>1, <1>8, <1>9, <2>1, <2>2 DEF Respects
<1>15. balance \in [Accounts -> Int] /\ balance' \in [Accounts -> Int]
  BY <1>1 DEF TypeOK
<1>16. ASSUME NEW q \in Workers PROVE Standing(q)'
  BY <1>1, <1>7, <1>13, <1>14, <1>15, StandingKept
<1> QED
  BY <1>1, <1>11, <1>12, <1>16 DEF IInv, Shape, LocksExclude

-----------------------------------------------------------------------------
(* the invariant *)

LEMMA InitIInv == Init => IInv
<1> SUFFICES ASSUME Init PROVE IInv
  OBVIOUS
<1>1. /\ \A r \in RoundIds : rounds[r] = NoRound
      /\ \A b \in BetIds : bets[b] = NoBet
      /\ journal = [b \in BetIds |-> <<>>]
      /\ balance = [a \in Accounts |-> IF a \in Users THEN Grant ELSE 0]
      /\ DOMAIN trx = Workers /\ \A p \in Workers : trx[p] = Idle
  BY DEF Init
<1>2. TypeOK
  <2>1. /\ rounds \in [RoundIds -> Round \cup {NoRound}]
        /\ bets \in [BetIds -> Bet \cup {NoBet}]
    BY DEF Init
  <2>2. balance \in [Accounts -> Int]
    BY <1>1, WorkersAssumption
  <2>3. Idle.pc \in PCs /\ Idle.bet = <<>> /\ Idle.round = 0
    BY DEF Idle, PCs
  <2> QED
    BY <1>1, <2>1, <2>2, <2>3 DEF TypeOK
<1>3. Shape
  BY <1>1 DEF Shape, Idle, Fields
<1>4. LocksExclude
  BY <1>1 DEF LocksExclude, Idle
<1>5. RowsOK
  <2>1. Placed = {}
    BY <1>1 DEF Placed
  <2> QED
    BY <1>1, <2>1, FS_EmptySet DEF RowsOK
<1>6. ASSUME NEW p \in Workers PROVE Standing(p)
  <2>1. trx[p].pc = "idle"
    BY <1>1 DEF Idle
  <2> QED
    BY <2>1 DEF Standing, Placing, CashingOut, Opening, Advancing, Closing
<1> QED
  BY <1>2, <1>3, <1>4, <1>5, <1>6 DEF IInv

\* The steps that write bets and balances.
Posts(p) == CommitPlaceBet(p) \/ CommitCashOut(p) \/ CommitClose(p)

\* Only these steps write the tables: of every other operation one conjunct is
\* UNCHANGED tables.
LEMMA WritesOnly ==
  ASSUME [Next]_vars
  PROVE  \/ UNCHANGED vars \/ UNCHANGED tables
         \/ \E p \in Workers : Posts(p)
         \/ \E e \in Engines : InsertRound(e) \/ UpdateRound(e)
         \/ \E r \in RoundIds : Elapse(r)
<1>1. ASSUME NEW c \in Clients, BeginRequest(c) \/ ServePlaceBet(c) \/ ServeCashOut(c)
      PROVE  UNCHANGED tables \/ Posts(c)
  BY <1>1
     DEF BeginRequest, BeginPlaceBet, BeginCashOut, ServePlaceBet, RefuseRoundNotOpen,
         AcceptRound, RefuseInsufficientFunds, AcceptFunds, ReplayWinner, InsertBet,
         ServeCashOut, RefuseCashOut, AcceptCashOut, RefuseTooLate, PriceCashOut, Posts
<1>2. ASSUME NEW e \in Engines, RunTick(e), ~ InsertRound(e), ~ UpdateRound(e)
      PROVE  UNCHANGED tables \/ Posts(e)
  BY <1>2 DEF RunTick, CompareElapsed, LeaveRound, LockBets, PostBets, AbortClose, Posts
<1>3. ASSUME NEW e \in Engines, NEW game \in Games, Tick(e, game)
      PROVE  UNCHANGED tables
  BY <1>3 DEF Tick, TickOpens, TickAdvances
<1>4. ASSUME NEW p \in Workers, AcquireLock(p) \/ AbortDeadlock(p) \/ Lose(p)
      PROVE  UNCHANGED tables
  BY <1>4 DEF AcquireLock, AbortDeadlock, Lose
<1> QED
  BY <1>1, <1>2, <1>3, <1>4 DEF Next, Workers

LEMMA NextIInv ==
  ASSUME IInv, Next
  PROVE  IInv'
<1>1. Clients \subseteq Workers /\ Engines \subseteq Workers
  BY DEF Workers
<1>2. ASSUME NEW c \in Clients, BeginRequest(c) PROVE IInv'
  <2>1. CASE \E b \in BetIds, r \in RoundIds, stake \in Stakes,
                selection \in Selections \cup {NoSelection} :
               BeginPlaceBet(c, b, r, stake, selection)
    BY <1>1, <2>1, BeginPlaceBetStep
  <2>2. CASE \E b \in BetIds : BeginCashOut(c, b)
    BY <1>1, <2>2, BeginCashOutStep
  <2> QED
    BY <1>2, <2>1, <2>2 DEF BeginRequest
<1>3. ASSUME NEW c \in Clients, ServePlaceBet(c)
      PROVE  IInv'
  <2>1. CASE RefuseRoundNotOpen(c) \/ RefuseInsufficientFunds(c) \/ ReplayWinner(c)
    BY <1>1, <2>1, RefusalStep
  <2>2. CASE AcceptRound(c)
    BY <1>1, <2>2, AcceptRoundStep
  <2>3. CASE AcceptFunds(c)
    BY <1>1, <2>3, AcceptFundsStep
  <2>4. CASE InsertBet(c)
    BY <1>1, <2>4, InsertBetStep
  <2>5. CASE CommitPlaceBet(c)
    BY <1>1, <2>5, CommitPlaceBetStep
  <2> QED
    BY <1>3, <2>1, <2>2, <2>3, <2>4, <2>5 DEF ServePlaceBet
<1>4. ASSUME NEW c \in Clients, ServeCashOut(c)
      PROVE  IInv'
  <2>1. CASE RefuseCashOut(c) \/ RefuseTooLate(c)
    BY <1>1, <2>1, RefusalStep
  <2>2. CASE AcceptCashOut(c)
    BY <1>1, <2>2, AcceptCashOutStep
  <2>3. CASE PriceCashOut(c)
    BY <1>1, <2>3, PriceCashOutStep
  <2>4. CASE CommitCashOut(c)
    BY <1>1, <2>4, CommitCashOutStep
  <2> QED
    BY <1>4, <2>1, <2>2, <2>3, <2>4 DEF ServeCashOut
<1>5. ASSUME NEW e \in Engines, NEW game \in Games, Tick(e, game)
      PROVE  IInv'
  <2>1. CASE TickOpens(e, game)
    BY <1>1, <2>1, TickOpensStep
  <2>2. CASE TickAdvances(e, game)
    BY <1>1, <2>2, TickAdvancesStep
  <2> QED
    BY <1>5, <2>1, <2>2 DEF Tick
<1>6. ASSUME NEW e \in Engines, RunTick(e)
      PROVE  IInv'
  <2>1. CASE LeaveRound(e) \/ AbortClose(e)
    BY <1>1, <2>1, RefusalStep
  <2>2. CASE InsertRound(e)
    BY <1>1, <2>2, InsertRoundStep
  <2>3. CASE CompareElapsed(e)
    BY <1>1, <2>3, CompareElapsedStep
  <2>4. CASE UpdateRound(e)
    BY <1>1, <2>4, UpdateRoundStep
  <2>5. CASE LockBets(e)
    BY <1>1, <2>5, LockBetsStep
  <2>6. CASE PostBets(e)
    BY <1>1, <2>6, PostBetsStep
  <2>7. CASE CommitClose(e)
    BY <1>1, <2>7, CommitCloseStep
  <2> QED
    BY <1>6, <2>1, <2>2, <2>3, <2>4, <2>5, <2>6, <2>7 DEF RunTick
<1>7. ASSUME NEW p \in Workers, AcquireLock(p) \/ AbortDeadlock(p) \/ Lose(p)
      PROVE  IInv'
  <2>1. CASE AcquireLock(p)
    BY <2>1, AcquireLockStep
  <2>2. CASE AbortDeadlock(p) \/ Lose(p)
    BY <2>2, RefusalStep
  <2> QED
    BY <1>7, <2>1, <2>2
<1>8. ASSUME NEW r \in RoundIds, Elapse(r)
      PROVE  IInv'
  BY <1>8, ElapseStep
<1> QED
  BY <1>1, <1>2, <1>3, <1>4, <1>5, <1>6, <1>7, <1>8 DEF Next

LEMMA StutterIInv == IInv /\ UNCHANGED vars => IInv'
<1> SUFFICES ASSUME IInv, UNCHANGED vars PROVE IInv'
  OBVIOUS
<1>1. /\ trx' = trx /\ UNCHANGED tables
  BY DEF vars, tables
<1>2. ASSUME NEW p \in Workers PROVE Standing(p)'
  BY <1>1, OthersStand DEF IInv
<1>3. TypeOK' /\ Shape' /\ LocksExclude'
  BY <1>1 DEF IInv, TypeOK, Shape, LocksExclude, tables
<1>4. RowsOK'
  BY <1>1 DEF IInv, RowsOK, Placed, tables
<1> QED
  BY <1>2, <1>3, <1>4 DEF IInv

\* What a transaction found out under its locks holds until it commits, whoever
\* else reads, writes, waits, fails or is aborted in the meantime.
LEMMA Invariance == Spec => []IInv
<1>1. IInv /\ [Next]_vars => IInv'
  BY NextIInv, StutterIInv
<1> QED
  BY InitIInv, <1>1, PTL DEF Spec

\* Type correctness of the tables and of the transactions.
THEOREM TypeCorrect == Spec => []TypeOK
<1>1. IInv => TypeOK
  BY DEF IInv
<1> QED
  BY Invariance, <1>1, PTL

-----------------------------------------------------------------------------
(* money *)

ActiveBets == {b \in BetIds : bets[b].status = "ACTIVE"}
EscrowOK == balance["ESCROW"] = SumFunctionOnSet(StakeOf, ActiveBets)
Inv == IInv /\ NoOverdraft /\ EscrowOK

\* Finitely many whole stakes are in escrow.
LEMMA ActiveStakes ==
  ASSUME IInv
  PROVE  /\ ActiveBets \subseteq Placed /\ IsFiniteSet(ActiveBets)
         /\ \A b \in ActiveBets : StakeOf[b] \in Int /\ StakeOf[b] = bets[b].stake
         /\ SumFunctionOnSet(StakeOf, ActiveBets) \in Int
<1>1. TypeOK /\ RowsOK
  BY DEF IInv
<1>2. ActiveBets \in SUBSET Placed
  BY DEF ActiveBets, Placed, NoBet
<1>3. IsFiniteSet(ActiveBets)
  BY <1>1, <1>2, FS_Subset DEF RowsOK
<1>4. ASSUME NEW b \in ActiveBets PROVE StakeOf[b] \in Int /\ StakeOf[b] = bets[b].stake
  <2>1. b \in BetIds /\ bets[b] \in Bet
    BY <1>1, <1>2 DEF TypeOK, Placed
  <2>2. bets[b].stake \in Nat
    BY <2>1, StakesAreNat DEF Bet
  <2> QED
    BY <2>1, <2>2 DEF StakeOf
<1>5. SumFunctionOnSet(StakeOf, ActiveBets) \in Int
  BY <1>3, <1>4, SumType
<1> QED
  BY <1>2, <1>3, <1>4, <1>5

\* The bets of S are closed, the others keep their stakes: their sum is what is
\* left in escrow.
LEMMA StakesLeave ==
  ASSUME IInv, NEW S, S \subseteq ActiveBets, ActiveBets' = ActiveBets \ S,
         \A b \in ActiveBets \ S : StakeOf'[b] = StakeOf[b]
  PROVE  /\ SumFunctionOnSet(StakeOf, S) \in Int
         /\ SumFunctionOnSet(StakeOf', ActiveBets') =
              SumFunctionOnSet(StakeOf, ActiveBets) - SumFunctionOnSet(StakeOf, S)
<1> DEFINE A == ActiveBets
           rest == A \ S
<1>1. /\ IsFiniteSet(A) /\ \A b \in A : StakeOf[b] \in Int
  BY ActiveStakes
<1>2. S \in SUBSET A /\ rest \in SUBSET A
  OBVIOUS
<1> HIDE DEF A
<1>3. IsFiniteSet(S) /\ IsFiniteSet(rest)
  BY <1>1, <1>2, FS_Subset
<1>4. SumFunctionOnSet(StakeOf, A) =
        SumFunctionOnSet(StakeOf, S) + SumFunctionOnSet(StakeOf, rest)
  BY <1>1, <1>2, SumSplit
<1>5. SumFunctionOnSet(StakeOf, S) \in Int /\ SumFunctionOnSet(StakeOf, rest) \in Int
  <2>1. \A b \in S : StakeOf[b] \in Int
    BY <1>1, <1>2
  <2>2. \A b \in rest : StakeOf[b] \in Int
    BY <1>1, <1>2
  <2> QED
    BY <1>3, <2>1, <2>2, SumType
<1>6. SumFunctionOnSet(StakeOf', rest) = SumFunctionOnSet(StakeOf, rest)
  <2>1. \A b \in rest : StakeOf'[b] = StakeOf[b]
    BY DEF A
  <2> HIDE DEF rest
  <2> QED
    BY <1>3, <2>1, SumOfEquals
<1>7. ActiveBets' = rest
  BY DEF A
<1> HIDE DEF rest
<1>8. SumFunctionOnSet(StakeOf', ActiveBets') = SumFunctionOnSet(StakeOf, rest)
  BY <1>6, <1>7
<1>9. \A k, m, n \in Int : k = m + n => n = k - m
  OBVIOUS
<1>10. SumFunctionOnSet(StakeOf, A) \in Int
  BY ActiveStakes DEF A
<1>11. SumFunctionOnSet(StakeOf, rest) =
         SumFunctionOnSet(StakeOf, A) - SumFunctionOnSet(StakeOf, S)
  BY <1>4, <1>5, <1>9, <1>10
<1> QED
  BY <1>5, <1>8, <1>11 DEF A

LEMMA PlaceBetMoney ==
  ASSUME Inv, NEW c \in Workers, CommitPlaceBet(c)
  PROVE  NoOverdraft' /\ EscrowOK'
<1> DEFINE b == trx[c].bet
           stake == trx[c].stake
           new == NewBet(trx[c].round, stake, trx[c].selection)
<1>1. /\ b \in BetIds /\ stake \in Nat /\ bets[b] = NoBet /\ balance[Owner(b)] >= stake
      /\ bets' = [bets EXCEPT ![b] = new]
      /\ balance'["ESCROW"] = balance["ESCROW"] + stake
      /\ balance'[Owner(b)] = balance[Owner(b)] - stake
      /\ \A u \in Users \ {Owner(b)} : balance'[u] = balance[u]
  BY PlaceBetEffect DEF Inv
<1>2. new.status = "ACTIVE" /\ new.stake = stake
  BY DEF NewBet
<1> HIDE DEF b, stake, new
<1>3. /\ IInv /\ TypeOK /\ DOMAIN bets = BetIds /\ balance \in [Accounts -> Int]
  BY DEF Inv, IInv, TypeOK
<1>4. NoOverdraft'
  <2>1. ASSUME NEW u \in Users PROVE balance'[u] >= 0
    <3>1. balance[Owner(b)] \in Int
      BY <1>1, <1>3, OwnerHasAccount
    <3>2. CASE u = Owner(b)
      BY <1>1, <3>1, <3>2
    <3>3. CASE u # Owner(b)
      BY <1>1, <3>3 DEF Inv, NoOverdraft
    <3> QED
      BY <3>2, <3>3
  <2> QED
    BY <2>1 DEF NoOverdraft
<1>5. bets'[b] = new /\ \A x \in BetIds \ {b} : bets'[x] = bets[x]
  BY <1>1, <1>3
<1>6. ActiveBets' = ActiveBets \cup {b} /\ b \notin ActiveBets
  BY <1>1, <1>2, <1>5 DEF ActiveBets, NoBet
<1>7. StakeOf'[b] = stake /\ \A x \in ActiveBets : StakeOf'[x] = StakeOf[x]
  BY <1>1, <1>2, <1>5, <1>6 DEF StakeOf, ActiveBets
<1>8. /\ IsFiniteSet(ActiveBets) /\ \A x \in ActiveBets : StakeOf[x] \in Int
      /\ SumFunctionOnSet(StakeOf, ActiveBets) \in Int
  BY <1>3, ActiveStakes
<1>9. \A x \in ActiveBets \cup {b} : StakeOf'[x] \in Int
  BY <1>1, <1>7, <1>8
<1>10. SumFunctionOnSet(StakeOf', ActiveBets \cup {b}) =
         StakeOf'[b] + SumFunctionOnSet(StakeOf', ActiveBets)
  BY <1>6, <1>8, <1>9, SumAdd
<1>11. SumFunctionOnSet(StakeOf', ActiveBets) = SumFunctionOnSet(StakeOf, ActiveBets)
  BY <1>7, <1>8, SumOfEquals
<1>12. SumFunctionOnSet(StakeOf', ActiveBets') =
         stake + SumFunctionOnSet(StakeOf, ActiveBets)
  BY <1>6, <1>7, <1>10, <1>11
<1>13. \A m \in Int : m + stake = stake + m
  BY <1>1
<1>14. balance'["ESCROW"] = SumFunctionOnSet(StakeOf', ActiveBets')
  BY <1>1, <1>8, <1>12, <1>13 DEF Inv, EscrowOK
<1> QED
  BY <1>4, <1>14 DEF EscrowOK

LEMMA CashOutMoney ==
  ASSUME Inv, NEW c \in Workers, CommitCashOut(c)
  PROVE  NoOverdraft' /\ EscrowOK'
<1> DEFINE b == trx[c].bet
           row == Won(bets[b], Curve[trx[c].tick])
<1>1. /\ b \in BetIds /\ bets[b].status = "ACTIVE"
      /\ bets' = [bets EXCEPT ![b] = row] /\ Closes(bets[b], row)
      /\ balance'["ESCROW"] = balance["ESCROW"] - bets[b].stake
      /\ \A u \in Users : balance'[u] >= balance[u]
      /\ balance' \in [Accounts -> Int]
  BY CashOutEffect DEF Inv
<1> HIDE DEF b, row
<1>2. row.status # "ACTIVE"
  BY <1>1 DEF Closes
<1>3. /\ IInv /\ TypeOK /\ DOMAIN bets = BetIds /\ balance \in [Accounts -> Int]
  BY DEF Inv, IInv, TypeOK
<1>4. NoOverdraft'
  <2>1. ASSUME NEW u \in Users PROVE balance'[u] >= 0
    <3>1. /\ balance[u] \in Int /\ balance'[u] \in Int
          /\ balance[u] >= 0 /\ balance'[u] >= balance[u]
      BY <1>1, <1>3 DEF Inv, NoOverdraft, Accounts
    <3> QED
      BY <3>1
  <2> QED
    BY <2>1 DEF NoOverdraft
<1>5. bets'[b] = row /\ \A x \in BetIds \ {b} : bets'[x] = bets[x]
  BY <1>1, <1>3
<1>6. ActiveBets' = ActiveBets \ {b} /\ {b} \subseteq ActiveBets
  BY <1>1, <1>2, <1>5 DEF ActiveBets
<1>7. \A x \in ActiveBets \ {b} : StakeOf'[x] = StakeOf[x]
  BY <1>5 DEF StakeOf, ActiveBets
<1>8. SumFunctionOnSet(StakeOf', ActiveBets') =
        SumFunctionOnSet(StakeOf, ActiveBets) - SumFunctionOnSet(StakeOf, {b})
  BY <1>3, <1>6, <1>7, StakesLeave
<1>9. StakeOf[b] \in Int /\ StakeOf[b] = bets[b].stake
  BY <1>3, <1>6, ActiveStakes
<1>10. SumFunctionOnSet(StakeOf, {b}) = bets[b].stake
  BY <1>9, SumOfOne
<1>11. balance'["ESCROW"] = SumFunctionOnSet(StakeOf', ActiveBets')
  BY <1>1, <1>8, <1>10 DEF Inv, EscrowOK
<1> QED
  BY <1>4, <1>11 DEF EscrowOK

LEMMA CloseMoney ==
  ASSUME Inv, NEW e \in Workers, CommitClose(e)
  PROVE  NoOverdraft' /\ EscrowOK'
<1> DEFINE r == trx[e].round
           S == ActiveOn(r)
<1>0. r = trx[e].round /\ S = ActiveOn(r)
  OBVIOUS
<1> HIDE DEF r, S
<1>1. bets' = [b \in BetIds |-> IF b \in S THEN Verdict(e, b) ELSE bets[b]]
  BY <1>0, CloseEffect DEF Inv
<1>2. /\ \A b \in S : Closes(bets[b], Verdict(e, b))
      /\ balance'["ESCROW"] = balance["ESCROW"] - SumFunctionOnSet(StakeOf, S)
      /\ \A u \in Users : balance'[u] >= balance[u]
      /\ balance' \in [Accounts -> Int]
  BY <1>0, CloseEffect DEF Inv
<1>3. /\ IInv /\ TypeOK /\ balance \in [Accounts -> Int]
  BY DEF Inv, IInv, TypeOK
<1>4. NoOverdraft'
  <2>1. ASSUME NEW u \in Users PROVE balance'[u] >= 0
    <3>1. /\ balance[u] \in Int /\ balance'[u] \in Int
          /\ balance[u] >= 0 /\ balance'[u] >= balance[u]
      BY <1>2, <1>3 DEF Inv, NoOverdraft, Accounts
    <3> QED
      BY <3>1
  <2> QED
    BY <2>1 DEF NoOverdraft
<1>5. S \subseteq ActiveBets
  BY <1>0 DEF ActiveOn, ActiveBets
<1>6. ActiveBets' = ActiveBets \ S
  <2>1. \A b \in S : b \in BetIds /\ bets'[b].status # "ACTIVE"
    BY <1>1, <1>2, <1>5 DEF Closes, ActiveBets
  <2>2. \A b \in BetIds \ S : bets'[b] = bets[b]
    BY <1>1
  <2> QED
    BY <2>1, <2>2 DEF ActiveBets
<1>7. \A b \in ActiveBets \ S : StakeOf'[b] = StakeOf[b]
  BY <1>1 DEF StakeOf, ActiveBets
<1>8. SumFunctionOnSet(StakeOf', ActiveBets') =
        SumFunctionOnSet(StakeOf, ActiveBets) - SumFunctionOnSet(StakeOf, S)
  BY <1>3, <1>5, <1>6, <1>7, StakesLeave
<1>9. balance'["ESCROW"] = SumFunctionOnSet(StakeOf', ActiveBets')
  BY <1>2, <1>8 DEF Inv, EscrowOK
<1> QED
  BY <1>4, <1>9 DEF EscrowOK

LEMMA InitInv == Init => Inv
<1> SUFFICES ASSUME Init PROVE NoOverdraft /\ EscrowOK
  BY InitIInv DEF Inv
<1>1. NoOverdraft
  BY WorkersAssumption DEF Init, NoOverdraft, Accounts
<1>2. ActiveBets = {}
  BY DEF Init, ActiveBets, NoBet
<1>3. balance["ESCROW"] = 0
  BY AccountsAssumption DEF Init, Accounts
<1> QED
  BY <1>1, <1>2, <1>3, SumOfNone DEF EscrowOK

LEMMA InvStep == Inv /\ [Next]_vars => Inv'
<1> SUFFICES ASSUME Inv, [Next]_vars PROVE Inv'
  OBVIOUS
<1>1. IInv'
  BY NextIInv, StutterIInv DEF Inv
<1>2. CASE UNCHANGED <<bets, balance>>
  <2>1. ActiveBets' = ActiveBets /\ StakeOf' = StakeOf /\ balance' = balance
    BY <1>2 DEF ActiveBets, StakeOf
  <2> QED
    BY <1>1, <2>1 DEF Inv, NoOverdraft, EscrowOK
<1>3. CASE \E p \in Workers : Posts(p)
  BY <1>1, <1>3, PlaceBetMoney, CashOutMoney, CloseMoney DEF Inv, Posts
<1>4. UNCHANGED <<bets, balance>> \/ \E p \in Workers : Posts(p)
  BY WritesOnly DEF vars, tables, InsertRound, UpdateRound, Elapse
<1> QED
  BY <1>2, <1>3, <1>4

LEMMA InvInvariant == Spec => []Inv
BY InitInv, InvStep, PTL DEF Spec

\* No wallet is overdrawn, by any number of requests at once: the lock on the
\* wallet is held from the check of the balance to the commit.
THEOREM NobodyOverdraws == Spec => []NoOverdraft
<1>1. Inv => NoOverdraft
  BY DEF Inv
<1> QED
  BY InvInvariant, <1>1, PTL

\* Escrow is never out by a single unit: a bet's stake enters it with the bet's
\* row and leaves it with the bet's one verdict.
THEOREM EscrowIsExact == Spec => []EscrowHoldsActiveStakes
<1>1. ASSUME Inv PROVE EscrowHoldsActiveStakes
  <2> DEFINE f == [b \in {c \in BetIds : bets[c].status = "ACTIVE"} |-> bets[b].stake]
  <2>1. DOMAIN f = ActiveBets /\ \A b \in ActiveBets : f[b] = StakeOf[b]
    BY DEF ActiveBets, StakeOf
  <2> HIDE DEF f
  <2>2. SumFunction(f) = SumFunctionOnSet(f, ActiveBets)
    BY <2>1 DEF SumFunction
  <2>3. IsFiniteSet(ActiveBets)
    BY <1>1, ActiveStakes DEF Inv
  <2>4. SumFunctionOnSet(f, ActiveBets) = SumFunctionOnSet(StakeOf, ActiveBets)
    BY <2>1, <2>3, SumOfEquals
  <2>5. balance["ESCROW"] = SumFunction(f)
    BY <1>1, <2>2, <2>4 DEF Inv, EscrowOK
  <2> QED
    BY <2>5 DEF f, EscrowHoldsActiveStakes
<1> QED
  BY InvInvariant, <1>1, PTL

-----------------------------------------------------------------------------
(* rounds that nobody ended in time *)

\* No other step than CompareElapsed makes a tick resolve a round, and that
\* only while the round is not overdue.
LEMMA Turning ==
  ASSUME IInv, [Next]_vars, NEW e \in Engines, trx'[e].op = "resolve"
  PROVE  /\ trx'[e].round = trx[e].round
         /\ trx[e].op = "resolve" \/ ~ Overdue(rounds[trx[e].round])
<1> DEFINE Kept == trx'[e].round = trx[e].round /\ trx[e].op = "resolve"
<1>1. Shape /\ TypeOK /\ e \in Workers
  BY DEF IInv, Workers
<1>2. ASSUME NEW p \in Workers, NEW t, t.op # "resolve", trx' = [trx EXCEPT ![p] = t]
      PROVE  Kept
  BY <1>1, <1>2 DEF Shape
<1>3. ASSUME NEW p \in Workers, End(p) PROVE Kept
  <2>1. Idle.op # "resolve"
    BY DEF Idle
  <2> QED
    BY <1>2, <1>3, <2>1 DEF End
<1>4. ASSUME NEW p \in Workers, NEW a, NEW s, GoOn(p, a, s) PROVE Kept
  BY <1>1, <1>4, GoOnEffect
<1>5. ASSUME NEW c \in Workers, BeginRequest(c) PROVE Kept
  <2>1. CASE \E b \in BetIds, r \in RoundIds, stake \in Stakes,
                selection \in Selections \cup {NoSelection} :
               BeginPlaceBet(c, b, r, stake, selection)
    BY <1>2, <2>1 DEF BeginPlaceBet, Idle
  <2>2. CASE \E b \in BetIds : BeginCashOut(c, b)
    BY <1>2, <2>2 DEF BeginCashOut, Idle
  <2> QED
    BY <1>5, <2>1, <2>2 DEF BeginRequest
<1>6. ASSUME NEW c \in Workers, ServePlaceBet(c) PROVE Kept
  BY <1>3, <1>4, <1>6
     DEF ServePlaceBet, RefuseRoundNotOpen, AcceptRound, RefuseInsufficientFunds,
         AcceptFunds, ReplayWinner, InsertBet, CommitPlaceBet
<1>7. ASSUME NEW c \in Workers, ServeCashOut(c) PROVE Kept
  <2>1. CASE PriceCashOut(c)
    BY <1>1, <2>1 DEF PriceCashOut, Shape, Fields
  <2> QED
    BY <1>3, <1>4, <1>7, <2>1
       DEF ServeCashOut, RefuseCashOut, AcceptCashOut, RefuseTooLate, CommitCashOut
<1>8. ASSUME NEW p \in Workers, NEW game \in Games, Tick(p, game) PROVE Kept
  <2>1. CASE TickOpens(p, game)
    BY <1>2, <2>1 DEF TickOpens, Idle
  <2>2. CASE TickAdvances(p, game)
    <3> DEFINE r == Max(Pending(game))
               next == NextOp(rounds[r].status)
               t == [Idle EXCEPT !.pc = next.pc, !.op = next.op, !.round = r,
                                 !.need = IF next.pc = "elapsed" THEN <<>>
                                          ELSE <<Exclusive(RoundRow(r))>>]
    <3>1. rounds[r].status \in {"OPEN", "LOCKED", "RUNNING", "RESOLVED"}
      BY <1>1, <2>2, PendingRound DEF TickAdvances
    <3>2. next.op # "resolve"
      BY <3>1 DEF NextOp
    <3>3. t.op = next.op /\ trx' = [trx EXCEPT ![p] = t]
      BY <2>2 DEF TickAdvances, Idle
    <3> QED
      BY <1>2, <3>2, <3>3
  <2> QED
    BY <1>8, <2>1, <2>2 DEF Tick
<1>9. ASSUME NEW p \in Workers, CompareElapsed(p)
      PROVE  /\ trx'[e].round = trx[e].round
             /\ trx[e].op = "resolve" \/ ~ Overdue(rounds[trx[e].round])
  <2>0. ASSUME NEW a, NEW o, NEW n,
               trx' = [trx EXCEPT ![p].pc = a, ![p].op = o, ![p].need = n]
        PROVE  /\ trx'[e].round = trx[e].round
               /\ trx'[e].op = IF e = p THEN o ELSE trx[e].op
    BY <1>1, <2>0 DEF Shape, Fields
  <2> DEFINE need == <<Exclusive(RoundRow(trx[p].round))>>
  <2>1. \/ /\ Overdue(rounds[trx[p].round])
           /\ trx' = [trx EXCEPT ![p].pc = "round lock", ![p].op = "void", ![p].need = need]
        \/ /\ ~ Overdue(rounds[trx[p].round])
           /\ trx' = [trx EXCEPT ![p].pc = "update", ![p].op = "resolve", ![p].need = need]
        \/ End(p)
    <3>1. CASE Overdue(rounds[trx[p].round])
      BY <1>9, <3>1 DEF CompareElapsed
    <3>2. CASE ~ Overdue(rounds[trx[p].round]) /\ Due(rounds[trx[p].round])
      BY <1>9, <3>2 DEF CompareElapsed
    <3>3. CASE ~ Overdue(rounds[trx[p].round]) /\ ~ Due(rounds[trx[p].round])
      BY <1>9, <3>3 DEF CompareElapsed
    <3> QED
      BY <3>1, <3>2, <3>3
  <2> HIDE DEF need
  <2>2. CASE trx' = [trx EXCEPT ![p].pc = "round lock", ![p].op = "void", ![p].need = need]
    <3>1. /\ trx'[e].round = trx[e].round
          /\ trx'[e].op = IF e = p THEN "void" ELSE trx[e].op
      BY <1>1, <2>2 DEF Shape, Fields
    <3>2. e # p
      BY <3>1
    <3>3. trx[e].op = "resolve"
      BY <3>1, <3>2
    <3> QED
      BY <3>1, <3>3
  <2>3. CASE /\ ~ Overdue(rounds[trx[p].round])
             /\ trx' = [trx EXCEPT ![p].pc = "update", ![p].op = "resolve", ![p].need = need]
    BY <2>0, <2>3
  <2>4. CASE End(p)
    BY <1>3, <2>4
  <2> QED
    BY <2>1, <2>2, <2>3, <2>4
<1>10. ASSUME NEW p \in Workers, RunTick(p), ~ CompareElapsed(p) PROVE Kept
  <2>0. ASSUME NEW a, NEW o, NEW n,
               trx' = [trx EXCEPT ![p].pc = a, ![p].order = o, ![p].need = n]
        PROVE  Kept
    BY <1>1, <2>0 DEF Shape, Fields
  <2> HIDE DEF Kept
  <2>1. CASE LockBets(p)
    BY <2>0, <2>1 DEF LockBets
  <2>2. CASE PostBets(p)
    BY <2>0, <2>2 DEF PostBets
  <2> QED
    BY <1>3, <1>10, <2>1, <2>2
       DEF RunTick, InsertRound, UpdateRound, LeaveRound, AbortClose, CommitClose
<1>11. ASSUME NEW p \in Workers, AcquireLock(p) \/ AbortDeadlock(p) \/ Lose(p) PROVE Kept
  <2>1. CASE AcquireLock(p)
    BY <1>1, <2>1 DEF AcquireLock, Granted, Shape, Fields
  <2> QED
    BY <1>3, <1>11, <2>1 DEF AbortDeadlock, Lose
<1>12. ASSUME trx' = trx PROVE Kept
  BY <1>12
<1>13. UNCHANGED vars \/ (\E r \in RoundIds : Elapse(r)) => trx' = trx
  BY DEF vars, Elapse
<1>14. Clients \subseteq Workers /\ Engines \subseteq Workers
  BY DEF Workers
<1> HIDE DEF Kept
<1>15. Kept \/ \E p \in Workers : CompareElapsed(p)
  BY <1>5, <1>6, <1>7, <1>8, <1>10, <1>11, <1>12, <1>13, <1>14 DEF Next
<1> QED
  BY <1>9, <1>15 DEF Kept

\* A row that is RUNNING and overdue stays so or is VOIDED, if no engine is about
\* to resolve it: only CommitClose can write it, for an operation that may close
\* a RUNNING round.
LEMMA LateRow ==
  ASSUME IInv, [Next]_vars, NEW r \in Late
  PROVE  \/ rounds'[r].status = "VOIDED"
         \/ rounds'[r].status = "RUNNING" /\ Overdue(rounds'[r])
<1>1. /\ TypeOK /\ r \in RoundIds /\ rounds[r].status = "RUNNING" /\ Overdue(rounds[r])
      /\ \A e \in Engines : ~ (trx[e].op = "resolve" /\ trx[e].round = r)
  BY DEF IInv, Late
<1>2. rounds[r] # NoRound /\ rounds[r] \in Round
  BY <1>1, RoundPresent
<1>3. CASE rounds' = rounds
  BY <1>1, <1>3
<1>4. ASSUME NEW q \in RoundIds, q # r, NEW new, rounds' = [rounds EXCEPT ![q] = new]
      PROVE  rounds'[r] = rounds[r]
  BY <1>1, <1>4
<1>5. ASSUME NEW p \in Workers, CommitClose(p)
      PROVE  rounds'[r].status = "VOIDED" \/ rounds'[r] = rounds[r]
  <2> DEFINE q == trx[p].round
  <2>1. /\ q \in RoundIds
        /\ \/ trx[p].op = "settle" /\ rounds[q].status = "RESOLVED"
           \/ trx[p].op = "void"
        /\ rounds' = [rounds EXCEPT ![q].status =
                        IF trx[p].op = "void" THEN "VOIDED" ELSE "SETTLED"]
    BY <1>5, CloseEffect
  <2> HIDE DEF q
  <2>2. rounds \in [RoundIds -> Round \cup {NoRound}] /\ "status" \in DOMAIN rounds[r]
    BY <1>1, <1>2 DEF TypeOK, Round
  <2>3. CASE q = r
    <3>1. trx[p].op = "void"
      BY <1>1, <2>1, <2>3
    <3> QED
      BY <1>1, <2>1, <2>2, <2>3, <3>1
  <2>4. CASE q # r
    BY <1>1, <2>1, <2>4
  <2> QED
    BY <2>3, <2>4
<1>6. ASSUME NEW e \in Engines, InsertRound(e)
      PROVE  rounds'[r] = rounds[r]
  <2>1. CASE rounds' # rounds
    <3>1. PICK game \in Games : \E outcome \in OutcomesOf(game), q \in RoundIds :
            /\ \A s \in RoundIds : rounds[s] = NoRound <=> s >= q
            /\ \A s \in RoundIds :
                 ~ (rounds[s].status \in LiveStatuses /\ rounds[s].game = game)
            /\ rounds' = [rounds EXCEPT ![q] = NewRound(game, outcome)]
      BY <1>6, <2>1, InsertRoundEffect DEF Workers
    <3>2. PICK outcome \in OutcomesOf(game), q \in RoundIds :
            /\ \A s \in RoundIds : rounds[s] = NoRound <=> s >= q
            /\ rounds' = [rounds EXCEPT ![q] = NewRound(game, outcome)]
      BY <3>1
    <3>3. rounds[q] = NoRound
      <4>1. q >= q
        BY BoundsAssumption DEF RoundIds
      <4> QED
        BY <3>2, <4>1
    <3> QED
      BY <1>1, <1>2, <3>2, <3>3
  <2> QED
    BY <2>1
<1>7. ASSUME NEW e \in Engines, UpdateRound(e)
      PROVE  rounds'[r] = rounds[r]
  <2> DEFINE q == trx[e].round
  <2>1. /\ q \in RoundIds
        /\ \/ rounds' = rounds
           \/ Moves(q, "OPEN", "LOCKED")
           \/ Moves(q, "LOCKED", "RUNNING")
           \/ Moves(q, "RUNNING", "RESOLVED")
    BY <1>7, UpdateRoundEffect DEF Workers
  <2>2. CASE q # r
    <3>1. q \in RoundIds /\ (rounds' = rounds \/ \E to : rounds' = [rounds EXCEPT ![q].status = to])
      BY <2>1 DEF Moves
    <3> HIDE DEF q
    <3>2. CASE rounds' = rounds
      BY <3>2
    <3>3. ASSUME NEW to, rounds' = [rounds EXCEPT ![q].status = to]
          PROVE  rounds'[r] = rounds[r]
      <4>1. rounds' = [rounds EXCEPT ![q] = [rounds[q] EXCEPT !.status = to]]
        BY <3>3
      <4> QED
        BY <1>4, <2>2, <3>1, <4>1
    <3> QED
      BY <3>1, <3>2, <3>3
  <2>3. CASE q = r
    <3>1. trx[e].pc = "update" /\ trx[e].op \in {"lock", "start"}
      BY <1>1, <1>7, <2>3 DEF UpdateRound, Ready, IInv, Standing, Advancing, Workers
    <3> DEFINE step == CASE trx[e].op = "lock"    -> <<"OPEN", "LOCKED">>
                         [] trx[e].op = "start"   -> <<"LOCKED", "RUNNING">>
                         [] trx[e].op = "resolve" -> <<"RUNNING", "RESOLVED">>
    <3>2. rounds' = IF rounds[r].status = step[1]
                      THEN [rounds EXCEPT ![r].status = step[2]]
                      ELSE rounds
      BY <1>7, <2>3 DEF UpdateRound
    <3>3. step[1] # "RUNNING"
      BY <3>1
    <3> HIDE DEF step
    <3> QED
      BY <1>1, <3>2, <3>3
  <2> QED
    BY <2>2, <2>3
<1>8. ASSUME NEW q \in RoundIds, Elapse(q)
      PROVE  rounds'[r].status = "RUNNING" /\ Overdue(rounds'[r])
  <2>1. /\ rounds[q].age < MaxAge /\ rounds' = [rounds EXCEPT ![q].age = @ + 1]
        /\ rounds[q].status \in {"RUNNING", "RESOLVED"}
    BY <1>8 DEF Elapse
  <2>2. CASE q # r
    BY <1>1, <2>1, <2>2
  <2>3. CASE q = r
    <3> DEFINE new == [rounds[r] EXCEPT !.age = @ + 1]
    <3>1. rounds[r].age \in 0..MaxAge /\ MaxAge \in Nat /\ Grace \in Nat
      BY <1>2, BoundsAssumption DEF Round
    <3>2. rounds[r].age + 1 \in 0..MaxAge /\ rounds[r].age + 1 >= rounds[r].age
      BY <2>1, <2>3, <3>1
    <3>3. /\ new \in Round /\ new.status = "RUNNING" /\ new.age >= rounds[r].age
          /\ new.game = rounds[r].game /\ new.outcome = rounds[r].outcome
      BY <1>1, <1>2, <3>2 DEF Round
    <3>4. rounds' = [rounds EXCEPT ![r] = new]
      BY <2>1, <2>3
    <3> HIDE DEF new
    <3>5. rounds'[r] = new
      BY <1>1, <3>4 DEF TypeOK
    <3>6. Overdue(new)
      BY <1>1, <1>2, <3>1, <3>3, ElapsedPersists DEF Overdue
    <3> QED
      BY <3>3, <3>5, <3>6
  <2> QED
    BY <2>2, <2>3
<1>9. CASE \E p \in Workers : CommitPlaceBet(p) \/ CommitCashOut(p)
  BY <1>3, <1>9 DEF CommitPlaceBet, CommitCashOut
<1> QED
  BY <1>1, <1>3, <1>5, <1>6, <1>7, <1>8, <1>9, WritesOnly DEF Posts, vars, tables

\* However many engines there are and whatever they read before: a round that
\* was not ended within the grace is voided, not settled at a crash that nobody
\* could play against.
THEOREM LateRoundsAreNeverResolved == Spec => LateRoundsAreVoided
<1>1. ASSUME IInv, [Next]_vars, NEW r \in Late
      PROVE  r \in Late' \/ rounds'[r].status = "VOIDED"
  <2>1. /\ r \in RoundIds /\ Overdue(rounds[r])
        /\ \A e \in Engines : ~ (trx[e].op = "resolve" /\ trx[e].round = r)
    BY DEF Late
  <2>2. \A e \in Engines : ~ (trx'[e].op = "resolve" /\ trx'[e].round = r)
    <3> SUFFICES ASSUME NEW e \in Engines, trx'[e].op = "resolve", trx'[e].round = r
                 PROVE  FALSE
      OBVIOUS
    <3> QED
      BY <1>1, <2>1, Turning
  <2> QED
    BY <1>1, <2>1, <2>2, LateRow DEF Late
<1>2. IInv /\ [Next]_vars
        => [\A r \in Late : r \in Late' \/ rounds'[r].status = "VOIDED"]_vars
  BY <1>1
<1> QED
  BY Invariance, <1>2, PTL DEF Spec, LateRoundsAreVoided

-----------------------------------------------------------------------------
(* refinement: what each step is in RoundBook *)

\* RoundBook reads the tables as this module does.
LEMMA SameTables ==
  /\ Book!RoundIds = RoundIds /\ Book!BetIds = BetIds
  /\ Book!NoRound = NoRound /\ Book!NoBet = NoBet
  /\ Book!Games = Games /\ Book!LiveStatuses = LiveStatuses
  /\ Book!Outcomes = Outcomes /\ Book!NoSelection = NoSelection
  /\ \A game : Book!OutcomesOf(game) = OutcomesOf(game)
  /\ \A game : Book!SelectionsOf(game) = SelectionsOf(game)
  /\ \A game, outcome : Book!NewRound(game, outcome) = NewRound(game, outcome)
  /\ \A r, stake, selection :
       Book!NewBet(r, stake, selection) = NewBet(r, stake, selection)
BY DEF Book!RoundIds, RoundIds, Book!BetIds, BetIds, Book!NoRound, NoRound,
       Book!NoBet, NoBet, Book!Games, Games, Book!LiveStatuses, LiveStatuses,
       Book!Outcomes, Outcomes, Book!NoSelection, NoSelection,
       Book!OutcomesOf, OutcomesOf, Book!SelectionsOf, SelectionsOf,
       Book!NewRound, NewRound, Book!NewBet, NewBet

\* It compares times as this module does.
LEMMA SameTimes ==
  ASSUME NEW round
  PROVE  (Book!Due(round) <=> Due(round)) /\ (Book!Overdue(round) <=> Overdue(round))
BY DEF Book!Due, Due, Book!Overdue, Overdue, Book!ElapsedPast, ElapsedPast

\* It decides bets as this module does.
LEMMA SameRows ==
  ASSUME NEW bet
  PROVE  /\ \A bp : Book!Won(bet, bp) = Won(bet, bp)
         /\ Book!Lost(bet) = Lost(bet)
         /\ Book!Refunded(bet) = Refunded(bet)
         /\ \A round : Book!Settled(bet, round) = Settled(bet, round)
<1>1. \A bp : Book!Won(bet, bp) = Won(bet, bp)
  BY DEF Book!Won, Won, Book!Payout, Payout, Book!BasisPointsOne, BasisPointsOne
<1>2. Book!Lost(bet) = Lost(bet) /\ Book!Refunded(bet) = Refunded(bet)
  BY DEF Book!Lost, Lost, Book!Refunded, Refunded
<1>3. \A round : Book!Settled(bet, round) = Settled(bet, round)
  BY <1>1, <1>2 DEF Book!Settled, Settled, Book!NoSelection, NoSelection
<1> QED
  BY <1>1, <1>2, <1>3

\* It posts what this module posts.
LEMMA SamePostings ==
  /\ \A stake : Book!PlacedTx(stake) = PlacedTx(stake)
  /\ \A bet : Book!ClosingTx(bet) = ClosingTx(bet)
<1>1. \A stake : Book!PlacedTx(stake) = PlacedTx(stake)
  BY DEF Book!PlacedTx, PlacedTx
<1>2. \A stake, payout : Book!WonTx(stake, payout) = WonTx(stake, payout)
  BY DEF Book!WonTx, WonTx
<1>3. \A stake : Book!LostTx(stake) = LostTx(stake)
  BY DEF Book!LostTx, LostTx
<1>4. \A stake : Book!RefundTx(stake) = RefundTx(stake)
  BY DEF Book!RefundTx, RefundTx
<1>5. \A bet : Book!ClosingTx(bet) = ClosingTx(bet)
  BY <1>2, <1>3, <1>4 DEF Book!ClosingTx, ClosingTx
<1> QED
  BY <1>1, <1>5

LEMMA BookInit == Init => Book!Init
BY SameTables DEF Init, Book!Init

LEMMA BookOpens ==
  ASSUME IInv, NEW e \in Workers, InsertRound(e), rounds' # rounds
  PROVE  Book!Next
<1>1. PICK game \in Games : \E outcome \in OutcomesOf(game), r \in RoundIds :
        /\ \A q \in RoundIds : rounds[q] = NoRound <=> q >= r
        /\ \A q \in RoundIds :
             ~ (rounds[q].status \in LiveStatuses /\ rounds[q].game = game)
        /\ rounds' = [rounds EXCEPT ![r] = NewRound(game, outcome)]
  BY InsertRoundEffect
<1>2. PICK outcome \in OutcomesOf(game), r \in RoundIds :
        /\ \A q \in RoundIds : rounds[q] = NoRound <=> q >= r
        /\ \A q \in RoundIds :
             ~ (rounds[q].status \in LiveStatuses /\ rounds[q].game = game)
        /\ rounds' = [rounds EXCEPT ![r] = NewRound(game, outcome)]
  BY <1>1
<1>3. Book!OpenRound(r, game, outcome)
  BY <1>2, SameTables DEF InsertRound, Book!OpenRound
<1>4. outcome \in Outcomes
  BY DEF OutcomesOf, Outcomes
<1> QED
  BY <1>3, <1>4, SameTables DEF Book!Next

LEMMA BookUpdates ==
  ASSUME IInv, NEW e \in Workers, UpdateRound(e), rounds' # rounds
  PROVE  Book!Next
<1> DEFINE r == trx[e].round
<1>1. /\ r \in RoundIds
      /\ \/ Moves(r, "OPEN", "LOCKED")
         \/ Moves(r, "LOCKED", "RUNNING")
         \/ Moves(r, "RUNNING", "RESOLVED") /\ Due(rounds[r])
  BY UpdateRoundEffect
<1>2. UNCHANGED <<bets, journal>>
  BY DEF UpdateRound
<1> HIDE DEF r
<1>3. Book!LockRound(r) \/ Book!StartRound(r) \/ Book!ResolveRound(r)
  BY <1>1, <1>2, SameTimes
     DEF Moves, Book!LockRound, Book!StartRound, Book!ResolveRound
<1> QED
  BY <1>1, <1>3, SameTables DEF Book!Next

LEMMA BookElapses ==
  ASSUME NEW r \in RoundIds, Elapse(r)
  PROVE  Book!Next
<1>1. Book!Elapse(r)
  BY DEF Elapse, Book!Elapse
<1> QED
  BY <1>1, SameTables DEF Book!Next

LEMMA BookPlaces ==
  ASSUME IInv, NEW c \in Workers, CommitPlaceBet(c)
  PROVE  Book!Next
<1> DEFINE b == trx[c].bet
           r == trx[c].round
           stake == trx[c].stake
           selection == trx[c].selection
<1>1. /\ b \in BetIds /\ r \in RoundIds /\ stake \in Stakes
      /\ bets[b] = NoBet /\ rounds[r].status = "OPEN"
      /\ selection \in SelectionsOf(rounds[r].game)
      /\ bets' = [bets EXCEPT ![b] = NewBet(r, stake, selection)]
      /\ rounds' = rounds
      /\ journal' = [journal EXCEPT ![b] = Append(@, PlacedTx(stake))]
  BY PlaceBetEffect
<1> HIDE DEF b, r, stake, selection
<1>2. bets[b].status = "NONE"
  BY <1>1 DEF NoBet
<1>3. Book!PlaceBet(b, r, stake, selection)
  BY <1>1, <1>2, SameTables, SamePostings DEF Book!PlaceBet
<1>4. selection \in Selections \cup {NoSelection}
  BY <1>1 DEF SelectionsOf
<1> QED
  BY <1>1, <1>3, <1>4, SameTables DEF Book!Next

LEMMA BookCashesOut ==
  ASSUME IInv, NEW c \in Workers, CommitCashOut(c)
  PROVE  Book!Next
<1> DEFINE b == trx[c].bet
           tick == trx[c].tick
           r == bets[b].round
           row == Won(bets[b], Curve[tick])
<1>1. /\ b \in BetIds /\ bets[b].status = "ACTIVE"
      /\ rounds[r].game = "CRASH" /\ rounds[r].status \in {"RUNNING", "RESOLVED"}
      /\ tick \in 0..MaxAge /\ tick =< rounds[r].age /\ Curve[tick] < rounds[r].outcome
      /\ bets' = [bets EXCEPT ![b] = row]
      /\ rounds' = rounds
      /\ journal' = [journal EXCEPT ![b] = Append(@, ClosingTx(row))]
  BY CashOutEffect
<1>2. row = Book!Won(bets[b], Curve[tick]) /\ ClosingTx(row) = Book!ClosingTx(row)
  BY SameRows, SamePostings
<1> HIDE DEF b, tick, row
<1>3. Book!CashOut(b, tick)
  BY <1>1, <1>2 DEF Book!CashOut, r
<1> QED
  BY <1>1, <1>3, SameTables DEF Book!Next

LEMMA BookCloses ==
  ASSUME IInv, NEW e \in Workers, CommitClose(e)
  PROVE  Book!Next
<1> DEFINE r == trx[e].round
           S == ActiveOn(r)
<1>0. r = trx[e].round /\ S = ActiveOn(r)
  OBVIOUS
<1> HIDE DEF r, S
<1>1. bets' = [b \in BetIds |-> IF b \in S THEN Verdict(e, b) ELSE bets[b]]
  BY <1>0, CloseEffect
<1>2. journal' = [b \in BetIds |-> IF b \in S
                    THEN Append(journal[b], ClosingTx(Verdict(e, b)))
                    ELSE journal[b]]
  BY <1>0, CloseEffect
<1>3. rounds' = [rounds EXCEPT ![r].status =
                   IF trx[e].op = "void" THEN "VOIDED" ELSE "SETTLED"]
  BY <1>0, CloseEffect
<1>4. /\ r \in RoundIds
      /\ \/ trx[e].op = "settle" /\ rounds[r].status = "RESOLVED"
         \/ trx[e].op = "void" /\ rounds[r].status = "RUNNING" /\ Overdue(rounds[r])
  BY <1>0, CloseEffect
<1>5. Book!ActiveOn(r) = S
  <2>1. TypeOK
    BY DEF IInv
  <2>2. \A b \in BetIds : bets[b] = NoBet <=> bets[b].status = "NONE"
    BY <2>1, BetPresent
  <2> QED
    BY <1>0, <2>2, SameTables DEF Book!ActiveOn, Book!BetsOn, ActiveOn
<1>6. ASSUME NEW closed, DOMAIN closed = S, \A b \in S : closed[b] = Verdict(e, b)
      PROVE  Book!CloseBets(closed)
  <2>1. bets' = [b \in BetIds |-> IF b \in DOMAIN closed THEN closed[b] ELSE bets[b]]
    BY <1>1, <1>6
  <2>2. journal' = [b \in BetIds |->
                      IF b \in DOMAIN closed THEN Append(journal[b], ClosingTx(closed[b]))
                                             ELSE journal[b]]
    BY <1>2, <1>6
  <2> QED
    BY <2>1, <2>2, SameTables, SamePostings DEF Book!CloseBets
<1>7. CASE trx[e].op = "settle"
  <2> DEFINE closed == [b \in Book!ActiveOn(r) |-> Book!Settled(bets[b], rounds[r])]
  <2>1. \A b : Verdict(e, b) = Settled(bets[b], rounds[r])
    BY <1>0, <1>7 DEF Verdict
  <2>2. DOMAIN closed = S /\ \A b \in S : closed[b] = Verdict(e, b)
    BY <1>5, <2>1, SameRows
  <2> HIDE DEF closed
  <2>3. Book!CloseBets(closed)
    BY <1>6, <2>2
  <2>4. Book!SettleRound(r)
    BY <1>3, <1>4, <1>7, <2>3 DEF Book!SettleRound, closed
  <2> QED
    BY <1>4, <2>4, SameTables DEF Book!Next
<1>8. CASE trx[e].op = "void"
  <2> DEFINE closed == [b \in Book!ActiveOn(r) |-> Book!Refunded(bets[b])]
  <2>1. \A b : Verdict(e, b) = Refunded(bets[b])
    BY <1>8 DEF Verdict
  <2>2. DOMAIN closed = S /\ \A b \in S : closed[b] = Verdict(e, b)
    BY <1>5, <2>1, SameRows
  <2> HIDE DEF closed
  <2>3. Book!CloseBets(closed)
    BY <1>6, <2>2
  <2>4. Book!VoidRound(r)
    BY <1>3, <1>4, <1>8, <2>3, SameTimes DEF Book!VoidRound, closed
  <2> QED
    BY <1>4, <2>4, SameTables DEF Book!Next
<1> QED
  BY <1>4, <1>7, <1>8

LEMMA BookStep == IInv /\ [Next]_vars => [Book!Next]_(Book!vars)
<1> SUFFICES ASSUME IInv, [Next]_vars PROVE Book!Next \/ UNCHANGED <<rounds, bets, journal>>
  BY DEF Book!vars
<1>1. CASE UNCHANGED vars
  BY <1>1 DEF vars
<1>2. CASE \E p \in Workers : Posts(p)
  BY <1>2, BookPlaces, BookCashesOut, BookCloses DEF Posts
<1>3. CASE \E e \in Engines : InsertRound(e) \/ UpdateRound(e)
  <2>1. PICK e \in Workers : InsertRound(e) \/ UpdateRound(e)
    BY <1>3 DEF Workers
  <2>2. UNCHANGED <<bets, journal>>
    BY <2>1 DEF InsertRound, UpdateRound
  <2> QED
    BY <2>1, <2>2, BookOpens, BookUpdates
<1>4. CASE \E r \in RoundIds : Elapse(r)
  BY <1>4, BookElapses
<1>5. \/ UNCHANGED vars \/ UNCHANGED tables
      \/ \E p \in Workers : Posts(p)
      \/ \E e \in Engines : InsertRound(e) \/ UpdateRound(e)
      \/ \E r \in RoundIds : Elapse(r)
  BY WritesOnly
<1> QED
  BY <1>1, <1>2, <1>3, <1>4, <1>5 DEF tables

\* Interleaved in any way, with any number of engines, with victims of wait
\* cycles and lost workers, the transactions do no more than the atomic
\* operations of RoundBook, one after the other.
THEOREM TransactionsImplementBook == Spec => ImplementsBook
<1> QED
  BY BookInit, BookStep, Invariance, PTL DEF Spec, ImplementsBook, Book!Spec

=============================================================================
