------------------------------- MODULE Betting ------------------------------
(***************************************************************************)
(* The transactions of the betting service and of the round engine,        *)
(* statement by statement, as Postgres runs them at READ COMMITTED.        *)
(*                                                                         *)
(* A worker is a request being served or a tick loop.  Its transaction     *)
(* asks for row locks one at a time (need), keeps those it was granted     *)
(* until it ends (held), and acts on what it read on the way.  Writes are  *)
(* invisible to others until the commit, so they are all applied by the    *)
(* commit action; a transaction that is refused, aborted or lost with its  *)
(* process releases its locks and leaves no trace.                         *)
(***************************************************************************)
EXTENDS Tables, SequencesExt

CONSTANTS
  Clients,   \* requests that can be in flight at once
  Engines,   \* processes running the tick loop; more than one if election fails
  Mortal,    \* the workers whose process or connection may be lost
  Grant      \* starting balance of a wallet

ASSUME WorkersAssumption ==
  /\ Clients \cap Engines = {}
  /\ Mortal \subseteq Clients \cup Engines
  /\ Grant \in Nat

\* No wallet has the fixed id of a system account.
ASSUME AccountsAssumption == Users \cap {"ESCROW", "HOUSE"} = {}

VARIABLES rounds, bets, journal,   \* as in RoundBook
          balance,                 \* the balances table
          trx                      \* the transaction of each worker

vars == <<rounds, bets, journal, balance, trx>>

Book == INSTANCE RoundBook

Workers == Clients \cup Engines
Accounts == Users \cup {"ESCROW", "HOUSE"}

INSTANCE RowLocks

-----------------------------------------------------------------------------
(* row locks *)

RoundRow(r) == <<"round", r>>
BetRow(b) == <<"bet", b>>
KeyEntry(b) == <<"key", b>>        \* the index entry of bets_user_idempotency
BalanceRow(a) == <<"balance", a>>

-----------------------------------------------------------------------------
(* transactions *)

\* No transaction open: the worker waits for a request, or for its next tick.
Idle ==
  [pc |-> "idle", op |-> "none", bet |-> <<>>, round |-> 0, stake |-> 0,
   selection |-> NoSelection, tick |-> 0, game |-> "CRASH", order |-> <<>>,
   need |-> <<>>, held |-> {}]

\* The transaction of p ends: committed, refused, rolled back or lost.
End(p) == trx' = [trx EXCEPT ![p] = Idle]

tables == <<rounds, bets, journal, balance>>

AcquireLock(p) == Granted(p) /\ UNCHANGED tables

\* Mutation of AbortDeadlock: wait cycles are never broken.
AbortNobody(p) == p \notin Workers /\ UNCHANGED vars

\* Postgres aborts a transaction it finds in a wait cycle.
AbortDeadlock(p) ==
  /\ trx[p].need # <<>>
  /\ InWaitCycle(p)
  /\ End(p)
  /\ UNCHANGED tables

\* The process or its connection is lost; the server rolls the work back.
Lose(p) ==
  /\ p \in Mortal
  /\ trx[p].pc # "idle"
  /\ End(p)
  /\ UNCHANGED tables

Amount(tx, b, account) ==
  CASE account = "ESCROW" -> tx.escrow
    [] account = "HOUSE"  -> tx.house
    [] account = Owner(b) -> tx.wallet
    [] OTHER -> 0

\* The balances rows postInTransaction updates, in account order: the fixed
\* ids of the system accounts sort before any wallet id.
PostingRows(b, tx) ==
  LET touched == SelectSeq(<<"ESCROW", "HOUSE", Owner(b)>>,
                           LAMBDA account : Amount(tx, b, account) # 0)
  IN [i \in DOMAIN touched |-> Exclusive(BalanceRow(touched[i]))]

\* Post txs[b] for each bet b it is defined on.
PostAll(txs) ==
  /\ journal' = [b \in BetIds |-> IF b \in DOMAIN txs THEN Append(journal[b], txs[b])
                                                      ELSE journal[b]]
  /\ balance' = [a \in Accounts |->
                   balance[a] + SumFunction([b \in DOMAIN txs |-> Amount(txs[b], b, a)])]

-----------------------------------------------------------------------------
(* placeBet *)

\* Mutation of BeginPlaceBet: the round is read without FOR SHARE.
BeginPlaceBetUnlocked(c, b, r, stake, selection) ==
  /\ trx[c].pc = "idle"
  /\ bets[b] = NoBet
  /\ rounds[r] # NoRound
  /\ selection \in SelectionsOf(rounds[r].game)
  /\ trx' = [trx EXCEPT ![c] =
               [Idle EXCEPT !.pc = "round read", !.op = "place", !.bet = b,
                            !.round = r, !.stake = stake,
                            !.selection = selection]]
  /\ UNCHANGED tables

\* The replay check finds no bet under the key; the round is read FOR SHARE.
BeginPlaceBet(c, b, r, stake, selection) ==
  /\ trx[c].pc = "idle"
  /\ bets[b] = NoBet
  /\ rounds[r] # NoRound
  /\ selection \in SelectionsOf(rounds[r].game)
  /\ trx' = [trx EXCEPT ![c] =
               [Idle EXCEPT !.pc = "round read", !.op = "place", !.bet = b,
                            !.round = r, !.stake = stake,
                            !.selection = selection,
                            !.need = <<Shared(RoundRow(r))>>]]
  /\ UNCHANGED tables

RefuseRoundNotOpen(c) ==
  /\ Ready(c, "round read")
  /\ rounds[trx[c].round].status # "OPEN"
  /\ End(c)
  /\ UNCHANGED tables

\* Mutation of AcceptRound: the balance is read without locking the wallet.
AcceptRoundUnlocked(c) ==
  /\ Ready(c, "round read")
  /\ rounds[trx[c].round].status = "OPEN"
  /\ GoOn(c, "funds", <<>>)
  /\ UNCHANGED tables

AcceptRound(c) ==
  /\ Ready(c, "round read")
  /\ rounds[trx[c].round].status = "OPEN"
  /\ GoOn(c, "funds", <<Exclusive(BalanceRow(Owner(trx[c].bet)))>>)
  /\ UNCHANGED tables

RefuseInsufficientFunds(c) ==
  /\ Ready(c, "funds")
  /\ balance[Owner(trx[c].bet)] < trx[c].stake
  /\ End(c)
  /\ UNCHANGED tables

AcceptFunds(c) ==
  /\ Ready(c, "funds")
  /\ balance[Owner(trx[c].bet)] >= trx[c].stake
  /\ GoOn(c, "insert bet", <<Exclusive(KeyEntry(trx[c].bet))>>)
  /\ UNCHANGED tables

\* Unique violation on bets_user_idempotency: the transaction is rolled back
\* and the winner's bet is returned.
ReplayWinner(c) ==
  /\ Ready(c, "insert bet")
  /\ bets[trx[c].bet] # NoBet
  /\ End(c)
  /\ UNCHANGED tables

InsertBet(c) ==
  /\ Ready(c, "insert bet")
  /\ bets[trx[c].bet] = NoBet
  /\ GoOn(c, "placed", Missing(c, PostingRows(trx[c].bet, PlacedTx(trx[c].stake))))
  /\ UNCHANGED tables

CommitPlaceBet(c) ==
  LET t == trx[c]
  IN /\ Ready(c, "placed")
     /\ bets' = [bets EXCEPT ![t.bet] = NewBet(t.round, t.stake, t.selection)]
     /\ PostAll([b \in {t.bet} |-> PlacedTx(t.stake)])
     /\ End(c)
     /\ UNCHANGED rounds

-----------------------------------------------------------------------------
(* cashOut *)

BeginCashOut(c, b) ==
  /\ trx[c].pc = "idle"
  /\ bets[b] # NoBet
  /\ trx' = [trx EXCEPT ![c] =
               [Idle EXCEPT !.pc = "bet read", !.op = "cash out", !.bet = b,
                            !.round = bets[b].round,
                            !.need = <<Exclusive(BetRow(b))>>]]
  /\ UNCHANGED tables

\* The round is read without a lock: it may move on before the commit.
MayCashOut(c) ==
  LET round == rounds[trx[c].round]
  IN /\ bets[trx[c].bet].status = "ACTIVE"
     /\ round.game = "CRASH"
     /\ round.status = "RUNNING"

\* A WON bet is returned as it is; any other obstacle is refused.
RefuseCashOut(c) ==
  /\ Ready(c, "bet read")
  /\ ~ MayCashOut(c)
  /\ End(c)
  /\ UNCHANGED tables

AcceptCashOut(c) ==
  /\ Ready(c, "bet read")
  /\ MayCashOut(c)
  /\ GoOn(c, "clock read", <<>>)
  /\ UNCHANGED tables

\* The database clock is read after the round was; the bet is then updated
\* where it is still ACTIVE.
StillWorth(c) ==
  /\ Curve[rounds[trx[c].round].age] < rounds[trx[c].round].outcome
  /\ bets[trx[c].bet].status = "ACTIVE"

RefuseTooLate(c) ==
  /\ Ready(c, "clock read")
  /\ ~ StillWorth(c)
  /\ End(c)
  /\ UNCHANGED tables

PriceCashOut(c) ==
  LET t == trx[c]
      tick == rounds[t.round].age
      row == Won(bets[t.bet], Curve[tick])
  IN /\ Ready(c, "clock read")
     /\ StillWorth(c)
     /\ trx' = [trx EXCEPT ![c].pc = "cashed out", ![c].tick = tick,
                           ![c].need = PostingRows(t.bet, ClosingTx(row))]
     /\ UNCHANGED tables

CommitCashOut(c) ==
  LET t == trx[c]
      row == Won(bets[t.bet], Curve[t.tick])
  IN /\ Ready(c, "cashed out")
     /\ bets' = [bets EXCEPT ![t.bet] = row]
     /\ PostAll([b \in {t.bet} |-> ClosingTx(row)])
     /\ End(c)
     /\ UNCHANGED rounds

-----------------------------------------------------------------------------
(* the tick loop of an engine *)

\* Mutation of Pending: the tick's query forgets the RESOLVED rounds.
PendingLive(game) ==
  {r \in RoundIds : rounds[r].status \in LiveStatuses /\ rounds[r].game = game}

\* The round a tick acts on: the newest that is live or waits for settlement.
Pending(game) ==
  {r \in RoundIds : /\ rounds[r].status \in LiveStatuses \cup {"RESOLVED"}
                    /\ rounds[r].game = game}
Unused == {r \in RoundIds : rounds[r] = NoRound}

\* What the status it read makes the tick do; for RUNNING it reads the clock.
NextOp(status) ==
  CASE status = "OPEN"     -> [pc |-> "update", op |-> "lock"]
    [] status = "LOCKED"   -> [pc |-> "update", op |-> "start"]
    [] status = "RUNNING"  -> [pc |-> "elapsed", op |-> "none"]
    [] status = "RESOLVED" -> [pc |-> "round lock", op |-> "settle"]

TickOpens(e, game) ==
  /\ trx[e].pc = "idle"
  /\ Pending(game) = {}
  /\ Unused # {}
  /\ trx' = [trx EXCEPT ![e] = [Idle EXCEPT !.pc = "insert round",
                                            !.op = "open", !.game = game]]
  /\ UNCHANGED tables

\* Whether now >= locks_at is left open: a tick that finds the window still
\* open does nothing.
TickAdvances(e, game) ==
  /\ trx[e].pc = "idle"
  /\ Pending(game) # {}
  /\ LET r == Max(Pending(game))
         next == NextOp(rounds[r].status)
     IN trx' = [trx EXCEPT ![e] =
                  [Idle EXCEPT !.pc = next.pc, !.op = next.op, !.round = r,
                               !.need = IF next.pc = "elapsed" THEN <<>>
                                        ELSE <<Exclusive(RoundRow(r))>>]]
  /\ UNCHANGED tables

\* The insert commits on its own; the partial unique index is the arbiter.
InsertRound(e) ==
  /\ Ready(e, "insert round")
  /\ IF \/ Unused = {}
        \/ \E r \in Pending(trx[e].game) : rounds[r].status \in LiveStatuses
       THEN UNCHANGED rounds
       ELSE \E outcome \in OutcomesOf(trx[e].game) :
              rounds' = [rounds EXCEPT ![Min(Unused)] =
                           NewRound(trx[e].game, outcome)]
  /\ End(e)
  /\ UNCHANGED <<bets, journal, balance>>

\* Mutation of CompareElapsed: the void is looked for only after the crash.
CompareDueFirst(e) ==
  LET round == rounds[trx[e].round]
      act(pc, op) == trx' = [trx EXCEPT ![e].pc = pc, ![e].op = op,
                       ![e].need = <<Exclusive(RoundRow(trx[e].round))>>]
  IN /\ Ready(e, "elapsed")
     /\ CASE Due(round) -> act("update", "resolve")
          [] ~ Due(round) /\ Overdue(round) -> act("round lock", "void")
          [] OTHER -> End(e)
     /\ UNCHANGED tables

\* A RUNNING round found: void it, resolve it, or leave it for now.
CompareElapsed(e) ==
  LET round == rounds[trx[e].round]
      act(pc, op) == trx' = [trx EXCEPT ![e].pc = pc, ![e].op = op,
                       ![e].need = <<Exclusive(RoundRow(trx[e].round))>>]
  IN /\ Ready(e, "elapsed")
     /\ CASE Overdue(round) -> act("round lock", "void")
          [] ~ Overdue(round) /\ Due(round) -> act("update", "resolve")
          [] OTHER -> End(e)
     /\ UNCHANGED tables

\* lockRound, startRound, resolveRound: one update guarded on the status.
UpdateRound(e) ==
  LET r == trx[e].round
      step == CASE trx[e].op = "lock"    -> <<"OPEN", "LOCKED">>
                [] trx[e].op = "start"   -> <<"LOCKED", "RUNNING">>
                [] trx[e].op = "resolve" -> <<"RUNNING", "RESOLVED">>
  IN /\ Ready(e, "update")
     /\ rounds' = IF rounds[r].status = step[1]
                    THEN [rounds EXCEPT ![r].status = step[2]]
                    ELSE rounds
     /\ End(e)
     /\ UNCHANGED <<bets, journal, balance>>

\* settleRound acts on a RESOLVED round only, voidRound on any not yet closed.
MayClose(op, status) ==
  IF op = "settle" THEN status = "RESOLVED"
                   ELSE status \notin {"SETTLED", "VOIDED"}

LeaveRound(e) ==
  /\ Ready(e, "round lock")
  /\ ~ MayClose(trx[e].op, rounds[trx[e].round].status)
  /\ End(e)
  /\ UNCHANGED tables

ActiveOn(r) ==
  {b \in BetIds : bets[b] # NoBet /\ bets[b].round = r /\ bets[b].status = "ACTIVE"}

\* The ACTIVE bets are locked one by one, in whatever order the scan meets them.
LockBets(e) ==
  /\ Ready(e, "round lock")
  /\ MayClose(trx[e].op, rounds[trx[e].round].status)
  /\ \E order \in SetToSeqs(ActiveOn(trx[e].round)) :
       trx' = [trx EXCEPT ![e].pc = "bets lock", ![e].order = order,
                 ![e].need = [i \in DOMAIN order |-> Exclusive(BetRow(order[i]))]]
  /\ UNCHANGED tables

Verdict(e, b) ==
  IF trx[e].op = "void" THEN Refunded(bets[b])
                        ELSE Settled(bets[b], rounds[trx[e].round])

\* Mutation of PostBets: a bet closed while its lock was awaited is not skipped.
PostBetsAsScanned(e) ==
  LET order == trx[e].order
      rows == [i \in DOMAIN order |->
                 PostingRows(order[i], ClosingTx(Verdict(e, order[i])))]
  IN /\ Ready(e, "bets lock")
     /\ trx' = [trx EXCEPT ![e].pc = "posted",
                           ![e].need = Missing(e, FlattenSeq(rows))]
     /\ UNCHANGED tables

\* A bet that was closed while its lock was awaited no longer matches and is
\* skipped; the others are posted in turn.
PostBets(e) ==
  LET order == trx[e].order
      active == {i \in DOMAIN order : bets[order[i]].status = "ACTIVE"}
  IN /\ Ready(e, "bets lock")
     /\ \E kept \in SetToSeqs(active) :
          /\ \A i, j \in DOMAIN kept : i < j => kept[i] < kept[j]
          /\ LET still == [i \in DOMAIN kept |-> order[kept[i]]]
                 rows == [i \in DOMAIN still |->
                            PostingRows(still[i], ClosingTx(Verdict(e, still[i])))]
             IN trx' = [trx EXCEPT ![e].pc = "posted", ![e].order = still,
                                   ![e].need = Missing(e, FlattenSeq(rows))]
     /\ UNCHANGED tables

\* Mutation of BreaksCheck: the constraint is not there.
NoCheck(e) == e \notin Engines

\* rounds_voided_has_no_crash: a round that has resolved cannot be VOIDED.
BreaksCheck(e) ==
  trx[e].op = "void" /\ rounds[trx[e].round].status = "RESOLVED"

AbortClose(e) ==
  /\ Ready(e, "posted")
  /\ BreaksCheck(e)
  /\ End(e)
  /\ UNCHANGED tables

CommitClose(e) ==
  LET t == trx[e]
      S == ToSet(t.order)
  IN /\ Ready(e, "posted")
     /\ ~ BreaksCheck(e)
     /\ bets' = [b \in BetIds |->
                   IF b \in S /\ bets[b].status = "ACTIVE" THEN Verdict(e, b)
                                                           ELSE bets[b]]
     /\ PostAll([b \in S |-> ClosingTx(Verdict(e, b))])
     /\ rounds' = [rounds EXCEPT ![t.round].status =
                     IF t.op = "void" THEN "VOIDED" ELSE "SETTLED"]
     /\ End(e)

-----------------------------------------------------------------------------
Init ==
  /\ rounds = [r \in RoundIds |-> NoRound]
  /\ bets = [b \in BetIds |-> NoBet]
  /\ journal = [b \in BetIds |-> <<>>]
  /\ balance = [a \in Accounts |-> IF a \in Users THEN Grant ELSE 0]
  /\ trx = [p \in Workers |-> Idle]

\* The database clock moves on once a round has started.
Elapse(r) ==
  /\ rounds[r].status \in {"RUNNING", "RESOLVED"}
  /\ rounds[r].age < MaxAge
  /\ rounds' = [rounds EXCEPT ![r].age = @ + 1]
  /\ UNCHANGED <<bets, journal, balance, trx>>

BeginRequest(c) ==
  \/ \E b \in BetIds, r \in RoundIds, stake \in Stakes,
        selection \in Selections \cup {NoSelection} :
       BeginPlaceBet(c, b, r, stake, selection)
  \/ \E b \in BetIds : BeginCashOut(c, b)

ServePlaceBet(c) ==
  \/ RefuseRoundNotOpen(c) \/ AcceptRound(c)
  \/ RefuseInsufficientFunds(c) \/ AcceptFunds(c)
  \/ ReplayWinner(c) \/ InsertBet(c) \/ CommitPlaceBet(c)

ServeCashOut(c) ==
  \/ RefuseCashOut(c) \/ AcceptCashOut(c)
  \/ RefuseTooLate(c) \/ PriceCashOut(c) \/ CommitCashOut(c)

Tick(e, game) == TickOpens(e, game) \/ TickAdvances(e, game)

RunTick(e) ==
  \/ InsertRound(e) \/ CompareElapsed(e) \/ UpdateRound(e)
  \/ LeaveRound(e) \/ LockBets(e) \/ PostBets(e)
  \/ AbortClose(e) \/ CommitClose(e)

Next ==
  \/ \E c \in Clients : BeginRequest(c) \/ ServePlaceBet(c) \/ ServeCashOut(c)
  \/ \E e \in Engines : RunTick(e) \/ \E game \in Games : Tick(e, game)
  \/ \E p \in Workers : AcquireLock(p) \/ AbortDeadlock(p) \/ Lose(p)
  \/ \E r \in RoundIds : Elapse(r)

Spec == Init /\ [][Next]_vars

\* A statement that was sent runs; a lock that is free again and again is
\* granted (Postgres queues its waiters); a wait cycle is found; each tick
\* looks at both games; the clock moves on.  Nobody has to send a request.
Fairness ==
  /\ \A p \in Workers : SF_vars(AcquireLock(p))
  /\ WF_vars(\E p \in Workers : AbortDeadlock(p))
  /\ \A c \in Clients : WF_vars(ServePlaceBet(c) \/ ServeCashOut(c))
  /\ \A e \in Engines :
       /\ WF_vars(RunTick(e))
       /\ \A game \in Games : SF_vars(Tick(e, game))
  /\ WF_vars(\E r \in RoundIds : Elapse(r))

FairSpec == Spec /\ Fairness

-----------------------------------------------------------------------------
(* properties *)

PCs == {"idle", "round read", "funds", "insert bet", "placed", "bet read",
        "clock read", "cashed out", "insert round", "elapsed", "update",
        "round lock", "bets lock", "posted"}

TypeOK ==
  /\ rounds \in [RoundIds -> Round \cup {NoRound}]
  /\ bets \in [BetIds -> Bet \cup {NoBet}]
  /\ balance \in [Accounts -> Int]
  /\ \A p \in Workers :
       /\ trx[p].pc \in PCs
       /\ trx[p].bet \in BetIds \cup {<<>>}
       /\ trx[p].round \in RoundIds \cup {0}

\* Interleaved, with any number of engines, the transactions do no more than
\* the atomic operations of RoundBook in some order.
ImplementsBook == Book!Spec

\* The stakes of the ACTIVE bets, and nothing else, are in escrow.
EscrowHoldsActiveStakes ==
  balance["ESCROW"] =
    SumFunction([b \in {c \in BetIds : bets[c].status = "ACTIVE"} |-> bets[b].stake])

\* No wallet is overdrawn: the check made under the wallet's lock still holds
\* at the commit, so the non-negative trigger never has to refuse one.
NoOverdraft == \A u \in Users : balance[u] >= 0

\* While an engine ticks, a round that was opened is settled or voided: neither
\* a victim of a wait cycle nor a lost request leaves it standing.
RoundsClose ==
  \A r \in RoundIds :
    rounds[r].status = "OPEN" ~> rounds[r].status \in {"SETTLED", "VOIDED"}

\* Rounds that run past their end and the grace, and that no engine has set out
\* to resolve while there was time.
Late ==
  {r \in RoundIds :
     /\ rounds[r].status = "RUNNING"
     /\ Overdue(rounds[r])
     /\ \A e \in Engines : ~ (trx[e].op = "resolve" /\ trx[e].round = r)}

\* Such a round ends in no other way than voided, with its stakes returned: who
\* could not cash out while the engines were away loses nothing, whoever of them
\* looks at it, and however old what the others have read is.
LateRoundsAreVoided ==
  [][\A r \in Late : r \in Late' \/ rounds'[r].status = "VOIDED"]_vars

\* Every request gets an answer: no transaction waits for a lock for ever.
RequestsEnd == \A c \in Clients : trx[c].pc # "idle" ~> trx[c].pc = "idle"

\* What ledger.service.ts says of its sorted updates: "every transaction in the
\* system takes its row locks in the same sequence, so the cycle cannot form".
NoWaitCycle == \A p \in Workers : ~ InWaitCycle(p)

\* What rounds.service.ts says of its replay check: "A replayed request must
\* return the original result, not an error".  No request is refused while the
\* very bet it asks for is already in the table.
ReplayIsAnswered ==
  [][\A c \in Clients :
       RefuseRoundNotOpen(c) \/ RefuseInsufficientFunds(c) =>
         LET bet == bets[trx[c].bet]
         IN ~ /\ bet # NoBet
              /\ bet.round = trx[c].round
              /\ bet.stake = trx[c].stake
              /\ bet.selection = trx[c].selection]_vars

=============================================================================
