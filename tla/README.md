# TLA+ specifications of the Tessera API

This directory holds the formal model of the Tessera API: a crash and a
roulette table over a double-entry ledger in Postgres, driven by a
leader-elected round engine. The modules are checked with TLC on small
instances, and the theorems of the `*_proofs` modules are checked with TLAPS for
every value of the constants. Every definition that stands for code is listed,
with the lines it stands for, under `map` in `PROJECT.json`.

Paths below are relative to the repository (`src/` in `PROJECT.json` is its
root). "The code" is the code at the commit beside this directory.

    tlc -workers 2 -config MCBetting_safety.cfg MCBetting
    tlapm RoundBook_proofs.tla

## 1. The system

| Component | Code | State it keeps | Operations | Talks to |
|---|---|---|---|---|
| Round engine | `src/rounds/round-engine.service.ts` | `rounds`; a timer, `ticking`, `stopped` | tick of each game: open, lock, start, resolve, settle, void | ledger (closing transactions), fairness chain (outcomes), event bus |
| Betting service | `src/rounds/rounds.service.ts` | `bets` | `placeBet`, `cashOut`, queries | ledger, the engine's rows (read FOR SHARE, or unlocked) |
| Ledger | `src/ledger/ledger.service.ts`, migration `…0000` | accounts, transactions, entries, `balances` | post, lock and check a balance, create a wallet, page through a statement, reconcile | everything that moves credits |
| Leader election | `src/rounds/leader-election.service.ts` | a session-level advisory lock, `leader` | `tryAcquire` once at start, `release` | starts and stops the engine's timer |
| Fairness chain | `src/rounds/fairness/*`, migration `…5000` | seed, chain position, nonces | draw an outcome, publish proofs | the engine opens rounds from it |
| Sessions | `src/auth/*`, migration `…1000` | `refresh_tokens` | register, login, refresh, logout | ledger (signup grant) |
| Event bus and gateway | `src/rounds/events/*`, `src/rounds/rounds.gateway.ts` | listener connection, sockets | NOTIFY, LISTEN, broadcast | engine, betting, clients |
| Game rules | `packages/contracts/src/*` | none | curve, odds, payouts, hashes | engine, betting, clients |
| Users, admin, health | `src/users/*`, `src/admin/*`, `src/health/*` | `users` | create a user, page through the players, the figures of the overview and of the health check | the ledger's tables |
| Configuration, error responses, scripts | `src/config/*`, `src/common/*`, `scripts/`, `loadtest/` | none | validation, wording, tools | |

Everything that matters is decided in Postgres, at READ COMMITTED, by
transactions of several statements that lock rows one at a time. Several Node
processes serve requests; inside a process requests interleave at every
`await`. One process, the leader, runs a tick every 100 ms.

What is hard about it, and what has to be right:

* **Interleaving of transactions.** A cash-out reads the bet under a lock, but the
  round without one; a settlement scans bets and then locks them; a bet checks a
  balance and debits it later. Each bet must end with one verdict and one closing
  transaction, whoever comes first, and no wallet may be overdrawn.
* **Lock order.** `placeBet` holds its wallet when it asks for ESCROW; a payout asks
  for ESCROW first. Transactions do deadlock; victims must leave no trace and
  nobody may wait for ever.
* **Lost processes.** A settlement posts one ledger transaction per bet; it is
  all or nothing. A round nobody resolved in time is voided, never lost.
* **Two engines.** Election is by a lock that may be lost without notice; two
  engines must still not settle twice.
* **Boundaries.** A cash-out at the very tick of the crash; a crash at 1.00x; a
  payout floored to the stake, which has no house leg.
* **Replays.** A client repeats a request while the first is in flight.
* **Token families.** Rotation must stay linear and revocation must reach every token.
* **Chain positions and nonces**, drawn by whoever opens a round.
* **Events** that are lost, late or out of order: a balance travels in the event, a round is
  read again when its event arrives, by queries nothing keeps in order; every lost
  connection starts its own chain of `reconnect()`.
* **Readers among writers.** The health check adds up tables others write; a statement is
  paged by a cursor while entries commit out of the order of their ids, the list of
  players by an offset while players register.
* **Arithmetic.** The curve's search, the flooring of payouts, the edge of both games, the
  wheel's layout, the position a seed proves.

## 2. Modules

    Money --- Tables --- RoundBook --- RoundBook_proofs
        \         \         ^
         \         \        | implements (Book == INSTANCE RoundBook)
          \         `--- Betting --- Betting_proofs
           \                |
            \           RowLocks --- Sessions --- Sessions_proofs
             \              `------- Ledger ----- Ledger_proofs
              `- Rules --- Rules_proofs

    EventBus --- Gateway --- Gateway_proofs

    Leadership --- Opening --- Opening_proofs    (Opening EXTENDS Leadership: its steps are Leadership's)

    Data_proofs      (under the proofs of Betting, Sessions, Ledger, Opening and Rules)

* **`Money`** - a stake times a multiplier in basis points, floored. `Tables` and `Rules` share it.
* **`Tables`** - the rows (round, bet, ledger transaction) and the pure computations
  on them: due, overdue, won, lost, refunded, settled, floor of a payout, the
  transaction that closes a bet's books. Time is counted in ticks of the curve,
  money in minor units, multipliers in basis points. A bet is known by
  `(user, key)`, which `bets_user_idempotency` makes unique.
* **`RoundBook`** - the abstract specification: `rounds`, `bets` and, per bet, the
  `journal` of ledger transactions that reference it; each operation of the
  engine and of the betting service as one atomic step.
* **`RowLocks`** - row locks as a transaction meets them: what it still has to ask
  for (`need`), what it holds (`held`), who blocks whom, who is in a wait cycle.
* **`Betting`** - the same operations statement by statement. A worker is a request
  or an engine; each `await` that reads or locks is a program point; the writes
  of a transaction are applied by its commit action, because no other transaction
  sees them earlier. Transactions are refused, aborted as deadlock victims, or
  lost with their process at any point. `balance` is the `balances` table; the
  refinement `Book!Spec` says that all this amounts to `RoundBook`.
* **`Sessions`** - login, rotation, reuse detection, logout. `revokeFamily` is one
  UPDATE: it chooses its rows from what is committed when it starts and then
  locks them one by one.
* **`Leadership`** - start, the one attempt at the advisory lock, the timer, failing
  ticks, shutdown, the death of a process, sessions the server ends late or early.
* **`Opening`** - the ticks of `Leadership`'s processes, opening rounds: the look-up of
  the highest nonce, the chain that covers the next one (or a new chain), the insert
  whose own nonce comes from the sequence, the two unique indexes that may refuse it.
  Each statement commits on its own; a round here is only live or not.
* **`Rules`** - the shared rules as pure operators: the curve at each tick, the binary search for
  the time at which it shows a multiplier, crash points and pockets from a hash, the odds
  and the pockets of a selection, seeds and their proofs. Each is set against what it
  promises. `MCRoundBook` plays `RoundBook` by them, and `Rules_proofs` extends `MCRoundBook`:
  a rule depends on no state, so its property is stated once, of the state before the first round.
  Loops (powers, hashing on) are one recursive function, `Iterate`.
* **`Ledger`** - the ledger table by table, as `Betting` does not have it: account rows and
  entries with the ids they draw from their sequences, registration with its unique
  e-mail and its grant, stakes and closings as one posting each, the reconciliation
  queries, and one reader that walks through a statement or the list of players page by page.
* **`EventBus`** - what changes a round or a balance and queues an event with it, the delivery
  at commit, the opening that is published after its commit; the connection that
  listens, and the chains of `reconnect()` that overlap when it is lost twice.
* **`Gateway`** - extends it with the sockets: `dispatch` hands over one event after another and
  starts a query per round event; queries see the row when they run, and answer in any
  order or fail. `shown` and `purse` are what a socket was last told; `excused` is history, the rounds
  a socket need not be up to date on and why.
* **`MC*`** - instances for TLC. **`*_proofs`** - theorems; those about `Leadership` are in
  `Opening_proofs`. **`Data_proofs`** - lemmas about the operators on data that several of them
  use: induction, least and greatest members, enumerations of a set, sums over a set, ranks and
  windows, what recursive functions compute.

### Correspondence with the code

| Code | Model |
|---|---|
| `openRoundIfDue` (engine 191-251) | `RoundBook!OpenRound`; `TickOpens`, `InsertRound` (the partial unique index is the arbiter) |
| `lockRound`, `startRound`, `resolveRound` (260-330) | atomic actions of the same names; `TickAdvances`/`CompareElapsed`, then `UpdateRound`, one update guarded on the status |
| `settleRound`, `voidRound` (339-471) | `SettleRound`, `VoidRound`; `LockBets`, `PostBets`, `CommitClose`, `AbortClose`, `LeaveRound` |
| `placeBet` (service 141-264) | `PlaceBet`; `BeginPlaceBet`, `AcceptRound`, `AcceptFunds`, `InsertBet`, `CommitPlaceBet` and the three refusals |
| `cashOut` (286-408) | `CashOut`; `BeginCashOut`, `AcceptCashOut`, `PriceCashOut`, `CommitCashOut` and two refusals |
| `postInTransaction` (ledger 64-122) | `PostAll`, `PostingRows`, `Missing`: the rows of one posting in account order, skipping those already locked |
| `refresh`, `logout`, `revokeFamily` | `BeginRefresh` ... `CommitRotation`, `DetectReuse`, `Logout`, `CommitRevocation`; `Revoke` takes the rows the UPDATE found (`victims`) in any order |
| `safeTick`, `tryAcquire`, `release` | `SafeTick`/`RunTick`, `TryAcquire`, `Close`/`Release` |
| `openRoundIfDue` (191-251), `peekNextNonce` (253-258) | in `Opening`: `FindNone`, `PassGame`, `PeekNextNonce`, `InsertRound`, `InsertLoses`, `TickThrows` |
| `drawOutcome`, `chainFor`, `createChain` (hash chain provider 43-132) | `IndexOf`, `FindChain` with `ChainBelow` and `Covers`, `CreateChain` |
| `register` (auth) with `create` (users) and `createWallet` (ledger) | in `Ledger`: `BeginRegister`, `InsertUser`, `RefuseRegistered`, `GrantCredits`; the index entry of the e-mail is a row to lock |
| `postInTransaction`, `lockAndAssertSufficient` | in `Ledger`: `Post`, `Commit`; `BeginStake`, `RefuseInsufficientFunds`, `PostStake`, `PostClosing` |
| `getHistory` (ledger), `listUsers` (admin) | `BeginHistory`/`GetHistory` with `RowsAfterCursor` (one row more than the page tells whether there is more), `BeginListing`/`ListUsers` with `RowsAtOffset`; `Page` is the client's side of both |
| the overview's figures, the health indicator | `GlobalSum`, `BalanceDrift`, `CreditsInCirculation` |
| `publish`, `startListening` and its error handler, `reconnect`, `onModuleDestroy` (event bus) | `Deliver`, `StartListening`/`Listen`, `HandleError`, `ForgetListener` ... `Retry`, `Shutdown` |
| `handleConnection`, `sendCurrentState`, `dispatch` (gateway) | `HandleConnection`/`QueryCurrent`, `Dispatch`, `QueryRound`, `Emit`, and `FailRead` for a query that throws |
| `crash-curve.ts`, `roulette.ts`, `fairness.ts`, `chain.ts` | the operators of the same names in `Rules` |

Abstractions: in `Tables` and what builds on it the crash curve, the odds, the pockets a selection covers and the
crash points that may be drawn are constants with assumptions (the curve is
monotonic and starts at 1.00x or above); wall-clock time is the age of a round in
ticks, which passes nondeterministically; whether the betting window is over is
left open, so a tick may lock a round at any time; ids, hashes and formatting are
model values. A journal keeps whole ledger transactions, one amount per account,
so that a transaction of the model balances by its shape
(`wallet + escrow + house = 0` is proved of the closing ones); `Ledger` posts leg by leg.
In `Rules` hashing is a function that does not lead back to where it began within the length of a
chain (`NoShortCycle`), and the entropy of a hash a number.
`EventBus` knows a balance by how often it has changed, and a round by its status; a
notification is delivered in the order of commits to each connection that listens, as
Postgres has it, and is lost with the connection.

## 3. Runs

| Run | Configuration | What it shows |
|---|---|---|
| `roundbook` | 1 user, 2 keys, stakes 1 and 2, 2 rounds, 3 ticks, crash points 1.00x/1.40x/2.00x, 2 pockets | books match bets, no stake stranded in a closed round, verdicts follow the outcome, bets frozen once betting is closed, verdicts final; and, at its initial state, of `Rules`: the search finds the first tick that shows a multiplier, cutting a stake up gains nothing, no cash-out target beats the house, all roulette bets have one edge, the cuts cover the wheel, a seed proves its position and no other |
| `betting_safety` | 2 clients, 2 engines, 2 keys, stakes 1 and 2, funds 2, 1 round, 2 ticks of clock; any worker may be lost at any statement | the balance check is never stale at the commit, escrow holds exactly the open stakes, and all of it, wait cycles, their victims and two engines at once included, implements `RoundBook`; a running round found past its end and the grace is voided, never resolved |
| `betting_liveness` | 1 client that may be lost, 1 engine, 2 keys, 2 rounds, 1 tick of clock, crash point 1.00x | every request ends, every round opened is settled or voided |
| `sessions` | 2 requests, 1 account, 3 tokens, expiry and suspension | rotation is linear, dead families stay dead, a reuse revokes all that had been issued to the login when it was detected, requests end |
| `opening` | 2 processes that start, tick, throw, close, die and lose their sessions; chains of 2, 4 nonces | ticks overlap only around a shutdown or a session cut by the server; even then no nonce lies in two chains, and positions follow nonces, so that no seed is drawn twice |
| `ledger` | 2 e-mails, 2 requests, stakes 1 and 2, profits 0 and 1, pages of 1 row, 2 users, 2 bets each, 8 entries | the health check never raises a false alarm; one account per e-mail, with its grant; running balances never dip below zero; a statement walked page by page misses nothing that was there when the walk began; the list of players skips nobody |
| `gateway` | 1 socket, a running and an unopened round, 2 connections, 2 reconnect chains, 2 changes, 2 losses, 2 queries in flight that may fail | nothing is told that was rolled back or is secret; what is told goes back in two named cases only; once the news of a round is through, connected sockets are up to date, save those whose event was lost or never published, or whose query failed or was overtaken; the process ends up listening |
| `betting_waitcycle` | 2 clients, 1 engine, stake 1, funds 2 | **violated**: wait cycles form |
| `betting_replay` | one key, two clients | **violated**: a replay is refused |
| `sessions_slip` | as `sessions` | **violated**: a token outlives its family's revocation |
| `leadership_wedge` | 2 processes | **violated**: two followers and no leader |
| `opening_nonce` | as `opening` | **violated**: the row's nonce is the one its outcome was derived from |

**Bounds** (each a constant named in its module): in `roundbook`, `MaxRounds = 2` is enough for a
round that follows another of the same game and for one live round of each game at
once; `MaxAge` covers the curve past the crash point and past the grace, so
resolving in time, resolving late and voiding all happen. Two bets of one user
share a wallet, two users would only share ESCROW, which all bets share anyway; two
clients and two engines give every pair of transactions that can meet, and one round is all
that transactions on one pair of bets need (rounds that follow each other are in
`betting_liveness` and `roundbook`; that any number of them implements `RoundBook` is proved).
Who may be lost with its process is the constant `Mortal`: everybody in `betting_safety`, the
client in `betting_liveness`. That run has one client for a reason: bets share
the lock on their round, Postgres lets a new one join while the engine waits to lock it, and two
clients whose requests overlap for ever keep a round from closing (TLC finds that with `TwoClients`).
Its crash rounds bust at 1.00x (`InstantCrash`), so that a round is due from its start and
overdue after the one tick of clock the run has: it closes by being resolved and settled or, found too
late, by being voided. Nobody can cash out of such a round; cash-outs that succeed are in `betting_safety`, whose
clock goes past the crash point and past the grace.
Ages stop at `MaxAge`: a round that old stays as due, and as
overdue, as it is.

`MaxTokens = 3` gives a family two rotations, or a revocation of a spent and a live token.
`ChainLength = 2` and `MaxNonce = 4` give two full chains, so that the step from one chain to
the next is taken, and room for two inserts that fail. In `ledger` eight entries are two
registrations and two postings of bets, which is what it takes for entries to commit out of
the order of their ids between two pages of one row; profits 0 and 1 are the payout without a house
leg and the one with it. In `gateway` two changes are enough for one to overtake
the other on its way to the socket, two connections and chains for one to
cut the other's attempt short, and two losses for the second to strike during the
recovery from the first. Two queries in flight are what it takes for one to overtake the
other, or to fail while the other is answered. `Rules` is checked at a growth of 3/2 per tick over 8 ticks (TLC's
integers have 32 bits; the code grows by 101/100 per tick of 100 ms, over 694 ticks), a divisor of 5 for instant crashes, 64
values of entropy, and chains of 5 over 11 hashes; every wheel pocket and every selection
is real.

`RoundBook`, `Ledger` and `Gateway` may stop when everything they are allowed has happened, so
their runs do not check for deadlock; in the others a request can always begin, or a
process start, tick or end.

**Symmetry** is used over clients, engines, keys, processes, e-mails and requests, and only in runs
that check no liveness.

**Fairness.** `Betting!FairSpec`, `Sessions!FairSpec`: a statement sent to Postgres is
answered (weak fairness of serving and of the tick's next step); a lock that is free
again and again is granted, since Postgres queues its waiters (strong fairness); a
wait cycle is found, after `deadlock_timeout` (weak fairness of *some* abort, so that the
victim may be any member); the timer fires and looks at each game (strong); the clock
moves on. No client is obliged to send anything, nobody has to die, and `Lose` is
unfair. Engines are not lost in the liveness runs: a dead engine that is never
replaced keeps no promise, which is `Leadership`'s subject. `Leadership!FairSpec`, which only the `leadership_wedge`
counterexample needs: processes are restarted, the timer fires, the server finds a dead
session in the end - and there is still no leader. `Gateway!FairSpec`: the timer of a waiting
`reconnect()` fires and a connection that was asked for is made or refused (weak); per
chain, an attempt that is made again and again succeeds once (strong): two chains can end
each other's connecting client, but they start seconds apart and an attempt takes
milliseconds, and the server refuses only `MaxLosses` times. Nobody has to connect,
publish or query.

## 4. Where code and comments disagree

1. `betting_waitcycle` - `src/ledger/ledger.service.ts:93-95` says sorting makes wait
   cycles impossible. The sort covers one posting; `placeBet` holds its wallet before it
   posts to ESCROW. Postgres breaks the cycle and the victim's request fails.
   `betting_safety` and `betting_liveness` show that nothing worse happens.
2. `betting_replay` - `src/rounds/rounds.service.ts:160` says a replay returns the original
   result. A concurrent replay that passed the first look-up is refused for lack of
   funds, or because the round has moved on, although its bet is in the table.
3. `sessions_slip` - `src/auth/auth.service.ts:200-202` says no refresh can slip between
   detection and revocation. The lock is on the reused token; a rotation of the live
   one commits a child the revoking UPDATE does not see. A family *all* of whose tokens
   are revoked does stay dead (`DeadFamiliesStayDead`).
4. `leadership_wedge` - `src/rounds/leader-election.service.ts:14-16` says a crashed leader does
   not wedge the system. The lock is released, but nobody asks for it again.
5. `opening_nonce` - `src/rounds/fairness.service.ts:61` tells a player that the outcome's hash
   is keyed with the round's nonce. The engine derives it for `MAX(nonce) + 1` before the
   insert, and the row takes its nonce from a sequence, which gives nothing back: the
   round after a failed insert carries a higher nonce than its hash does.

Met on the way and not worth a run of their own: `rounds.gateway.ts:113-116` answers a
newcomer with the current state, but of one table only, the newest live round of either game, as does the
heartbeat (196-205); `rounds.gateway.ts:191-193` logs a query that failed and drops the event, so that everyone stays
behind until the round next moves (`FailRead`); `fairness.service.ts:60-66` leaves out of its description of the algorithm
the cap at `MAX_MULTIPLIER`; `admin.service.ts:119` counts as exposure of a round all its
bets, those already cashed out included; the total of `listUsers` is of all players, whatever was
searched for, and its comment (156-158) calls offset paging fine although a registration shifts
the pages: a player is listed twice then, though none is skipped (`ListingSkipsNobody`). `bet-view.mapper.ts:22` takes a bet to be on a
crash round unless told otherwise, and replays, histories and `bet.settled` do not tell it.

## 5. Theorems

Every safety property of every passing run is a theorem, for every
value of the constants that satisfies the `ASSUME`s of the modules. These say no more than the code
does: stakes and the grant are positive, the curve does not fall, user ids are not the names of the
system accounts (`AccountsAssumption`), there is entropy enough for every pocket
(`EntropyAssumption`; the code has 2^52 values for 37), no e-mail is the mark of a missing row, process
names are not the marks of a free or a dead lock, bounds are numbers. Two are abstractions:
odds and the pockets a selection covers are functions of the selection, hashing one of the hash.
One is trust in SHA-256, which no code can justify: `NoShortCycle`. Only `SeedsAreProofs` uses it,
for "and at no other position".

The proofs share one shape. A property that holds because of *locks* is not inductive; the
invariant says that no two transactions hold conflicting locks (`LocksExclude`) and, for each
transaction, what it found under its locks and may rely on where it stands (`Standing`). A
step of one transaction then either leaves the rows another relies on alone, or holds a lock
that the other's excludes. A property about *time*, such as an event under way or a page not read
yet, needs the invariant to say where what is missing still is.

`RoundBook_proofs`, for all users, keys, stakes, curves, odds and numbers of rounds that
satisfy the assumptions of `Tables`:

* `TypeCorrect`, `BooksAlwaysMatch`, `ClosedRoundsAreEmpty`, `VerdictsAlwaysFollow`: the
  four invariants of the `roundbook` run;
* `VerdictsNeverChange`, `BetsNeverJoinLate`: its two action properties.

None of the invariants but the type invariant is inductive alone. The argument rests
on two facts about steps: `RoundStep` (a step never rewrites a round's game or outcome,
never turns back its clock, and leaves a closed round as it is) and `BetStep` (a step
leaves a bet alone, places it on an OPEN round, or closes it with one transaction and a
verdict its round justifies). The inductive invariant `Inv` is the conjunction of the
four invariants and `BetsFitTheirRound` (a bet's selection fits its round's game, and a
bet that is not ACTIVE sits on a round that has started), which is what ties a crash
verdict to a crash round. `InvStep` proves it from one lemma per conjunct.

`Betting_proofs`, for any number of users, keys, clients, engines and rounds, whoever may be
lost: `TypeCorrect`, `NobodyOverdraws`, `EscrowIsExact`, `LateRoundsAreNeverResolved`,
`TransactionsImplementBook`.

* `Standing(p)` is `Placing` (the share lock keeps the round OPEN, the wallet's lock keeps the
  balance up, the entry of the unique index keeps the key unused), `CashingOut` (the bet's lock
  keeps it ACTIVE, and so keeps the round from being closed, although the round itself is
  read without a lock), `Opening` and `Advancing` (nothing is locked; the guard of the final
  statement has to do) and `Closing` (the round's lock keeps bets from joining; when the last of the
  scanned bets is locked, those still ACTIVE are exactly the round's).
* Escrow is a sum over the bets in play. It is shown to follow each commit by `Data_proofs`'
  lemmas on what a sum gains and loses with a member; that there are finitely many such
  bets is part of the invariant, not of the constants.
* A late round is not resolved, unless an engine had set out to while there was time (the statement may
  come late, as in the code, which compares the clock and then updates); for only `CompareElapsed` sets out to resolve a round, and only
  in time (`Turning`), and every other write to the row of a late one leaves it as it is, lets it age
  or voids it (`LateRow`): a settlement decided on earlier would need the row RESOLVED, an
  insert needs it absent.
* The refinement goes step by step: each commit is the operation of `RoundBook` that its request
  asked for, with the guard of that operation read off `Standing`; every other statement,
  victims and lost processes included, leaves the book alone. Two engines that both found a round
  due make one step of it: the second finds the round closed when it gets the lock.

`Ledger_proofs`, for any number of e-mails, requests, users, bets and entries, any grant and any
page size: `TypeCorrect`, `BooksAreHealthy`, `OneAccountOneGrant`, `WalletsNeverDip`,
`HistoryShowsAll`, `ListingShowsAll` - every property of the `ledger` run.

* `Books` says of what has committed that it sums to zero, that the cached balances are the sums of
  the entries, that ESCROW is what is staked on open bets - without which a closing could
  take it below zero - and that each user has one grant.
* Statements are read in the order of ids, which are drawn before the commit. That a prefix of one
  never dips (`UpTo`, for *every* id and not only those in the table) is inductive only with what a
  staking transaction may rely on: it draws its ids after it has locked the wallet, so all
  entries of the wallet are below them, and it takes away no more than the balance, which is
  the sum of them all. A payment draws its ids before it has that lock, but only adds.
* `Apart` keeps two transactions from registering one row, drawing one id and staking one bet.
* `Reading` says where what the client was not shown is: below the cursor, or, since
  the list of players only grows at its front, at a rank not below the offset. It uses of the
  rest of the system only that entries are not deleted and users not forgotten.

`Opening_proofs`, for any number of processes and nonces and any length of the chains.

* About the election: `TypeCorrect`, `OneEngineAtATime`, `TicksAlwaysStartUnderTheLock`, from the
  invariant that a running timer means the lock or a cut session, and that a tick in
  flight means a timer or a stop. `OpeningImplementsLeadership` (step by step: whatever a tick does
  to the rounds is a step of the election or a stutter) carries this over (`OneEngineOpens`).
* `OpeningTypeCorrect`, `ChainsNeverOverlap`, `PositionsAlwaysAdvance`: nothing is locked here
  and two engines may be at it at once, so a process may hold a *stale draft*: the nonce it looked up
  may have been used since, the chain it missed may be there by now. `DraftHolds` says why
  that does no harm: a draft's nonce is at most one above the newest row's, a lower one has a row that was drawn for
  it - so its insert must fail - and a process about to create a chain has seen no chain
  above its nonce and none that covers it. `RowHolds` says that a row lies in a chain, at the
  position of the nonce it was drawn for, and that later rows were drawn for later nonces;
  of the sequence it needs only that it never goes back. Positions that advance are never used
  twice, so neither is a seed.

`Sessions_proofs`, for any number of accounts, requests at once and tokens: `TypeCorrect`,
`RotationIsLinear`, `RevocationIsFinal`, `ReuseIsAlwaysPunished` - every safety property of the
`sessions` run. That two refreshes of one token do not both go through is not inductive: it
holds because of the row lock. The invariant therefore says that a lock has one holder
(`LocksExclude`), and per request what it holds where it stands (`Standing`): one that has
found its token unspent holds that token's row, so the token is still unspent when the child is
inserted; one that is revoking holds, or still asks for, the row of every victim. What
`ReuseIsPunished` promises is measured against the history variable `issued`, the tokens there were when
the reuse was detected, and not against the rows the UPDATE chose: `ListsInv` says that of the tokens
of the family noted there, each is revoked already or among the victims. Tokens that a rotation under way issues
later are not covered - `sessions_slip` shows that they escape - and neither is a revocation that Postgres
rolls back as a deadlock victim. The proofs rest
on `SeqsCover` (of `Data_proofs`): an enumeration of a finite set misses no member, so no
lock is forgotten whatever the order in which they are asked for.

`Gateway_proofs`, for any number of sockets, rounds, connections and reconnect chains, and
whatever is lost: `NothingIsAnnouncedEarly` (`NewsIsTrue`) and `NewsComesInOrder`
(`NewsInOrder`). `Behind(s, t)` says that a round seen in status `s` may be in `t` by now; it is
transitive, and every move of a round goes ahead in it. The invariant follows a status from
the row (`UpdatesAreMoves`) through the answer of a query (`AnswersAreTrue`) to the socket
(`ShownIsTrue`), and says of an answer that was not overtaken that no socket has been told
more. For balances it says that only a listening connection has notifications on their way
and that, until the process has listened twice at once, there is one such connection
(`OneInbox`), whose balances are in order and not older than what any socket was told.
`TypeCorrect` is theirs too, and needs that a reconnect chain that is connecting does so on a
connection that is there (`ChainsInv`). `SocketsCatchUp` rests on `NewsInv`: an online socket that
is not excused from a round *knows* how it stands (`Knows`), or the news is *coming* (`Coming`): an
event in an inbox, a query for everyone that was not asked yet or has seen the round as it
is now, or one that was overtaken and will excuse whom it tells. A query that fails tells nobody, and
excuses those who were to be told (`FailReadKeeps`). When nothing is on the way, what is left is
knowing.

`Data_proofs` proves what the others use of finite data, by induction over a finite set without
the library's induction theorems, which take an operator: a set of counterexamples has a
member of least cardinality (`LeastMember`, `SubsetInduction`, from the theorem about
well-founded relations that is first-order). From it come the sums: empty, with a member more,
with a member less, of two functions, never negative; and of paging: of two rows the lesser
ranks lower, and a window of ranks is full whenever somebody ranks below it.

`Rules_proofs`, for any growth above 1, any length of the curve and of the chain, any number of
hashes and any divisor for instant busts - so for the code's own numbers, which are beyond TLC:

* `CurveRises`: the curve starts at 1.00x and never falls, although each tick is floored
  by itself: a fraction whose numerator grows at least as its denominator does has a floor that
  does not drop (`FloorRises`). This is what `Tables` assumes of its `Curve`.
* `TableSearchesRight`: a round is resolved from the very millisecond on from which cash-outs are
  refused. The invariant of the binary search is that the first tick that shows the multiplier lies
  between its bounds (`SearchClosesIn`, `SearchEndsOnFirst`); the search ends because its bounds
  move together, and so ends on that tick (`SearchFindsFirst`); what is left is that a tick has
  begun when its milliseconds are over (`TickBegins`).
* `CuttingNeverPays`: a stake cut in two is never paid more, and at most a minor unit less: hardly
  a reason to cut it.
* `CrashKeepsEdge`: whatever multiplier a player waits for, of E hashes at most 99E/m leave a crash
  point above m (`RareMultipliers`, `CrashPointOfHash`), and one roll of `BustDivisor` leaves
  none: what comes back is counted as the size of a product (`FewWin`, `HouseKeepsItsShare`).
* `RouletteKeepsEdge`, `TableIsRight`: what each selection wins on is spelled out
  (`WinningPockets`) and counted by numbering it (`HowManyWin`); odds times pockets make 36
  for all of them. That zero is nowhere in the cuts is where the house's share is.
* `SeedsAreProofs`: hashing on from where hashing has got to is hashing further (`HashingGoesOn`),
  so a seed leads to the genesis hash in as many steps as its position says; that fewer or
  more steps do not is `NoShortCycle`.

A recursive function is a `CHOOSE` of one that satisfies its equation. That there is one, which is
what unfolding it takes, is an induction of its own: over the steps for `Iterate`
(`IterationExists`), over the distance of the bounds for `Search` (`LoopExists`), both in `Data_proofs`.

Model-checked only: liveness and everything under fairness, which is out of the prover's reach:
`RequestsEnd` (of `Betting` and of `Sessions`), `RoundsClose`, `ListenerSettles`.

## 6. Plan

In the order of what matters most to the system:

1. done - `Tables`, `RoundBook`, its proofs; `Betting` and its refinement.
2. done - `RowLocks`, `Sessions`, `Leadership`.
3. done - **Fairness chain** (`Opening`): chain positions and nonces, and its proofs.
4. done - **Game rules** (`Money`, `Rules`) and their proofs: payouts, curve and search, the edges of
   both games, the table, the chain.
5. done - **Events** (`EventBus`, `Gateway`) and the proofs that news is true and in order.
6. done - **Ledger** (`Ledger`): registration, postings, paging, reconciliation.
7. done - `Sessions`' proofs.
8. done - the proofs of `Betting` and its refinement of `RoundBook`, of `Ledger`, of `Opening`'s chains
   and of the sockets that catch up.
9. The gateway's heartbeat, and connections that the bus opens after it was shut down.

## 7. Not modelled, and why

* Access tokens and password hashing keep no shared state.
* The lists of the dashboard, throttling, DTO validation, error filters, configuration: reads and
  checks of single requests.
* Of the gateway: the heartbeat, which repeats a round's time every two seconds and tells
  nothing new of its status; the ping; the feed of bets, which takes the path of
  `wallet.updated` and carries its own data. A socket's room is left out: the sockets of the model
  all belong to the watching player, and rounds go to everyone.
* Of the event bus: a connection that is opened after `onModuleDestroy` and never
  closed. `EventBus` has the behaviour (nothing in `reconnect` looks at `closing` again after its
  pause), no property is about it.
* Every loss of a connection in `EventBus` is one the error handler hears of. A connection that is dead
  without an error (half open) is not modelled: nothing in the code would notice it, and
  `ListenerSettles` does not speak of it.
* In `Sessions` a request is not lost half way; a lost one is rolled back and looks
  like a deadlock victim. The account's status is toggled by hand in the database.
* `main.ts` does not enable shutdown hooks, so `Close` in `Leadership` and `Shutdown` in
  `EventBus` stand for an explicit `app.close()`; a signal simply kills the process (`Die`).
* Of the fairness chain: the HMAC of seed and nonce, and what the seeds
  already revealed say about the others. Crash and roulette rounds draw from one chain,
  and a seed is revealed when its round is over, so seeds are revealed in the order in
  which rounds end, which need not be the order of the chain.
* In `Ledger` the reader's pages are separate statements, as in the code; a page itself is read at
  once. A transaction's entries and its change of the balances are applied in one step, its commit, so
  a health check in between is excluded by how Postgres commits, not by the code; players are listed
  in a total order, so ties of `created_at` are left out.
  Ids of entries beyond `MaxEntries` and the suspension of a player are too.
* Seed scripts and load tests are tools around the service.
