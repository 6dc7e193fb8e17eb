------------------------------- MODULE Ledger -------------------------------
(***************************************************************************)
(* The double-entry ledger and those who read it while it is written.      *)
(* Requests register accounts, stake credits and close bets, each in a     *)
(* transaction that draws the ids of its entries from a sequence, waits    *)
(* for the balances rows in account order, and becomes visible at once     *)
(* when it commits.  A reader walks through a wallet's statement page by   *)
(* page (getHistory) or through the list of players (listUsers).           *)
(*                                                                         *)
(* Rounds, odds and idempotency keys are left to Betting; here a bet is    *)
(* only what its postings are about.                                       *)
(***************************************************************************)
EXTENDS Integers, SequencesExt

CONSTANTS
  Emails,      \* addresses people register with
  Requests,    \* requests that can be in flight at once
  Grant,       \* SIGNUP_GRANT_MINOR
  Stakes,      \* stakes a bet may have
  Profits,     \* what a returned stake may bring on top of it
  PageSize,    \* rows of a page
  MaxUsers,    \* bound: registrations begun
  MaxBets,     \* bound: bets of one user
  MaxEntries   \* bound: ids drawn for entries

NoUser == "no such row"

ASSUME LedgerAssumption ==
  /\ NoUser \notin Emails
  /\ Grant \in Nat \ {0}
  /\ Stakes \subseteq Nat \ {0}
  /\ Profits \subseteq Nat
  /\ PageSize \in Nat \ {0}
  /\ MaxUsers \in Nat
  /\ MaxBets \in Nat
  /\ MaxEntries \in Nat

VARIABLES
  users,     \* the e-mail of each users row
  bets,      \* status and stake of each bets row
  entries,   \* the entries table
  balance,   \* the balances table
  lastId,    \* entries_id_seq; what it gave out it never takes back
  trx,       \* the transaction of each request
  reader     \* the walk of a client through a paged view

tables == <<users, bets, entries, balance, lastId>>
vars == <<users, bets, entries, balance, lastId, trx, reader>>

Workers == Requests
INSTANCE RowLocks

UserIds == 1..MaxUsers    \* in order of created_at, the start of the transaction
BetIds == UserIds \X (1..MaxBets)
Owner(b) == b[1]

NoBet == [status |-> "NONE", stake |-> 0]
Bet == [status : {"ACTIVE", "CLOSED"}, stake : Stakes]
Active(stake) == [status |-> "ACTIVE", stake |-> stake]
Registered == {u \in UserIds : users[u] # NoUser}

\* SYSTEM_ACCOUNTS have fixed ids that sort before those of all wallets.
MINT == 1
ESCROW == 2
HOUSE == 3
Wallet(u) == 3 + u
Accounts == 1..(3 + MaxUsers)

KeyEntry(email) == <<"email", email>>      \* the index entry of users_email_key
BetRow(b) == <<"bet", b>>
BalanceRow(a) == <<"balance", a>>

-----------------------------------------------------------------------------
(* postings *)

Leg(account, amount) == [account |-> account, amount |-> amount]

GrantLegs(u) == <<Leg(MINT, -Grant), Leg(Wallet(u), Grant)>>
StakeLegs(u, stake) == <<Leg(Wallet(u), -stake), Leg(ESCROW, stake)>>
LossLegs(stake) == <<Leg(ESCROW, -stake), Leg(HOUSE, stake)>>
\* A refund or a cash-out at 1.00x brings no profit.
ReturnLegs(u, stake, profit) ==
  IF profit > 0
    THEN <<Leg(ESCROW, -stake), Leg(Wallet(u), stake),
           Leg(HOUSE, -profit), Leg(Wallet(u), profit)>>
    ELSE <<Leg(ESCROW, -stake), Leg(Wallet(u), stake)>>

On(legs, account) == {i \in DOMAIN legs : legs[i].account = account}

Total(legs, account) ==
  SumFunctionOnSet([i \in DOMAIN legs |-> legs[i].amount], On(legs, account))

\* Mutation of Applied: the deltas are collected in a map keyed by account.
AppliedOnce(legs) ==
  [a \in Accounts |->
     balance[a] + IF On(legs, a) = {} THEN 0 ELSE legs[Max(On(legs, a))].amount]

Applied(legs) == [a \in Accounts |-> balance[a] + Total(legs, a)]

\* The one enumeration of a set of numbers in this order, as a set.
Ascending(S) == {s \in SetToSeqs(S) : \A i, j \in DOMAIN s : i < j => s[i] < s[j]}
Descending(S) == {s \in SetToSeqs(S) : \A i, j \in DOMAIN s : i < j => s[i] > s[j]}

\* The balances rows of a posting that p does not hold yet, in account order.
BalanceRows(p, legs) ==
  LET missing == {a \in Accounts : /\ On(legs, a) # {}
                                   /\ Exclusive(BalanceRow(a)) \notin trx[p].held}
  IN {[i \in DOMAIN order |-> Exclusive(BalanceRow(order[i]))] : order \in Ascending(missing)}

Idle == [pc |-> "idle", email |-> NoUser, user |-> 0, bet |-> <<>>, row |-> NoBet,
         kind |-> "none", legs |-> <<>>, first |-> 0, need |-> <<>>, held |-> {}]

End(p) == trx' = [trx EXCEPT ![p] = Idle]

\* post: the entries are inserted, and draw their ids, before the balances
\* rows are asked for.
Post(p, kind, legs, row) ==
  /\ lastId + Len(legs) =< MaxEntries
  /\ lastId' = lastId + Len(legs)
  /\ \E rows \in BalanceRows(p, legs) :
       trx' = [trx EXCEPT ![p].pc = "post", ![p].kind = kind, ![p].legs = legs,
                          ![p].row = row, ![p].first = lastId + 1, ![p].need = rows]

Inserted(t) ==
  {[id |-> t.first + i - 1, account |-> t.legs[i].account,
    amount |-> t.legs[i].amount, kind |-> t.kind] : i \in DOMAIN t.legs}

Commit(p) ==
  LET t == trx[p]
  IN /\ Ready(p, "post")
     /\ entries' = entries \cup Inserted(t)
     /\ balance' = Applied(t.legs)
     /\ users' = IF t.kind = "SIGNUP_GRANT" THEN [users EXCEPT ![t.user] = t.email] ELSE users
     /\ bets' = IF t.kind = "SIGNUP_GRANT" THEN bets ELSE [bets EXCEPT ![t.bet] = t.row]
     /\ End(p)
     /\ UNCHANGED <<lastId, reader>>

AcquireLock(p) == Granted(p) /\ UNCHANGED <<tables, reader>>

AbortDeadlock(p) ==
  /\ trx[p].need # <<>>
  /\ InWaitCycle(p)
  /\ End(p)
  /\ UNCHANGED <<tables, reader>>

Lose(p) ==
  /\ trx[p].pc # "idle"
  /\ End(p)
  /\ UNCHANGED <<tables, reader>>

-----------------------------------------------------------------------------
(* register *)

\* findByEmail finds nobody; the password is hashed with no transaction open.
BeginRegister(p, email) ==
  /\ trx[p].pc = "idle"
  /\ \A u \in Registered : users[u] # email
  /\ trx' = [trx EXCEPT ![p] = [Idle EXCEPT !.pc = "hashed", !.email = email]]
  /\ UNCHANGED <<tables, reader>>

Begun == {trx[p].user : p \in Requests} \cup Registered

\* Mutation of InsertUser: nothing but the look-up keeps e-mails apart.
InsertUserUnique(p) ==
  /\ Ready(p, "hashed")
  /\ \E u \in UserIds :
       /\ \A v \in Begun : v < u
       /\ trx' = [trx EXCEPT ![p].pc = "user", ![p].user = u]
  /\ UNCHANGED <<tables, reader>>

\* The transaction begins and its first statement inserts the users row, which
\* waits for whoever holds the index entry of the same e-mail.
InsertUser(p) ==
  /\ Ready(p, "hashed")
  /\ \E u \in UserIds :
       /\ \A v \in Begun : v < u
       /\ trx' = [trx EXCEPT ![p].pc = "user", ![p].user = u,
                             ![p].need = <<Exclusive(KeyEntry(trx[p].email))>>]
  /\ UNCHANGED <<tables, reader>>

\* A violation of users_email_key reads as "already registered".
RefuseRegistered(p) ==
  /\ Ready(p, "user")
  /\ \E u \in Registered : users[u] = trx[p].email
  /\ End(p)
  /\ UNCHANGED <<tables, reader>>

\* createWallet, then the grant; the refresh token comes last.
GrantCredits(p) ==
  /\ Ready(p, "user")
  /\ \A u \in Registered : users[u] # trx[p].email
  /\ Post(p, "SIGNUP_GRANT", GrantLegs(trx[p].user), NoBet)
  /\ UNCHANGED <<users, bets, entries, balance, reader>>

-----------------------------------------------------------------------------
(* bets *)

\* Mutation of BeginStake: the balance is read without FOR UPDATE.
BeginStakeUnlocked(p, b, stake) ==
  /\ trx[p].pc = "idle"
  /\ Owner(b) \in Registered
  /\ bets[b] = NoBet
  /\ \A q \in Requests : trx[q].bet # b
  /\ trx' = [trx EXCEPT ![p] = [Idle EXCEPT !.pc = "funds", !.bet = b,
                                            !.row = Active(stake)]]
  /\ UNCHANGED <<tables, reader>>

\* lockBalanceForUpdate: the wallet is locked before its balance is read.
BeginStake(p, b, stake) ==
  /\ trx[p].pc = "idle"
  /\ Owner(b) \in Registered
  /\ bets[b] = NoBet
  /\ \A q \in Requests : trx[q].bet # b
  /\ trx' = [trx EXCEPT ![p] =
               [Idle EXCEPT !.pc = "funds", !.bet = b, !.row = Active(stake),
                            !.need = <<Exclusive(BalanceRow(Wallet(Owner(b))))>>]]
  /\ UNCHANGED <<tables, reader>>

\* lockAndAssertSufficient.
RefuseInsufficientFunds(p) ==
  /\ Ready(p, "funds")
  /\ balance[Wallet(Owner(trx[p].bet))] < trx[p].row.stake
  /\ End(p)
  /\ UNCHANGED <<tables, reader>>

PostStake(p) ==
  /\ Ready(p, "funds")
  /\ balance[Wallet(Owner(trx[p].bet))] >= trx[p].row.stake
  /\ Post(p, "BET_PLACED", StakeLegs(Owner(trx[p].bet), trx[p].row.stake), trx[p].row)
  /\ UNCHANGED <<users, bets, entries, balance, reader>>

\* A cash-out, the settlement or the refund of a bet locks its row first.
BeginClose(p, b) ==
  /\ trx[p].pc = "idle"
  /\ bets[b] # NoBet
  /\ trx' = [trx EXCEPT ![p] = [Idle EXCEPT !.pc = "bet", !.bet = b,
                                            !.need = <<Exclusive(BetRow(b))>>]]
  /\ UNCHANGED <<tables, reader>>

RefuseClosed(p) ==
  /\ Ready(p, "bet")
  /\ bets[trx[p].bet].status # "ACTIVE"
  /\ End(p)
  /\ UNCHANGED <<tables, reader>>

PostClosing(p) ==
  LET b == trx[p].bet
      stake == bets[b].stake
      closed == [bets[b] EXCEPT !.status = "CLOSED"]
  IN /\ Ready(p, "bet")
     /\ bets[b].status = "ACTIVE"
     /\ \/ Post(p, "BET_LOST", LossLegs(stake), closed)
        \/ \E profit \in Profits :
             Post(p, "BET_CASHOUT", ReturnLegs(Owner(b), stake, profit), closed)
     /\ UNCHANGED <<users, bets, entries, balance, reader>>

-----------------------------------------------------------------------------
(* readers: each page is one statement and sees what has committed by then; *)
(* one walk is followed, as walks do not affect each other                  *)

NoReader == [view |-> "none", account |-> 0, type |-> "any", start |-> {},
             shown |-> <<>>, cursor |-> 0, more |-> FALSE]

ReferenceTypes == {"any", "user", "bet"}
ReferenceType(entry) == IF entry.kind = "SIGNUP_GRANT" THEN "user" ELSE "bet"

Of(account) == {e \in entries : e.account = account}

\* Ids of the entries of an account.
Statement(account, type) ==
  {e.id : e \in {d \in Of(account) : type \in {"any", ReferenceType(d)}}}

\* The rows of a page, newest first: LIMIT PageSize OFFSET offset.
Page(rows, offset) ==
  {x \in rows : Cardinality({y \in rows : y > x}) \in offset..(offset + PageSize - 1)}

BeginHistory(u, type) ==
  /\ reader = NoReader
  /\ u \in Registered
  /\ reader' = [NoReader EXCEPT !.view = "history", !.account = Wallet(u),
                                !.type = type, !.cursor = MaxEntries + 1, !.more = TRUE,
                                !.start = Statement(Wallet(u), type)]
  /\ UNCHANGED <<tables, trx>>

\* Mutation of RowsAfterCursor: the cursor is an offset.
RowsAfterOffset ==
  LET rows == Statement(reader.account, reader.type)
  IN {id \in rows : Cardinality({newer \in rows : newer > id}) >= Len(reader.shown)}

RowsAfterCursor == {id \in Statement(reader.account, reader.type) : id < reader.cursor}

\* getHistory reads one row more than it returns, to know whether to go on.
GetHistory ==
  LET more == Cardinality(RowsAfterCursor) > PageSize
  IN /\ reader.view = "history"
     /\ reader.more
     /\ \E page \in Descending(Page(RowsAfterCursor, 0)) :
          reader' = [reader EXCEPT !.shown = @ \o page, !.more = more,
                                   !.cursor = IF more THEN Last(page) ELSE @]
     /\ UNCHANGED <<tables, trx>>

BeginListing ==
  /\ reader = NoReader
  /\ reader' = [NoReader EXCEPT !.view = "users", !.more = TRUE, !.start = Registered]
  /\ UNCHANGED <<tables, trx>>

\* Mutation of RowsAtOffset: an offset that counts from one.
RowsPastOffset == Page(Registered, reader.cursor + 1)

\* Players by created_at, newest first.
RowsAtOffset == Page(Registered, reader.cursor)

\* listUsers; the caller asks for the next offset until a page is not full.
ListUsers ==
  /\ reader.view = "users"
  /\ reader.more
  /\ \E page \in Descending(RowsAtOffset) :
       reader' = [reader EXCEPT !.shown = @ \o page, !.cursor = @ + PageSize,
                                !.more = Len(page) = PageSize]
  /\ UNCHANGED <<tables, trx>>

-----------------------------------------------------------------------------
(* the figures of the overview and of the health check *)

Sum(rows) == SumFunction([e \in rows |-> e.amount])

GlobalSum == Sum(entries)
BalanceDrift == {a \in Accounts : balance[a] # Sum(Of(a))}
CreditsInCirculation == -balance[MINT]

-----------------------------------------------------------------------------

Init ==
  /\ users = [u \in UserIds |-> NoUser]
  /\ bets = [b \in BetIds |-> NoBet]
  /\ entries = {}
  /\ balance = [a \in Accounts |-> 0]
  /\ lastId = 0
  /\ trx = [p \in Requests |-> Idle]
  /\ reader = NoReader

Register(p) ==
  \/ \E email \in Emails : BeginRegister(p, email)
  \/ InsertUser(p) \/ RefuseRegistered(p) \/ GrantCredits(p)

PlaceBet(p) ==
  \/ \E b \in BetIds, stake \in Stakes : BeginStake(p, b, stake)
  \/ RefuseInsufficientFunds(p) \/ PostStake(p)

CloseBet(p) ==
  \/ \E b \in BetIds : BeginClose(p, b)
  \/ RefuseClosed(p) \/ PostClosing(p)

Read ==
  \/ \E u \in UserIds, type \in ReferenceTypes : BeginHistory(u, type)
  \/ GetHistory
  \/ BeginListing
  \/ ListUsers

Next ==
  \/ \E p \in Requests :
       \/ Register(p) \/ PlaceBet(p) \/ CloseBet(p)
       \/ AcquireLock(p) \/ Commit(p) \/ AbortDeadlock(p) \/ Lose(p)
  \/ Read

Spec == Init /\ [][Next]_vars

-----------------------------------------------------------------------------
(* properties *)

Entry == [id : 1..MaxEntries, account : Accounts, amount : Int,
          kind : {"SIGNUP_GRANT", "BET_PLACED", "BET_LOST", "BET_CASHOUT"}]

TablesOK ==
  /\ users \in [UserIds -> Emails \cup {NoUser}]
  /\ bets \in [BetIds -> Bet \cup {NoBet}]
  /\ entries \subseteq Entry
  /\ balance \in [Accounts -> Int]
  /\ \A a \in Accounts \ {MINT, HOUSE} : balance[a] >= 0
  /\ lastId \in 0..MaxEntries

\* Every value has its type; the trigger that refuses a negative wallet or
\* escrow never has to.
TypeOK == TablesOK /\ reader.shown \in Seq(UserIds \cup 1..MaxEntries)

\* getOverview and the ledger's health check ask, in statements of their own
\* and at any moment, whether all postings sum to zero and whether each cached
\* balance is the sum of its entries: with transactions in flight and lost,
\* they never raise a false alarm.
AlwaysHealthy == GlobalSum = 0 /\ BalanceDrift = {}

\* However two sign-ups with one e-mail interleave with each other's commits
\* and failures, one account comes of it, with one grant; and every credit in
\* circulation is the grant of somebody.
RegisteredOnce ==
  /\ \A u, v \in Registered : users[u] = users[v] => u = v
  /\ \A u \in UserIds :
       Cardinality({e \in Of(Wallet(u)) : e.kind = "SIGNUP_GRANT"})
         = IF u \in Registered THEN 1 ELSE 0
  /\ CreditsInCirculation = Grant * Cardinality(Registered)

\* Entries draw their ids before they commit, so ids are not in commit order;
\* still, added up in id order, no statement of a wallet ever dips below zero.
StatementsNeverDip ==
  \A u \in UserIds : \A e \in Of(Wallet(u)) :
    Sum({d \in Of(Wallet(u)) : d.id =< e.id}) >= 0

\* A walk through a statement shows every entry that was there when it began,
\* newest first and none twice, whatever commits between its pages.
HistoryIsComplete ==
  reader.view = "history" =>
    /\ \A i, j \in DOMAIN reader.shown : i < j => reader.shown[i] > reader.shown[j]
    /\ ~ reader.more => reader.start \subseteq ToSet(reader.shown)

\* A walk through the players by offset may show one twice, but skips nobody
\* who was registered when it began.
ListingSkipsNobody ==
  (reader.view = "users" /\ ~ reader.more) => reader.start \subseteq ToSet(reader.shown)

=============================================================================
