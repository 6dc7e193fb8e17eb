---------------------------- MODULE Ledger_proofs ----------------------------
(***************************************************************************)
(* What holds of the ledger for any number of e-mails, requests, users,    *)
(* bets and entries, any grant and any page size.  The books: every        *)
(* posting balances, and the balances are the sums of the entries.  The    *)
(* accounts: what a transaction found under its locks still holds when it  *)
(* commits.  The readers: what a client has not been shown is still ahead  *)
(* of its cursor.                                                          *)
(***************************************************************************)
EXTENDS Ledger, Data_proofs

Fields == {"pc", "email", "user", "bet", "row", "kind", "legs", "first", "need", "held"}
Kinds == {"SIGNUP_GRANT", "BET_PLACED", "BET_LOST", "BET_CASHOUT"}
Closings == {"BET_LOST", "BET_CASHOUT"}

\* A transaction is a record with these fields.
Shape == DOMAIN trx = Requests /\ \A p \in Requests : DOMAIN trx[p] = Fields

\* No two transactions hold conflicting locks.
LocksExclude ==
  \A p, q \in Requests : p # q =>
    \A l \in trx[p].held, m \in trx[q].held : ~ Conflict(l, m)

\* p waits for this lock, or has it already.
Awaits(p, lock) ==
  \/ trx[p].need = <<lock>>
  \/ trx[p].need = <<>> /\ lock \in trx[p].held

Posts(p, kinds) == trx[p].pc = "post" /\ trx[p].kind \in kinds

\* The ids p has drawn for the entries it is about to commit.
Drawn(p) ==
  IF trx[p].pc = "post" THEN trx[p].first..(trx[p].first + Len(trx[p].legs) - 1) ELSE {}

\* register: the user is not there yet, and once the entry of the unique index
\* is p's and nobody has the e-mail, nobody gets it.
Registering(p) ==
  /\ (trx[p].pc \in {"hashed", "user"} \/ Posts(p, {"SIGNUP_GRANT"})) => trx[p].email \in Emails
  /\ (trx[p].pc = "user" \/ Posts(p, {"SIGNUP_GRANT"})) =>
       trx[p].user \in UserIds /\ users[trx[p].user] = NoUser
  /\ trx[p].pc = "user" => Awaits(p, Exclusive(KeyEntry(trx[p].email)))
  /\ Posts(p, {"SIGNUP_GRANT"}) =>
       /\ Exclusive(KeyEntry(trx[p].email)) \in trx[p].held
       /\ \A u \in Registered : users[u] # trx[p].email
       /\ trx[p].legs = GrantLegs(trx[p].user)

IsStaking(p) == trx[p].pc = "funds" \/ Posts(p, {"BET_PLACED"})

\* placeBet: under the wallet's lock the balance stays what it was, and no
\* entry of the wallet gets an id above those p has drawn.
Staking(p) ==
  /\ IsStaking(p) =>
       /\ trx[p].bet \in BetIds
       /\ Owner(trx[p].bet) \in Registered
       /\ bets[trx[p].bet] = NoBet
       /\ trx[p].row = Active(trx[p].row.stake)
       /\ trx[p].row.stake \in Stakes
  /\ trx[p].pc = "funds" => Awaits(p, Exclusive(BalanceRow(Wallet(Owner(trx[p].bet)))))
  /\ Posts(p, {"BET_PLACED"}) =>
       /\ Exclusive(BalanceRow(Wallet(Owner(trx[p].bet)))) \in trx[p].held
       /\ balance[Wallet(Owner(trx[p].bet))] >= trx[p].row.stake
       /\ \A e \in Of(Wallet(Owner(trx[p].bet))) : e.id < trx[p].first
       /\ trx[p].legs = StakeLegs(Owner(trx[p].bet), trx[p].row.stake)

\* A closing: the lock on the bet keeps it ACTIVE.
Closing(p) ==
  /\ (trx[p].pc = "bet" \/ Posts(p, Closings)) =>
       trx[p].bet \in BetIds /\ bets[trx[p].bet] # NoBet
  /\ trx[p].pc = "bet" => Awaits(p, Exclusive(BetRow(trx[p].bet)))
  /\ Posts(p, Closings) =>
       /\ Exclusive(BetRow(trx[p].bet)) \in trx[p].held
       /\ bets[trx[p].bet].status = "ACTIVE"
       /\ trx[p].row = [bets[trx[p].bet] EXCEPT !.status = "CLOSED"]
       /\ \/ trx[p].legs = LossLegs(bets[trx[p].bet].stake)
          \/ \E profit \in Profits :
               trx[p].legs = ReturnLegs(Owner(trx[p].bet), bets[trx[p].bet].stake, profit)

\* Any posting: its ids are nobody else's, and it has asked for the balances
\* row of every account it touches.
Posting(p) ==
  trx[p].pc = "post" =>
    /\ trx[p].kind \in Kinds
    /\ trx[p].first \in Nat \ {0}
    /\ trx[p].first + Len(trx[p].legs) - 1 =< lastId
    /\ \A e \in entries : e.id \notin Drawn(p)
    /\ trx[p].legs \in Seq([account : Accounts, amount : Int])
    /\ trx[p].need \in Seq({Exclusive(BalanceRow(a)) : a \in Accounts})
    /\ \A a \in Accounts : On(trx[p].legs, a) # {} =>
         Exclusive(BalanceRow(a)) \in trx[p].held \cup ToSet(trx[p].need)

Standing(p) == Registering(p) /\ Staking(p) /\ Closing(p) /\ Posting(p)

\* Two transactions never register one row, draw one id, or stake one bet.
Apart ==
  \A p, q \in Requests : p # q =>
    /\ trx[p].user = trx[q].user => trx[p].user = 0
    /\ Drawn(p) \cap Drawn(q) = {}
    /\ IsStaking(p) => trx[p].bet # trx[q].bet

OpenStake == [b \in BetIds |-> IF bets[b].status = "ACTIVE" THEN bets[b].stake ELSE 0]
UpTo(account, k) == {d \in Of(account) : d.id =< k}
Grants(u) == {e \in Of(Wallet(u)) : e.kind = "SIGNUP_GRANT"}

\* What the entries and the balances add up to.
Books ==
  /\ IsFiniteSet(entries)
  /\ \A e \in entries : e.id =< lastId
  /\ AlwaysHealthy
  /\ balance[ESCROW] = SumFunctionOnSet(OpenStake, BetIds)
  /\ \A b \in BetIds : bets[b] # NoBet => Owner(b) \in Registered
  /\ \A u \in UserIds \ Registered : Of(Wallet(u)) = {}
  /\ RegisteredOnce
  /\ \A u \in UserIds : \A k \in Nat : Sum(UpTo(Wallet(u), k)) >= 0

IInv ==
  /\ TablesOK
  /\ Shape
  /\ LocksExclude
  /\ Apart
  /\ Books
  /\ \A p \in Requests : Standing(p)

-----------------------------------------------------------------------------
(* steps that leave the rows alone *)

rows == <<users, bets, entries, balance>>

\* What is computed from the rows stays with them.
LEMMA SameRows ==
  ASSUME UNCHANGED rows
  PROVE  /\ users' = users /\ bets' = bets /\ entries' = entries /\ balance' = balance
         /\ Registered' = Registered
         /\ \A a : Of(a)' = Of(a)
BY DEF rows, Registered, Of

LEMMA SameBooks ==
  ASSUME UNCHANGED rows, lastId \in Nat, lastId' \in Nat, lastId' >= lastId,
         TablesOK, Books
  PROVE  Books'
<1>1. /\ users' = users /\ bets' = bets /\ entries' = entries /\ balance' = balance
      /\ Registered' = Registered
      /\ \A a : Of(a)' = Of(a)
  BY SameRows
<1>2. AlwaysHealthy'
  BY <1>1 DEF Books, AlwaysHealthy, GlobalSum, BalanceDrift, Sum
<1>3. RegisteredOnce'
  BY <1>1 DEF Books, RegisteredOnce, CreditsInCirculation
<1>4. OpenStake' = OpenStake
  BY <1>1 DEF OpenStake
<1>5. \A a, k : UpTo(a, k)' = UpTo(a, k)
  BY <1>1 DEF UpTo
<1>6. \A e \in entries : e.id =< lastId'
  <2>1. \A e \in entries : e.id =< lastId /\ e.id \in Int
    BY DEF Books, TablesOK, Entry
  <2> QED
    BY <2>1
<1>7. \A u \in UserIds : \A k \in Nat : Sum(UpTo(Wallet(u), k))' >= 0
  BY <1>5 DEF Books, Sum
<1> QED
  BY <1>1, <1>2, <1>3, <1>4, <1>6, <1>7 DEF Books

\* If the rows stay as they are, so does the standing of every other request.
LEMMA OthersStand ==
  ASSUME UNCHANGED rows, lastId \in Nat, lastId' \in Nat, lastId' >= lastId,
         NEW q, Standing(q), trx'[q] = trx[q]
  PROVE  Standing(q)'
<1>1. /\ users' = users /\ bets' = bets /\ entries' = entries /\ balance' = balance
      /\ Registered' = Registered
      /\ \A a : Of(a)' = Of(a)
  BY SameRows
<1>2. Registering(q)'
  BY <1>1 DEF Standing, Registering, Awaits, Posts
<1>3. Staking(q)'
  BY <1>1 DEF Standing, Staking, IsStaking, Awaits, Posts
<1>4. Closing(q)'
  BY <1>1 DEF Standing, Closing, Awaits, Posts
<1>5. Posting(q)'
  <2> SUFFICES ASSUME trx[q].pc = "post"
               PROVE  Posting(q)'
    BY DEF Posting
  <2>1. trx[q].first + Len(trx[q].legs) - 1 =< lastId'
    <3>1. trx[q].first \in Nat /\ Len(trx[q].legs) \in Nat
      BY DEF Standing, Posting
    <3>2. trx[q].first + Len(trx[q].legs) - 1 =< lastId
      BY DEF Standing, Posting
    <3> QED
      BY <3>1, <3>2
  <2>2. Drawn(q)' = Drawn(q)
    BY DEF Drawn
  <2> QED
    BY <1>1, <2>1, <2>2 DEF Standing, Posting
<1> QED
  BY <1>2, <1>3, <1>4, <1>5 DEF Standing

\* Nobody gets in anybody's way who takes no lock.
LEMMA NoNewLock ==
  ASSUME LocksExclude, NEW p \in Requests,
         \A q \in Requests \ {p} : trx'[q] = trx[q],
         trx'[p].held \subseteq trx[p].held
  PROVE  LocksExclude'
<1>1. \A q \in Requests : trx'[q].held \subseteq trx[q].held
  OBVIOUS
<1> QED
  BY <1>1 DEF LocksExclude

\* A step of one transaction that leaves the rows alone keeps the invariant if
\* the transaction knows what it must where it ends up, and stays apart.
LEMMA LocalStep ==
  ASSUME IInv, UNCHANGED rows, lastId' \in lastId..MaxEntries, NEW p \in Requests,
         DOMAIN trx' = Requests, DOMAIN trx'[p] = Fields,
         \A q \in Requests \ {p} : trx'[q] = trx[q],
         LocksExclude', Standing(p)',
         \A q \in Requests \ {p} :
           /\ trx'[p].user = trx[q].user => trx'[p].user = 0
           /\ Drawn(p)' \cap Drawn(q) = {}
           /\ IsStaking(p)' => trx'[p].bet # trx[q].bet
           /\ IsStaking(q) => trx[q].bet # trx'[p].bet
  PROVE  IInv'
<1>0. /\ lastId \in Nat /\ lastId' \in Nat /\ lastId' >= lastId
      /\ lastId' \in 0..MaxEntries /\ lastId \in 0..MaxEntries
  BY LedgerAssumption DEF IInv, TablesOK
<1>1. TablesOK'
  BY <1>0 DEF IInv, TablesOK, rows
<1>2. Shape'
  BY DEF IInv, Shape
<1>3. Books'
  BY <1>0, SameBooks DEF IInv
<1>4. ASSUME NEW q \in Requests PROVE Standing(q)'
  BY <1>0, OthersStand DEF IInv
<1>5. Apart'
  <2>1. Apart
    BY DEF IInv
  <2>2. ASSUME NEW q \in Requests, NEW r \in Requests, q # r
        PROVE  /\ trx'[q].user = trx'[r].user => trx'[q].user = 0
               /\ Drawn(q)' \cap Drawn(r)' = {}
               /\ IsStaking(q)' => trx'[q].bet # trx'[r].bet
    <3>1. CASE q = p
      BY <2>2, <3>1 DEF Drawn, IsStaking, Posts
    <3>2. CASE r = p
      BY <2>2, <3>2 DEF Drawn, IsStaking, Posts
    <3>3. CASE q # p /\ r # p
      BY <2>1, <2>2, <3>3 DEF Apart, Drawn, IsStaking, Posts
    <3> QED
      BY <3>1, <3>2, <3>3
  <2> QED
    BY <2>2 DEF Apart
<1> QED
  BY <1>1, <1>2, <1>3, <1>4, <1>5 DEF IInv

\* Once p waits for nothing it has the lock it asked for.
LEMMA Has ==
  ASSUME NEW p, NEW lock, Awaits(p, lock), trx[p].need = <<>>
  PROVE  lock \in trx[p].held
<1>1. <<lock>> # <<>>
  OBVIOUS
<1> QED
  BY <1>1 DEF Awaits

\* A bet that is staked has a name.
LEMMA StakedIsNamed ==
  ASSUME IInv, NEW q \in Requests, IsStaking(q)
  PROVE  trx[q].bet # <<>> /\ trx[q].bet \in BetIds
<1>1. trx[q].bet \in BetIds
  BY DEF IInv, Standing, Staking
<1>2. \A b \in BetIds : b # <<>>
  BY DEF BetIds
<1> QED
  BY <1>1, <1>2

\* The end of a transaction, however it comes about, leaves nothing to know.
LEMMA EndEffect ==
  ASSUME Shape, NEW p \in Requests, End(p)
  PROVE  /\ DOMAIN trx' = Requests /\ DOMAIN trx'[p] = Fields
         /\ \A q \in Requests \ {p} : trx'[q] = trx[q]
         /\ trx'[p].held = {} /\ trx'[p].user = 0 /\ trx'[p].bet = <<>>
         /\ trx'[p].pc = "idle"
         /\ Standing(p)' /\ Drawn(p)' = {} /\ ~ IsStaking(p)'
<1>1. trx'[p] = Idle
  BY DEF Shape, End
<1>2. Standing(p)' /\ Drawn(p)' = {} /\ ~ IsStaking(p)'
  BY <1>1 DEF Idle, Standing, Registering, Staking, IsStaking, Closing, Posting, Posts,
              Drawn
<1>3. DOMAIN Idle = Fields
  BY DEF Idle, Fields
<1> QED
  BY <1>1, <1>2, <1>3 DEF Shape, End, Idle

\* Refused, aborted, lost: the transactions that end without a commit.
LEMMA RefusalStep ==
  ASSUME IInv, NEW p \in Requests,
         \/ RefuseRegistered(p) \/ RefuseInsufficientFunds(p) \/ RefuseClosed(p)
         \/ AbortDeadlock(p) \/ Lose(p)
  PROVE  IInv'
<1>1. End(p) /\ UNCHANGED tables
  BY DEF RefuseRegistered, RefuseInsufficientFunds, RefuseClosed, AbortDeadlock, Lose
<1>2. /\ DOMAIN trx' = Requests /\ DOMAIN trx'[p] = Fields
      /\ \A q \in Requests \ {p} : trx'[q] = trx[q]
      /\ trx'[p].held = {} /\ trx'[p].user = 0 /\ trx'[p].bet = <<>>
      /\ Standing(p)' /\ Drawn(p)' = {} /\ ~ IsStaking(p)'
  BY <1>1, EndEffect DEF IInv
<1>3. UNCHANGED rows /\ lastId' \in lastId..MaxEntries
  BY <1>1, LedgerAssumption DEF tables, rows, IInv, TablesOK
<1>4. LocksExclude'
  BY <1>2, NoNewLock DEF IInv
<1>5. \A q \in Requests \ {p} : IsStaking(q) => trx[q].bet # <<>>
  BY StakedIsNamed
<1> QED
  BY <1>2, <1>3, <1>4, <1>5, LocalStep

-----------------------------------------------------------------------------
(* locks *)

\* What the grant of a lock changes.
LEMMA GrantEffect ==
  ASSUME Shape, NEW p \in Requests, Granted(p)
  PROVE  /\ DOMAIN trx' = Requests /\ DOMAIN trx'[p] = Fields
         /\ \A q \in Requests \ {p} : trx'[q] = trx[q]
         /\ trx'[p].pc = trx[p].pc /\ trx'[p].email = trx[p].email
         /\ trx'[p].user = trx[p].user /\ trx'[p].bet = trx[p].bet
         /\ trx'[p].row = trx[p].row /\ trx'[p].kind = trx[p].kind
         /\ trx'[p].legs = trx[p].legs /\ trx'[p].first = trx[p].first
         /\ trx'[p].need = Tail(trx[p].need)
         /\ trx'[p].held = trx[p].held \cup {Head(trx[p].need)}
BY DEF Shape, Fields, Granted

\* A grant of the one lock waited for ends the wait.
LEMMA GrantEndsWait ==
  ASSUME NEW p, NEW lock, Awaits(p, lock), trx[p].need # <<>>,
         trx'[p].need = Tail(trx[p].need),
         trx'[p].held = trx[p].held \cup {Head(trx[p].need)}
  PROVE  Awaits(p, lock)'
<1>1. trx[p].need = <<lock>>
  BY DEF Awaits
<1>2. Tail(<<lock>>) = <<>> /\ Head(<<lock>>) = lock
  OBVIOUS
<1>3. trx'[p].need = <<>> /\ lock \in trx'[p].held
  BY <1>1, <1>2
<1> QED
  BY <1>3 DEF Awaits

\* A lock is granted to one transaction only if nobody else's conflicts with it.
LEMMA GrantExcludes ==
  ASSUME Shape, LocksExclude, NEW p \in Requests, Granted(p)
  PROVE  LocksExclude'
<1> DEFINE lock == Head(trx[p].need)
<1>1. /\ trx'[p].held = trx[p].held \cup {lock}
      /\ \A q \in Requests \ {p} : trx'[q] = trx[q]
  BY GrantEffect
<1>2. ASSUME NEW q \in Requests, q # p, NEW l \in trx[q].held
      PROVE  ~ Conflict(l, lock) /\ ~ Conflict(lock, l)
  <2>1. trx[p].need # <<>> /\ Blockers(p) = {}
    BY DEF Granted
  <2>2. ~ Conflict(l, lock)
    BY <1>2, <2>1 DEF Blockers, Workers
  <2> QED
    BY <2>2 DEF Conflict
<1> HIDE DEF lock
<1>3. ASSUME NEW q \in Requests, NEW r \in Requests, q # r,
             NEW l \in trx'[q].held, NEW m \in trx'[r].held
      PROVE  ~ Conflict(l, m)
  <2>1. CASE q = p
    <3>1. trx'[r] = trx[r] /\ (l \in trx[p].held \/ l = lock)
      BY <1>1, <1>3, <2>1
    <3> QED
      BY <1>2, <1>3, <2>1, <3>1 DEF LocksExclude
  <2>2. CASE r = p
    <3>1. trx'[q] = trx[q] /\ (m \in trx[p].held \/ m = lock)
      BY <1>1, <1>3, <2>2
    <3> QED
      BY <1>2, <1>3, <2>2, <3>1 DEF LocksExclude
  <2>3. CASE q # p /\ r # p
    BY <1>1, <1>3, <2>3 DEF LocksExclude
  <2> QED
    BY <2>1, <2>2, <2>3
<1> QED
  BY <1>3 DEF LocksExclude

\* The rest of the locks asked for, and the one granted, are all of them.
LEMMA HeadAndTail ==
  ASSUME NEW S, NEW s \in Seq(S), s # <<>>
  PROVE  /\ Tail(s) \in Seq(S)
         /\ \A x \in ToSet(s) : x = Head(s) \/ x \in ToSet(Tail(s))
<1>1. /\ Len(s) \in Nat \ {0} /\ DOMAIN s = 1..Len(s) /\ Head(s) = s[1]
      /\ Tail(s) \in Seq(S) /\ Len(Tail(s)) = Len(s) - 1
      /\ \A i \in 1..Len(s) - 1 : Tail(s)[i] = s[i + 1]
  OBVIOUS
<1>2. DOMAIN Tail(s) = 1..Len(s) - 1
  BY <1>1
<1>3. ASSUME NEW i \in 1..Len(s), i # 1
      PROVE  i - 1 \in 1..Len(s) - 1 /\ Tail(s)[i - 1] = s[i]
  BY <1>1, <1>3
<1>4. ASSUME NEW i \in 1..Len(s), i # 1 PROVE s[i] \in ToSet(Tail(s))
  BY <1>2, <1>3, <1>4 DEF ToSet
<1> QED
  BY <1>1, <1>4 DEF ToSet

LEMMA AcquireLockStep ==
  ASSUME IInv, NEW p \in Requests, AcquireLock(p)
  PROVE  IInv'
<1>1. /\ TablesOK /\ Shape /\ LocksExclude /\ Standing(p) /\ UNCHANGED tables
      /\ Granted(p) /\ trx[p].need # <<>>
  BY DEF IInv, AcquireLock, Granted
<1>2. /\ DOMAIN trx' = Requests /\ DOMAIN trx'[p] = Fields
      /\ \A q \in Requests \ {p} : trx'[q] = trx[q]
      /\ trx'[p].pc = trx[p].pc /\ trx'[p].email = trx[p].email
      /\ trx'[p].user = trx[p].user /\ trx'[p].bet = trx[p].bet
      /\ trx'[p].row = trx[p].row /\ trx'[p].kind = trx[p].kind
      /\ trx'[p].legs = trx[p].legs /\ trx'[p].first = trx[p].first
      /\ trx'[p].need = Tail(trx[p].need)
      /\ trx'[p].held = trx[p].held \cup {Head(trx[p].need)}
  BY <1>1, GrantEffect
<1>3. ASSUME NEW lock, Awaits(p, lock) PROVE Awaits(p, lock)'
  BY <1>1, <1>2, <1>3, GrantEndsWait
<1>4. UNCHANGED rows /\ lastId' = lastId /\ lastId' \in lastId..MaxEntries
  BY <1>1, LedgerAssumption DEF tables, rows, TablesOK
<1>5. /\ users' = users /\ bets' = bets /\ entries' = entries /\ balance' = balance
      /\ Registered' = Registered
      /\ \A a : Of(a)' = Of(a)
  BY <1>4, SameRows
<1>6. Registering(p)'
  BY <1>1, <1>2, <1>3, <1>5 DEF Standing, Registering, Posts
<1>7. Staking(p)'
  BY <1>1, <1>2, <1>3, <1>5 DEF Standing, Staking, IsStaking, Posts
<1>8. Closing(p)'
  BY <1>1, <1>2, <1>3, <1>5 DEF Standing, Closing, Posts
<1>9. Drawn(p)' = Drawn(p) /\ (IsStaking(p)' <=> IsStaking(p))
  BY <1>2 DEF Drawn, IsStaking, Posts
<1>10. Posting(p)'
  BY <1>1, <1>2, <1>4, <1>5, <1>9, HeadAndTail DEF Standing, Posting
<1>11. Standing(p)'
  BY <1>6, <1>7, <1>8, <1>10 DEF Standing
<1>12. LocksExclude'
  BY <1>1, GrantExcludes
<1>13. \A q \in Requests \ {p} :
         /\ trx'[p].user = trx[q].user => trx'[p].user = 0
         /\ Drawn(p)' \cap Drawn(q) = {}
         /\ IsStaking(p)' => trx'[p].bet # trx[q].bet
         /\ IsStaking(q) => trx[q].bet # trx'[p].bet
  BY <1>2, <1>9 DEF IInv, Apart
<1> QED
  BY <1>2, <1>4, <1>11, <1>12, <1>13, LocalStep

-----------------------------------------------------------------------------
(* register *)

LEMMA BeginRegisterStep ==
  ASSUME IInv, NEW p \in Requests, NEW email \in Emails, BeginRegister(p, email)
  PROVE  IInv'
<1> DEFINE t == [Idle EXCEPT !.pc = "hashed", !.email = email]
<1>1. /\ DOMAIN t = Fields /\ t.pc = "hashed" /\ t.email = email /\ t.held = {}
      /\ t.user = 0 /\ t.bet = <<>>
  BY DEF Idle, Fields
<1>2. /\ DOMAIN trx' = Requests /\ trx'[p] = t
      /\ \A q \in Requests \ {p} : trx'[q] = trx[q]
      /\ UNCHANGED tables
  BY DEF IInv, Shape, BeginRegister
<1> HIDE DEF t
<1>3. UNCHANGED rows /\ lastId' \in lastId..MaxEntries
  BY <1>2, LedgerAssumption DEF tables, rows, IInv, TablesOK
<1>4. Standing(p)' /\ Drawn(p)' = {} /\ ~ IsStaking(p)'
  BY <1>1, <1>2 DEF Standing, Registering, Staking, IsStaking, Closing, Posting, Posts, Drawn
<1>5. LocksExclude'
  BY <1>1, <1>2, NoNewLock DEF IInv
<1>6. \A q \in Requests \ {p} : IsStaking(q) => trx[q].bet # <<>>
  BY StakedIsNamed
<1> QED
  BY <1>1, <1>2, <1>3, <1>4, <1>5, <1>6, LocalStep

LEMMA InsertUserStep ==
  ASSUME IInv, NEW p \in Requests, InsertUser(p)
  PROVE  IInv'
<1>1. PICK u \in UserIds :
        /\ \A v \in Begun : v < u
        /\ trx' = [trx EXCEPT ![p].pc = "user", ![p].user = u,
                              ![p].need = <<Exclusive(KeyEntry(trx[p].email))>>]
  BY DEF InsertUser
<1>2. /\ trx[p].pc = "hashed" /\ UNCHANGED tables
  BY DEF InsertUser, Ready
<1>3. /\ DOMAIN trx' = Requests /\ DOMAIN trx'[p] = Fields
      /\ \A q \in Requests \ {p} : trx'[q] = trx[q]
      /\ trx'[p].pc = "user" /\ trx'[p].user = u /\ trx'[p].email = trx[p].email
      /\ trx'[p].need = <<Exclusive(KeyEntry(trx[p].email))>>
      /\ trx'[p].held = trx[p].held /\ trx'[p].bet = trx[p].bet
  BY <1>1 DEF IInv, Shape, Fields
<1>4. UNCHANGED rows /\ lastId' \in lastId..MaxEntries
  BY <1>2, LedgerAssumption DEF tables, rows, IInv, TablesOK
<1>5. u \notin Begun /\ u \in Nat
  BY <1>1 DEF UserIds
<1>6. users'[u] = NoUser
  BY <1>4, <1>5 DEF Begun, Registered, rows
<1>7. trx[p].email \in Emails
  BY <1>2 DEF IInv, Standing, Registering
<1>8. Standing(p)' /\ Drawn(p)' = {} /\ ~ IsStaking(p)'
  <2>1. Registering(p)'
    BY <1>3, <1>6, <1>7 DEF Registering, Posts, Awaits
  <2> QED
    BY <1>3, <2>1 DEF Standing, Staking, IsStaking, Closing, Posting, Posts, Drawn
<1>9. LocksExclude'
  BY <1>3, NoNewLock DEF IInv
<1>10. \A q \in Requests \ {p} : u # trx[q].user
  BY <1>5 DEF Begun
<1>11. \A q \in Requests \ {p} : IsStaking(q) => trx[q].bet # trx[p].bet
  BY DEF IInv, Apart
<1> QED
  BY <1>3, <1>4, <1>8, <1>9, <1>10, <1>11, LocalStep

-----------------------------------------------------------------------------
(* bets *)

LEMMA BeginStakeStep ==
  ASSUME IInv, NEW p \in Requests, NEW b \in BetIds, NEW stake \in Stakes,
         BeginStake(p, b, stake)
  PROVE  IInv'
<1> DEFINE t == [Idle EXCEPT !.pc = "funds", !.bet = b, !.row = Active(stake),
                             !.need = <<Exclusive(BalanceRow(Wallet(Owner(b))))>>]
<1>1. /\ DOMAIN t = Fields /\ t.pc = "funds" /\ t.bet = b /\ t.row = Active(stake)
      /\ t.need = <<Exclusive(BalanceRow(Wallet(Owner(b))))>>
      /\ t.held = {} /\ t.user = 0
  BY DEF Idle, Fields
<1>2. /\ DOMAIN trx' = Requests /\ trx'[p] = t
      /\ \A q \in Requests \ {p} : trx'[q] = trx[q]
      /\ UNCHANGED tables
      /\ Owner(b) \in Registered /\ bets[b] = NoBet
      /\ \A q \in Requests : trx[q].bet # b
  BY DEF IInv, Shape, BeginStake
<1> HIDE DEF t
<1>3. UNCHANGED rows /\ lastId' \in lastId..MaxEntries
  BY <1>2, LedgerAssumption DEF tables, rows, IInv, TablesOK
<1>4. Registered' = Registered /\ bets' = bets
  BY <1>3, SameRows
<1>5. Active(stake).stake = stake
  BY DEF Active
<1>6. Standing(p)' /\ Drawn(p)' = {}
  <2>1. Staking(p)'
    BY <1>1, <1>2, <1>4, <1>5 DEF Staking, IsStaking, Posts, Awaits
  <2> QED
    BY <1>1, <1>2, <2>1 DEF Standing, Registering, Closing, Posting, Posts, Drawn
<1>7. LocksExclude'
  BY <1>1, <1>2, NoNewLock DEF IInv
<1> QED
  BY <1>1, <1>2, <1>3, <1>6, <1>7, LocalStep

LEMMA BeginCloseStep ==
  ASSUME IInv, NEW p \in Requests, NEW b \in BetIds, BeginClose(p, b)
  PROVE  IInv'
<1> DEFINE t == [Idle EXCEPT !.pc = "bet", !.bet = b, !.need = <<Exclusive(BetRow(b))>>]
<1>1. /\ DOMAIN t = Fields /\ t.pc = "bet" /\ t.bet = b
      /\ t.need = <<Exclusive(BetRow(b))>> /\ t.held = {} /\ t.user = 0
  BY DEF Idle, Fields
<1>2. /\ DOMAIN trx' = Requests /\ trx'[p] = t
      /\ \A q \in Requests \ {p} : trx'[q] = trx[q]
      /\ UNCHANGED tables /\ bets[b] # NoBet
  BY DEF IInv, Shape, BeginClose
<1> HIDE DEF t
<1>3. UNCHANGED rows /\ lastId' \in lastId..MaxEntries
  BY <1>2, LedgerAssumption DEF tables, rows, IInv, TablesOK
<1>4. bets' = bets
  BY <1>3, SameRows
<1>5. Standing(p)' /\ Drawn(p)' = {} /\ ~ IsStaking(p)'
  <2>1. Closing(p)'
    BY <1>1, <1>2, <1>4 DEF Closing, Posts, Awaits
  <2> QED
    BY <1>1, <1>2, <2>1 DEF Standing, Registering, Staking, IsStaking, Posting, Posts, Drawn
<1>6. LocksExclude'
  BY <1>1, <1>2, NoNewLock DEF IInv
<1>7. \A q \in Requests \ {p} : IsStaking(q) => trx[q].bet # b
  BY <1>2 DEF IInv, Standing, Staking
<1> QED
  BY <1>1, <1>2, <1>3, <1>5, <1>6, <1>7, LocalStep

-----------------------------------------------------------------------------
(* postings *)

ALeg == [account : Accounts, amount : Int]

\* The accounts are fixed, and all told apart.
LEMMA AccountsAreApart ==
  /\ MINT \in Accounts /\ ESCROW \in Accounts /\ HOUSE \in Accounts
  /\ MINT # ESCROW /\ MINT # HOUSE /\ ESCROW # HOUSE
  /\ \A u \in UserIds : /\ Wallet(u) \in Accounts \ {MINT, ESCROW, HOUSE}
                        /\ \A v \in UserIds : Wallet(u) = Wallet(v) => u = v
  /\ \A a \in Accounts \ {MINT, ESCROW, HOUSE} : \E u \in UserIds : a = Wallet(u)
  /\ IsFiniteSet(Accounts)
<1>1. MaxUsers \in Nat
  BY LedgerAssumption
<1>2. IsFiniteSet(Accounts)
  BY <1>1, FS_Interval DEF Accounts
<1>3. ASSUME NEW a \in Accounts \ {MINT, ESCROW, HOUSE}
      PROVE  \E u \in UserIds : a = Wallet(u)
  <2>1. a - 3 \in UserIds /\ a = Wallet(a - 3)
    BY <1>1 DEF Accounts, MINT, ESCROW, HOUSE, UserIds, Wallet
  <2> QED
    BY <2>1
<1>4. /\ MINT \in Accounts /\ ESCROW \in Accounts /\ HOUSE \in Accounts
      /\ MINT # ESCROW /\ MINT # HOUSE /\ ESCROW # HOUSE
      /\ \A u \in UserIds : /\ Wallet(u) \in Accounts \ {MINT, ESCROW, HOUSE}
                            /\ \A v \in UserIds : Wallet(u) = Wallet(v) => u = v
  BY <1>1 DEF Accounts, MINT, ESCROW, HOUSE, UserIds, Wallet
<1> QED
  BY <1>2, <1>3, <1>4

\* Whatever is left to lock, in whatever order, is asked for.
LEMMA RowsAskedFor ==
  ASSUME NEW p, NEW legs, NEW s \in BalanceRows(p, legs)
  PROVE  /\ s \in Seq({Exclusive(BalanceRow(a)) : a \in Accounts})
         /\ \A a \in Accounts : On(legs, a) # {} =>
              Exclusive(BalanceRow(a)) \in trx[p].held \cup ToSet(s)
<1> DEFINE missing == {a \in Accounts : /\ On(legs, a) # {}
                                        /\ Exclusive(BalanceRow(a)) \notin trx[p].held}
           rowsOf(order) == [i \in DOMAIN order |-> Exclusive(BalanceRow(order[i]))]
<1>1. PICK order \in SetToSeqs(missing) : s = rowsOf(order)
  BY DEF BalanceRows, Ascending
<1>2. IsFiniteSet(missing) /\ missing \in SUBSET Accounts
  BY AccountsAreApart, FS_Subset
<1>3. /\ \A a \in missing : On(legs, a) # {}
      /\ \A a \in Accounts : On(legs, a) # {} =>
           Exclusive(BalanceRow(a)) \in trx[p].held \/ a \in missing
  OBVIOUS
<1> HIDE DEF missing
<1>4. order \in Seq(missing) /\ ToSet(order) = missing
  BY <1>2, SeqsEnumerate
<1>5. DOMAIN order = 1..Len(order) /\ Len(order) \in Nat
      /\ \A i \in 1..Len(order) : order[i] \in Accounts
  BY <1>2, <1>4
<1>6. s \in [1..Len(order) -> {Exclusive(BalanceRow(a)) : a \in Accounts}]
  BY <1>1, <1>5
<1>7. DOMAIN s = 1..Len(order) /\ s \in Seq({Exclusive(BalanceRow(a)) : a \in Accounts})
  BY <1>5, <1>6
<1>8. \A a \in missing : Exclusive(BalanceRow(a)) \in ToSet(s)
  BY <1>1, <1>4, <1>5, <1>7 DEF ToSet
<1> QED
  BY <1>3, <1>7, <1>8

\* What a posting knows and draws, whatever it is for.
LEMMA PostEffect ==
  ASSUME IInv, NEW p \in Requests, NEW kind \in Kinds, NEW legs \in Seq(ALeg), NEW row,
         Post(p, kind, legs, row), UNCHANGED rows
  PROVE  /\ DOMAIN trx' = Requests /\ DOMAIN trx'[p] = Fields
         /\ \A q \in Requests \ {p} : trx'[q] = trx[q]
         /\ trx'[p].pc = "post" /\ trx'[p].kind = kind /\ trx'[p].legs = legs
         /\ trx'[p].row = row /\ trx'[p].first = lastId + 1
         /\ trx'[p].held = trx[p].held /\ trx'[p].email = trx[p].email
         /\ trx'[p].user = trx[p].user /\ trx'[p].bet = trx[p].bet
         /\ lastId' \in lastId..MaxEntries
         /\ Posting(p)'
         /\ \A q \in Requests \ {p} : Drawn(p)' \cap Drawn(q) = {}
<1>1. PICK s \in BalanceRows(p, legs) :
        trx' = [trx EXCEPT ![p].pc = "post", ![p].kind = kind, ![p].legs = legs,
                           ![p].row = row, ![p].first = lastId + 1, ![p].need = s]
  BY DEF Post
<1>2. /\ DOMAIN trx' = Requests /\ DOMAIN trx'[p] = Fields
      /\ \A q \in Requests \ {p} : trx'[q] = trx[q]
      /\ trx'[p].pc = "post" /\ trx'[p].kind = kind /\ trx'[p].legs = legs
      /\ trx'[p].row = row /\ trx'[p].first = lastId + 1
      /\ trx'[p].held = trx[p].held /\ trx'[p].email = trx[p].email
      /\ trx'[p].user = trx[p].user /\ trx'[p].bet = trx[p].bet
      /\ trx'[p].need = s
  BY <1>1 DEF IInv, Shape, Fields
<1>3. /\ s \in Seq({Exclusive(BalanceRow(a)) : a \in Accounts})
      /\ \A a \in Accounts : On(legs, a) # {} =>
           Exclusive(BalanceRow(a)) \in trx[p].held \cup ToSet(s)
  BY RowsAskedFor
<1>4. /\ lastId \in Nat /\ Len(legs) \in Nat /\ MaxEntries \in Nat
      /\ lastId' = lastId + Len(legs) /\ lastId' =< MaxEntries
  BY LedgerAssumption DEF IInv, TablesOK, Post
<1>5. lastId' \in lastId..MaxEntries
  BY <1>4
<1>6. Drawn(p)' = (lastId + 1)..(lastId + Len(legs))
  BY <1>2, <1>4 DEF Drawn
<1>7. entries' = entries /\ \A e \in entries : e.id =< lastId /\ e.id \in Int
  BY DEF rows, IInv, Books, TablesOK, Entry
<1>8. Posting(p)'
  <2>1. \A e \in entries' : e.id \notin Drawn(p)'
    BY <1>4, <1>6, <1>7
  <2>2. trx'[p].first + Len(trx'[p].legs) - 1 =< lastId' /\ trx'[p].first \in Nat \ {0}
    BY <1>2, <1>4
  <2>3. legs \in Seq([account : Accounts, amount : Int])
    BY DEF ALeg
  <2> QED
    BY <1>2, <1>3, <2>1, <2>2, <2>3 DEF Posting
<1>9. ASSUME NEW q \in Requests \ {p} PROVE Drawn(p)' \cap Drawn(q) = {}
  <2>1. CASE trx[q].pc = "post"
    <3>1. /\ trx[q].first \in Nat /\ trx[q].legs \in Seq(ALeg)
          /\ trx[q].first + Len(trx[q].legs) - 1 =< lastId
      BY <2>1 DEF IInv, Standing, Posting, ALeg
    <3>9. Len(trx[q].legs) \in Nat
      BY <3>1
    <3>2. \A x \in Drawn(q) : x =< lastId /\ x \in Int
      BY <1>4, <2>1, <3>1, <3>9 DEF Drawn
    <3> QED
      BY <1>4, <1>6, <3>2
  <2>2. CASE trx[q].pc # "post"
    BY <2>2 DEF Drawn
  <2> QED
    BY <2>1, <2>2
<1> QED
  BY <1>2, <1>5, <1>8, <1>9

LEMMA GrantCreditsStep ==
  ASSUME IInv, NEW p \in Requests, GrantCredits(p)
  PROVE  IInv'
<1> DEFINE u == trx[p].user
           legs == GrantLegs(u)
<1>1. /\ trx[p].pc = "user" /\ trx[p].need = <<>>
      /\ \A v \in Registered : users[v] # trx[p].email
      /\ Post(p, "SIGNUP_GRANT", legs, NoBet) /\ UNCHANGED rows
  BY DEF GrantCredits, Ready, rows
<1>2. /\ trx[p].email \in Emails /\ u \in UserIds /\ users[u] = NoUser
      /\ Exclusive(KeyEntry(trx[p].email)) \in trx[p].held
  BY <1>1, Has DEF IInv, Standing, Registering
<1>3. legs \in Seq(ALeg)
  BY <1>2, AccountsAreApart, LedgerAssumption DEF GrantLegs, Leg, ALeg
<1>4. "SIGNUP_GRANT" \in Kinds
  BY DEF Kinds
<1> HIDE DEF legs
<1>5. /\ DOMAIN trx' = Requests /\ DOMAIN trx'[p] = Fields
      /\ \A q \in Requests \ {p} : trx'[q] = trx[q]
      /\ trx'[p].pc = "post" /\ trx'[p].kind = "SIGNUP_GRANT" /\ trx'[p].legs = legs
      /\ trx'[p].held = trx[p].held /\ trx'[p].email = trx[p].email
      /\ trx'[p].user = trx[p].user /\ trx'[p].bet = trx[p].bet
      /\ lastId' \in lastId..MaxEntries
      /\ Posting(p)'
      /\ \A q \in Requests \ {p} : Drawn(p)' \cap Drawn(q) = {}
  BY <1>1, <1>3, <1>4, PostEffect
<1>6. users' = users /\ Registered' = Registered
  BY <1>1, SameRows
<1>7. Registering(p)'
  BY <1>1, <1>2, <1>5, <1>6 DEF Registering, Posts, legs
<1>8. Standing(p)' /\ ~ IsStaking(p)'
  BY <1>5, <1>7 DEF Standing, Staking, IsStaking, Closing, Closings, Posts
<1>9. LocksExclude'
  BY <1>5, NoNewLock DEF IInv
<1>10. \A q \in Requests \ {p} : /\ trx[p].user = trx[q].user => trx[p].user = 0
                                 /\ IsStaking(q) => trx[q].bet # trx[p].bet
  BY DEF IInv, Apart
<1>11. \A q \in Requests \ {p} :
         /\ trx'[p].user = trx[q].user => trx'[p].user = 0
         /\ Drawn(p)' \cap Drawn(q) = {}
         /\ IsStaking(p)' => trx'[p].bet # trx[q].bet
         /\ IsStaking(q) => trx[q].bet # trx'[p].bet
  BY <1>5, <1>8, <1>10
<1> QED
  BY <1>1, <1>5, <1>8, <1>9, <1>11, LocalStep

LEMMA PostStakeStep ==
  ASSUME IInv, NEW p \in Requests, PostStake(p)
  PROVE  IInv'
<1> DEFINE w == Wallet(Owner(trx[p].bet))
           stake == trx[p].row.stake
           legs == StakeLegs(Owner(trx[p].bet), stake)
<1>1. /\ trx[p].pc = "funds" /\ trx[p].need = <<>>
      /\ balance[w] >= stake
      /\ Post(p, "BET_PLACED", legs, trx[p].row) /\ UNCHANGED rows
  BY DEF PostStake, Ready, rows
<1>2. /\ trx[p].bet \in BetIds /\ Owner(trx[p].bet) \in Registered
      /\ bets[trx[p].bet] = NoBet
      /\ trx[p].row = Active(stake) /\ stake \in Stakes
      /\ Exclusive(BalanceRow(w)) \in trx[p].held
  BY <1>1, Has DEF IInv, Standing, Staking, IsStaking
<1>3. legs \in Seq(ALeg)
  <2>1. Owner(trx[p].bet) \in UserIds /\ stake \in Int
    <3>1. Stakes \subseteq Nat
      BY LedgerAssumption
    <3>2. Registered \subseteq UserIds /\ Nat \subseteq Int
      BY DEF Registered
    <3> QED
      BY <1>2, <3>1, <3>2, Zenon
  <2> QED
    BY <2>1, AccountsAreApart DEF StakeLegs, Leg, ALeg
<1>4. "BET_PLACED" \in Kinds
  BY DEF Kinds
<1> HIDE DEF legs, w
<1>5. /\ DOMAIN trx' = Requests /\ DOMAIN trx'[p] = Fields
      /\ \A q \in Requests \ {p} : trx'[q] = trx[q]
      /\ trx'[p].pc = "post" /\ trx'[p].kind = "BET_PLACED" /\ trx'[p].legs = legs
      /\ trx'[p].row = trx[p].row /\ trx'[p].first = lastId + 1
      /\ trx'[p].held = trx[p].held /\ trx'[p].email = trx[p].email
      /\ trx'[p].user = trx[p].user /\ trx'[p].bet = trx[p].bet
      /\ lastId' \in lastId..MaxEntries
      /\ Posting(p)'
      /\ \A q \in Requests \ {p} : Drawn(p)' \cap Drawn(q) = {}
  BY <1>1, <1>3, <1>4, PostEffect
<1>6. /\ bets' = bets /\ balance' = balance /\ Registered' = Registered
      /\ \A a : Of(a)' = Of(a)
  BY <1>1, SameRows
<1>7. \A e \in Of(w) : e.id < lastId + 1
  <2>1. lastId \in Nat /\ \A e \in entries : e.id =< lastId /\ e.id \in Int
    BY LedgerAssumption DEF IInv, TablesOK, Books, Entry
  <2> QED
    BY <2>1 DEF Of
<1>8. Staking(p)'
  BY <1>1, <1>2, <1>5, <1>6, <1>7 DEF Staking, IsStaking, Posts, legs, w
<1>9. Standing(p)'
  BY <1>5, <1>8 DEF Standing, Registering, Closing, Closings, Posts
<1>10. LocksExclude'
  BY <1>5, NoNewLock DEF IInv
<1>11. IsStaking(p)
  BY <1>1 DEF IsStaking
<1>12. \A q \in Requests \ {p} : /\ trx[p].user = trx[q].user => trx[p].user = 0
                                 /\ trx[p].bet # trx[q].bet
  BY <1>11 DEF IInv, Apart
<1> QED
  BY <1>1, <1>5, <1>9, <1>10, <1>12, LocalStep

LEMMA PostClosingStep ==
  ASSUME IInv, NEW p \in Requests, PostClosing(p)
  PROVE  IInv'
<1> DEFINE b == trx[p].bet
           stake == bets[b].stake
           closed == [bets[b] EXCEPT !.status = "CLOSED"]
<1>1. /\ trx[p].pc = "bet" /\ trx[p].need = <<>> /\ bets[b].status = "ACTIVE"
      /\ UNCHANGED rows
  BY DEF PostClosing, Ready, rows
<1>2. /\ b \in BetIds /\ bets[b] # NoBet
      /\ Exclusive(BetRow(b)) \in trx[p].held
  BY <1>1, Has DEF IInv, Standing, Closing
<1>3. stake \in Nat /\ Owner(b) \in UserIds
  <2>1. bets[b] \in Bet
    BY <1>2 DEF IInv, TablesOK
  <2> QED
    BY <1>2, <2>1, LedgerAssumption DEF Bet, BetIds, Owner
<1>4. PICK kind \in Closings, legs \in {LossLegs(stake)}
              \cup {ReturnLegs(Owner(b), stake, profit) : profit \in Profits} :
        Post(p, kind, legs, closed)
  BY DEF PostClosing, Closings
<1>5. \/ legs = LossLegs(stake)
      \/ \E profit \in Profits : legs = ReturnLegs(Owner(b), stake, profit)
  OBVIOUS
<1>6. legs \in Seq(ALeg)
  <2>1. CASE legs = LossLegs(stake)
    BY <1>3, <2>1, AccountsAreApart DEF LossLegs, Leg, ALeg
  <2>2. CASE \E profit \in Profits : legs = ReturnLegs(Owner(b), stake, profit)
    <3>1. PICK profit \in Profits : legs = ReturnLegs(Owner(b), stake, profit)
      BY <2>2
    <3>2. profit \in Nat
      BY LedgerAssumption
    <3>3. /\ Wallet(Owner(b)) \in Accounts /\ ESCROW \in Accounts /\ HOUSE \in Accounts
          /\ stake \in Int /\ -stake \in Int /\ profit \in Int /\ -profit \in Int
      BY <1>3, <3>2, AccountsAreApart
    <3>4. /\ Leg(ESCROW, -stake) \in ALeg /\ Leg(Wallet(Owner(b)), stake) \in ALeg
          /\ Leg(HOUSE, -profit) \in ALeg /\ Leg(Wallet(Owner(b)), profit) \in ALeg
      BY <3>3 DEF Leg, ALeg
    <3> HIDE DEF stake, b
    <3> QED
      BY <3>1, <3>4 DEF ReturnLegs
  <2> QED
    BY <1>5, <2>1, <2>2
<1>7. kind \in Kinds
  BY DEF Kinds, Closings
<1> HIDE DEF closed
<1>8. /\ DOMAIN trx' = Requests /\ DOMAIN trx'[p] = Fields
      /\ \A q \in Requests \ {p} : trx'[q] = trx[q]
      /\ trx'[p].pc = "post" /\ trx'[p].kind = kind /\ trx'[p].legs = legs
      /\ trx'[p].row = closed
      /\ trx'[p].held = trx[p].held /\ trx'[p].email = trx[p].email
      /\ trx'[p].user = trx[p].user /\ trx'[p].bet = trx[p].bet
      /\ lastId' \in lastId..MaxEntries
      /\ Posting(p)'
      /\ \A q \in Requests \ {p} : Drawn(p)' \cap Drawn(q) = {}
  BY <1>1, <1>4, <1>6, <1>7, PostEffect
<1>9. bets' = bets
  BY <1>1, SameRows
<1>10. Closing(p)'
  BY <1>1, <1>2, <1>5, <1>8, <1>9 DEF Closing, Posts, closed
<1>11. Standing(p)' /\ ~ IsStaking(p)'
  BY <1>8, <1>10 DEF Standing, Registering, Staking, IsStaking, Closings, Posts
<1>12. LocksExclude'
  BY <1>8, NoNewLock DEF IInv
<1>13. \A q \in Requests \ {p} : /\ trx[p].user = trx[q].user => trx[p].user = 0
                                 /\ IsStaking(q) => trx[q].bet # trx[p].bet
  BY DEF IInv, Apart
<1>14. \A q \in Requests \ {p} :
         /\ trx'[p].user = trx[q].user => trx'[p].user = 0
         /\ Drawn(p)' \cap Drawn(q) = {}
         /\ IsStaking(p)' => trx'[p].bet # trx[q].bet
         /\ IsStaking(q) => trx[q].bet # trx'[p].bet
  BY <1>8, <1>11, <1>13
<1> QED
  BY <1>1, <1>8, <1>11, <1>12, <1>14, LocalStep

-----------------------------------------------------------------------------
(* sums *)

\* Entries with whole amounts add up to a whole amount, and to one that is not
\* negative if none of them is.
LEMMA SumIsWhole ==
  ASSUME NEW A, IsFiniteSet(A), \A e \in A : e.amount \in Int
  PROVE  /\ Sum(A) \in Int
         /\ (\A e \in A : e.amount >= 0) => Sum(A) >= 0
<1> DEFINE f == [e \in A |-> e.amount]
<1>1. DOMAIN f = A /\ \A e \in A : f[e] = e.amount
  OBVIOUS
<1>2. Sum(A) = SumFunctionOnSet(f, A)
  BY <1>1 DEF Sum, SumFunction
<1> HIDE DEF f
<1>3. Sum(A) \in Int
  BY <1>1, <1>2, SumType
<1>4. ASSUME \A e \in A : e.amount >= 0 PROVE Sum(A) >= 0
  <2>1. \A e \in A : f[e] \in Nat
    BY <1>1, <1>4
  <2>2. SumFunctionOnSet(f, A) \in Nat
    BY <2>1, SumNotNegative
  <2> QED
    BY <1>2, <2>2
<1> QED
  BY <1>3, <1>4

\* What is added to a set of entries is added to their sum.
LEMMA SumOfUnion ==
  ASSUME NEW A, IsFiniteSet(A), NEW B, IsFiniteSet(B), A \cap B = {},
         \A e \in A \cup B : e.amount \in Int
  PROVE  Sum(A \cup B) = Sum(A) + Sum(B)
<1> DEFINE C == A \cup B
           f == [e \in C |-> e.amount]
           g == [e \in A |-> e.amount]
           h == [e \in B |-> e.amount]
<1>1. /\ DOMAIN f = C /\ DOMAIN g = A /\ DOMAIN h = B
      /\ \A e \in C : f[e] \in Int
      /\ \A e \in A : g[e] = f[e]
      /\ \A e \in B : h[e] = f[e]
  OBVIOUS
<1>2. /\ Sum(C) = SumFunctionOnSet(f, C)
      /\ Sum(A) = SumFunctionOnSet(g, A)
      /\ Sum(B) = SumFunctionOnSet(h, B)
  BY <1>1 DEF Sum, SumFunction
<1>3. IsFiniteSet(C) /\ A \in SUBSET C /\ C \ A = B
  BY FS_Union
<1> HIDE DEF C, f, g, h
<1>4. SumFunctionOnSet(f, C) = SumFunctionOnSet(f, A) + SumFunctionOnSet(f, C \ A)
  BY <1>1, <1>3, SumSplit
<1>5. SumFunctionOnSet(g, A) = SumFunctionOnSet(f, A)
  BY <1>1, SumOfEquals
<1>6. SumFunctionOnSet(h, B) = SumFunctionOnSet(f, B)
  BY <1>1, SumOfEquals
<1>7. Sum(C) = Sum(A) + Sum(B)
  BY <1>2, <1>3, <1>4, <1>5, <1>6
<1> QED
  BY <1>7 DEF C

Amounts(legs) == [i \in DOMAIN legs |-> legs[i].amount]

\* The entry that leg i of a posting becomes.
EntryOf(t, i) == [id |-> t.first + i - 1, account |-> t.legs[i].account,
                  amount |-> t.legs[i].amount, kind |-> t.kind]

\* The entries of some of the legs add up to what these legs do.
LEMMA SumOfLegs ==
  ASSUME NEW t, t.first \in Nat, t.legs \in Seq(ALeg), NEW I \in SUBSET DOMAIN t.legs
  PROVE  /\ IsFiniteSet({EntryOf(t, i) : i \in I})
         /\ Sum({EntryOf(t, i) : i \in I}) = SumFunctionOnSet(Amounts(t.legs), I)
         /\ \A i \in I : EntryOf(t, i).amount \in Int
<1> DEFINE h == [i \in I |-> EntryOf(t, i)]
           A == {EntryOf(t, i) : i \in I}
           f == [e \in A |-> e.amount]
           g == Amounts(t.legs)
<1>1. /\ DOMAIN t.legs = 1..Len(t.legs) /\ Len(t.legs) \in Nat
      /\ \A i \in DOMAIN t.legs : t.legs[i] \in ALeg
  OBVIOUS
<1>2. IsFiniteSet(I)
  <2>1. IsFiniteSet(DOMAIN t.legs)
    BY <1>1, FS_Interval
  <2> QED
    BY <2>1, FS_Subset
<1>3. \A i \in I : i \in Int /\ t.legs[i].amount \in Int /\ g[i] = t.legs[i].amount
  BY <1>1 DEF ALeg, Amounts
<1>4. \A i \in I : h[i] = EntryOf(t, i)
  OBVIOUS
<1>5. \A i \in I : /\ EntryOf(t, i).amount = t.legs[i].amount
                   /\ EntryOf(t, i).id = t.first + i - 1
  BY DEF EntryOf
<1>6. A = {h[i] : i \in I}
  BY <1>4
<1>7. \A i \in I : f[h[i]] = t.legs[i].amount
  BY <1>4, <1>5
<1>8. DOMAIN f = A
  OBVIOUS
<1>9. Sum(A) = SumFunctionOnSet(f, A)
  BY <1>8 DEF Sum, SumFunction
<1>10. \A i, j \in I : h[i] = h[j] => i = j
  <2>1. ASSUME NEW i \in I, NEW j \in I, h[i] = h[j] PROVE i = j
    <3>1. t.first + i - 1 = t.first + j - 1
      BY <1>4, <1>5, <2>1
    <3> QED
      BY <1>3, <3>1
  <2> QED
    BY <2>1
<1> HIDE DEF f, g, h, A
<1>11. \A i \in I : g[i] = f[h[i]] /\ g[i] \in Int
  BY <1>3, <1>7
<1>12. /\ IsFiniteSet({h[i] : i \in I})
       /\ SumFunctionOnSet(f, {h[i] : i \in I}) = SumFunctionOnSet(g, I)
  <2>1. /\ \A i \in I : g[i] = f[h[i]] /\ g[i] \in Int
        /\ \A i, j \in I : h[i] = h[j] => i = j
    BY <1>10, <1>11
  <2> QED
    BY <1>2, <2>1, SumOfImage
<1>13. IsFiniteSet(A) /\ Sum(A) = SumFunctionOnSet(g, I)
  BY <1>6, <1>9, <1>12
<1>14. \A i \in I : EntryOf(t, i).amount \in Int
  BY <1>3, <1>5
<1> QED
  BY <1>13, <1>14 DEF A, g

\* A posting with two legs.
LEMMA TwoLegs ==
  ASSUME NEW a, NEW b, a # b, NEW x \in Int, NEW y \in Int,
         NEW legs, legs = <<Leg(a, x), Leg(b, y)>>
  PROVE  /\ Total(legs, a) = x /\ Total(legs, b) = y
         /\ \A c : c # a /\ c # b => On(legs, c) = {}
         /\ SumFunctionOnSet(Amounts(legs), DOMAIN legs) = x + y
<1> DEFINE f == Amounts(legs)
<1>1. DOMAIN legs = {1, 2} /\ f[1] = x /\ f[2] = y
  BY DEF Leg, Amounts
<1>2. On(legs, a) = {1} /\ On(legs, b) = {2} /\ \A c : c # a /\ c # b => On(legs, c) = {}
  BY <1>1 DEF On, Leg
<1>3. \A c : Total(legs, c) = SumFunctionOnSet(f, On(legs, c))
  BY DEF Total, Amounts
<1> HIDE DEF f
<1>4. SumFunctionOnSet(f, {1}) = x /\ SumFunctionOnSet(f, {2}) = y
  BY <1>1, SumOfOne
<1>5. SumFunctionOnSet(f, {1} \cup {2}) = f[2] + SumFunctionOnSet(f, {1})
  <2>1. IsFiniteSet({1})
    BY FS_Singleton
  <2>2. 2 \notin {1} /\ \A i \in {1} \cup {2} : f[i] \in Int
    BY <1>1
  <2> QED
    BY <2>1, <2>2, SumAdd
<1>6. {1} \cup {2} = {1, 2}
  OBVIOUS
<1>7. SumFunctionOnSet(f, DOMAIN legs) = x + y
  BY <1>1, <1>4, <1>5, <1>6
<1> QED
  BY <1>2, <1>3, <1>4, <1>7 DEF f

\* A posting with four: a stake returned with its profit.
LEMMA FourLegs ==
  ASSUME NEW w, w # ESCROW, w # HOUSE, NEW stake \in Int, NEW profit \in Int,
         NEW legs, legs = <<Leg(ESCROW, -stake), Leg(w, stake),
                            Leg(HOUSE, -profit), Leg(w, profit)>>
  PROVE  /\ Total(legs, ESCROW) = -stake
         /\ \A d : d # ESCROW /\ d # w /\ d # HOUSE => On(legs, d) = {}
         /\ SumFunctionOnSet(Amounts(legs), DOMAIN legs) = 0
<1> DEFINE f == Amounts(legs)
<1>1. DOMAIN legs = {1, 2, 3, 4} /\ f[1] = -stake /\ f[2] = stake
      /\ f[3] = -profit /\ f[4] = profit
  BY DEF Leg, Amounts
<1>2. /\ legs[1].account = ESCROW /\ legs[2].account = w
      /\ legs[3].account = HOUSE /\ legs[4].account = w /\ ESCROW # HOUSE
  BY AccountsAreApart DEF Leg
<1>3. /\ On(legs, ESCROW) = {1}
      /\ \A d : d # ESCROW /\ d # w /\ d # HOUSE => On(legs, d) = {}
  BY <1>1, <1>2 DEF On
<1>4. \A d : Total(legs, d) = SumFunctionOnSet(f, On(legs, d))
  BY DEF Total, Amounts
<1> HIDE DEF f
<1>5. \A i \in {1, 2, 3, 4} : f[i] \in Int
  BY <1>1
<1>6. SumFunctionOnSet(f, {1}) = -stake
  BY <1>1, SumOfOne
<1>7. SumFunctionOnSet(f, {1} \cup {2}) = f[2] + SumFunctionOnSet(f, {1})
  <2>1. IsFiniteSet({1})
    BY FS_Singleton
  <2>2. 2 \notin {1} /\ \A i \in {1} \cup {2} : f[i] \in Int
    BY <1>5
  <2> QED
    BY <2>1, <2>2, SumAdd
<1>8. SumFunctionOnSet(f, {1, 2} \cup {3}) = f[3] + SumFunctionOnSet(f, {1, 2})
  <2>1. IsFiniteSet({1} \cup {2})
    BY FS_Singleton, FS_AddElement
  <2>2. {1} \cup {2} = {1, 2} /\ 3 \notin {1, 2} /\ \A i \in {1, 2} \cup {3} : f[i] \in Int
    BY <1>5
  <2> QED
    BY <2>1, <2>2, SumAdd
<1>9. SumFunctionOnSet(f, {1, 2, 3} \cup {4}) = f[4] + SumFunctionOnSet(f, {1, 2, 3})
  <2>1. IsFiniteSet(({1} \cup {2}) \cup {3})
    <3>1. IsFiniteSet({1})
      BY FS_Singleton
    <3>2. IsFiniteSet({1} \cup {2})
      BY <3>1, FS_AddElement
    <3> QED
      BY <3>2, FS_AddElement
  <2>2. /\ ({1} \cup {2}) \cup {3} = {1, 2, 3} /\ 4 \notin {1, 2, 3}
        /\ \A i \in {1, 2, 3} \cup {4} : f[i] \in Int
    BY <1>5
  <2> QED
    BY <2>1, <2>2, SumAdd
<1>10. /\ {1} \cup {2} = {1, 2} /\ {1, 2} \cup {3} = {1, 2, 3}
       /\ {1, 2, 3} \cup {4} = {1, 2, 3, 4}
  OBVIOUS
<1>11. SumFunctionOnSet(f, DOMAIN legs) = 0
  <2>1. SumFunctionOnSet(f, {1, 2}) = 0
    BY <1>1, <1>6, <1>7, <1>10
  <2>2. SumFunctionOnSet(f, {1, 2, 3}) = -profit
    BY <1>1, <1>8, <1>10, <2>1
  <2> QED
    BY <1>1, <1>9, <1>10, <2>2
<1>12. Total(legs, ESCROW) = -stake
  BY <1>3, <1>4, <1>6
<1> QED
  BY <1>3, <1>11, <1>12 DEF f

-----------------------------------------------------------------------------
(* what a commit writes *)

New(p, account) == {e \in Inserted(trx[p]) : e.account = account}

\* The entries of a posting are new, and add up to what its legs do.
LEMMA InsertedRows ==
  ASSUME IInv, NEW p \in Requests, trx[p].pc = "post"
  PROVE  /\ IsFiniteSet(Inserted(trx[p]))
         /\ Sum(Inserted(trx[p])) = SumFunctionOnSet(Amounts(trx[p].legs), DOMAIN trx[p].legs)
         /\ \A e \in Inserted(trx[p]) :
              /\ e \in Entry /\ e \notin entries
              /\ e.id \in Drawn(p) /\ e.id =< lastId /\ e.id >= trx[p].first
              /\ e.kind = trx[p].kind
              /\ On(trx[p].legs, e.account) # {}
         /\ \A a : /\ IsFiniteSet(New(p, a))
                   /\ Sum(New(p, a)) = Total(trx[p].legs, a)
                   /\ Total(trx[p].legs, a) \in Int
                   /\ On(trx[p].legs, a) = {} => New(p, a) = {} /\ Total(trx[p].legs, a) = 0
<1> DEFINE t == trx[p]
           D == DOMAIN t.legs
<1>1. /\ t.kind \in Kinds /\ t.first \in Nat \ {0} /\ t.legs \in Seq(ALeg)
      /\ t.first + Len(t.legs) - 1 =< lastId
      /\ \A e \in entries : e.id \notin Drawn(p)
      /\ lastId \in Nat /\ lastId =< MaxEntries /\ MaxEntries \in Nat
  <2>1. Posting(p) /\ lastId \in 0..MaxEntries
    BY DEF IInv, Standing, TablesOK
  <2>2. MaxEntries \in Nat
    BY LedgerAssumption
  <2>3. lastId \in Nat /\ lastId =< MaxEntries
    BY <2>1, <2>2
  <2> QED
    BY <2>1, <2>2, <2>3 DEF Posting, ALeg
<1>2. /\ D = 1..Len(t.legs) /\ Len(t.legs) \in Nat
      /\ \A i \in D : t.legs[i] \in ALeg
      /\ Drawn(p) = t.first..(t.first + Len(t.legs) - 1)
  BY <1>1 DEF Drawn
<1> HIDE DEF t, D
<1>3. ASSUME NEW i \in D
      PROVE  /\ EntryOf(t, i) \in Entry /\ EntryOf(t, i).id \in Drawn(p)
             /\ EntryOf(t, i).id =< lastId /\ EntryOf(t, i).id >= t.first
             /\ EntryOf(t, i).kind = t.kind
             /\ EntryOf(t, i).account = t.legs[i].account
  <2>1. /\ t.first + i - 1 \in Drawn(p) /\ t.first + i - 1 =< lastId
        /\ t.first + i - 1 >= t.first /\ t.first + i - 1 \in 1..MaxEntries
    BY <1>1, <1>2
  <2>2. t.legs[i].account \in Accounts /\ t.legs[i].amount \in Int
    BY <1>2 DEF ALeg
  <2> QED
    BY <1>1, <2>1, <2>2 DEF EntryOf, Entry, Kinds
<1>4. Inserted(t) = {EntryOf(t, i) : i \in D}
  BY DEF Inserted, EntryOf, D
<1>5. \A i \in D : i \in On(t.legs, t.legs[i].account)
  BY DEF On, D
<1>6. ASSUME NEW e \in Inserted(t)
      PROVE  /\ e \in Entry /\ e \notin entries
             /\ e.id \in Drawn(p) /\ e.id =< lastId /\ e.id >= t.first
             /\ e.kind = t.kind
             /\ On(t.legs, e.account) # {}
  BY <1>1, <1>3, <1>4, <1>5
<1>7. /\ IsFiniteSet(Inserted(t))
      /\ Sum(Inserted(t)) = SumFunctionOnSet(Amounts(t.legs), D)
  BY <1>1, <1>4, SumOfLegs DEF D
<1>8. ASSUME NEW a
      PROVE  /\ IsFiniteSet(New(p, a))
             /\ Sum(New(p, a)) = Total(t.legs, a)
             /\ Total(t.legs, a) \in Int
             /\ On(t.legs, a) = {} => New(p, a) = {} /\ Total(t.legs, a) = 0
  <2> DEFINE I == On(t.legs, a)
  <2>1. I \in SUBSET DOMAIN t.legs /\ \A i \in D : i \in I <=> t.legs[i].account = a
    BY DEF On, D
  <2>2. New(p, a) = {EntryOf(t, i) : i \in I}
    BY <1>3, <1>4, <2>1 DEF New, t, D
  <2>3. Total(t.legs, a) = SumFunctionOnSet(Amounts(t.legs), I)
    BY DEF Total, Amounts
  <2> HIDE DEF I
  <2>4. /\ IsFiniteSet({EntryOf(t, i) : i \in I})
        /\ Sum({EntryOf(t, i) : i \in I}) = SumFunctionOnSet(Amounts(t.legs), I)
        /\ \A i \in I : EntryOf(t, i).amount \in Int
    BY <1>1, <2>1, SumOfLegs
  <2>5. Sum({EntryOf(t, i) : i \in I}) \in Int
    BY <2>4, SumIsWhole
  <2>6. I = {} => New(p, a) = {} /\ Total(t.legs, a) = 0
    BY <2>2, <2>3, SumOfNone
  <2> QED
    BY <2>2, <2>3, <2>4, <2>5, <2>6 DEF I
<1> QED
  BY <1>6, <1>7, <1>8 DEF t, D

\* A commit adds the entries to each account and their sum to its balance.
LEMMA CommitEffect ==
  ASSUME IInv, NEW p \in Requests, Commit(p)
  PROVE  /\ trx[p].pc = "post" /\ trx[p].need = <<>> /\ lastId' = lastId
         /\ entries' = entries \cup Inserted(trx[p])
         /\ \A a : /\ Of(a)' = Of(a) \cup New(p, a)
                   /\ Of(a) \cap New(p, a) = {}
                   /\ IsFiniteSet(Of(a))
                   /\ \A e \in Of(a) \cup New(p, a) : e.amount \in Int /\ e.id \in Int
                   /\ Sum(Of(a)) \in Int
                   /\ Sum(Of(a)') = Sum(Of(a)) + Total(trx[p].legs, a)
         /\ balance' = [a \in Accounts |-> balance[a] + Total(trx[p].legs, a)]
         /\ \A a \in Accounts : balance[a] = Sum(Of(a)) /\ balance[a] \in Int
         /\ entries' \subseteq Entry /\ IsFiniteSet(entries')
         /\ \A e \in entries' : e.id =< lastId'
         /\ Sum(entries') =
              SumFunctionOnSet(Amounts(trx[p].legs), DOMAIN trx[p].legs)
<1> DEFINE t == trx[p]
           ins == Inserted(t)
<1>1. /\ trx[p].pc = "post" /\ trx[p].need = <<>> /\ lastId' = lastId
      /\ entries' = entries \cup ins
      /\ balance' = [a \in Accounts |-> balance[a] + Total(t.legs, a)]
  BY DEF Commit, Ready, Applied
<1>2. /\ IsFiniteSet(ins)
      /\ Sum(ins) = SumFunctionOnSet(Amounts(t.legs), DOMAIN t.legs)
      /\ \A e \in ins : e \in Entry /\ e \notin entries /\ e.id =< lastId
      /\ \A a : /\ IsFiniteSet(New(p, a))
                /\ Sum(New(p, a)) = Total(t.legs, a)
                /\ Total(t.legs, a) \in Int
  BY <1>1, InsertedRows
<1>3. /\ entries \subseteq Entry /\ IsFiniteSet(entries)
      /\ \A e \in entries : e.id =< lastId
      /\ AlwaysHealthy /\ balance \in [Accounts -> Int]
  BY DEF IInv, TablesOK, Books
<1>4. \A a : New(p, a) = {e \in ins : e.account = a}
  BY DEF New
<1> HIDE DEF ins, t
<1>5. \A e \in Entry : e.amount \in Int /\ e.id \in Int
  BY DEF Entry
<1>6. ASSUME NEW a
      PROVE  /\ Of(a)' = Of(a) \cup New(p, a)
             /\ Of(a) \cap New(p, a) = {}
             /\ IsFiniteSet(Of(a))
             /\ \A e \in Of(a) \cup New(p, a) : e.amount \in Int /\ e.id \in Int
  <2>1. Of(a)' = Of(a) \cup New(p, a) /\ Of(a) \cap New(p, a) = {}
    BY <1>1, <1>2, <1>4 DEF Of
  <2>2. Of(a) \in SUBSET entries /\ New(p, a) \in SUBSET ins
    BY <1>4 DEF Of
  <2>3. IsFiniteSet(Of(a))
    BY <1>3, <2>2, FS_Subset
  <2> QED
    BY <1>2, <1>3, <1>5, <2>1, <2>2, <2>3
<1>7. ASSUME NEW a
      PROVE  Sum(Of(a)) \in Int /\ Sum(Of(a)') = Sum(Of(a)) + Total(t.legs, a)
  <2>1. Sum(Of(a) \cup New(p, a)) = Sum(Of(a)) + Sum(New(p, a))
    BY <1>2, <1>6, SumOfUnion
  <2>2. Sum(Of(a)) \in Int
    BY <1>6, SumIsWhole
  <2>3. Of(a)' = Of(a) \cup New(p, a)
    BY <1>6
  <2>4. Sum(Of(a)') = Sum(Of(a) \cup New(p, a))
    BY <2>3
  <2> QED
    BY <1>2, <2>1, <2>2, <2>4
<1>8. \A a \in Accounts : balance[a] = Sum(Of(a)) /\ balance[a] \in Int
  BY <1>3 DEF AlwaysHealthy, BalanceDrift
<1>9. IsFiniteSet(entries') /\ Sum(entries') = SumFunctionOnSet(Amounts(t.legs), DOMAIN t.legs)
  <2>1. entries \cap ins = {} /\ \A e \in entries \cup ins : e.amount \in Int
    BY <1>2, <1>3, <1>5
  <2>2. Sum(entries \cup ins) = Sum(entries) + Sum(ins)
    BY <1>2, <1>3, <2>1, SumOfUnion
  <2>3. Sum(entries) = 0
    BY <1>3 DEF AlwaysHealthy, GlobalSum
  <2>4. Sum(ins) \in Int
    BY <1>2, <2>1, SumIsWhole
  <2>5. IsFiniteSet(entries \cup ins)
    BY <1>2, <1>3, FS_Union
  <2> QED
    BY <1>1, <1>2, <2>2, <2>3, <2>4, <2>5
<1>10. entries' \subseteq Entry /\ \A e \in entries' : e.id =< lastId'
  BY <1>1, <1>2, <1>3
<1> QED
  BY <1>1, <1>6, <1>7, <1>8, <1>9, <1>10 DEF ins, t

\* The commit of a grant adds its user ...
LEMMA GrantWrites ==
  ASSUME IInv, NEW p \in Requests, Commit(p), trx[p].kind = "SIGNUP_GRANT"
  PROVE  /\ trx[p].user \in UserIds /\ trx[p].email \in Emails
         /\ users[trx[p].user] = NoUser
         /\ users' = [users EXCEPT ![trx[p].user] = trx[p].email] /\ bets' = bets
         /\ Registered' = Registered \cup {trx[p].user} /\ trx[p].user \notin Registered
         /\ trx[p].legs = GrantLegs(trx[p].user)
         /\ \A u \in Registered : users[u] # trx[p].email
         /\ Exclusive(KeyEntry(trx[p].email)) \in trx[p].held
<1>1. /\ users' = [users EXCEPT ![trx[p].user] = trx[p].email] /\ bets' = bets
      /\ trx[p].pc = "post"
  BY DEF Commit, Ready
<1>2. Registering(p) /\ Posts(p, {"SIGNUP_GRANT"})
  BY <1>1 DEF IInv, Standing, Posts
<1>3. /\ trx[p].user \in UserIds /\ trx[p].email \in Emails
      /\ users[trx[p].user] = NoUser
      /\ trx[p].legs = GrantLegs(trx[p].user)
      /\ \A u \in Registered : users[u] # trx[p].email
      /\ Exclusive(KeyEntry(trx[p].email)) \in trx[p].held
  BY <1>2 DEF Registering
<1>4. DOMAIN users = UserIds /\ trx[p].email # NoUser
  BY <1>3, LedgerAssumption DEF IInv, TablesOK
<1>5. Registered' = Registered \cup {trx[p].user} /\ trx[p].user \notin Registered
  BY <1>1, <1>3, <1>4 DEF Registered
<1> QED
  BY <1>1, <1>3, <1>5

\* ... that of any other posting writes the row of its bet.
LEMMA BetWrites ==
  ASSUME IInv, NEW p \in Requests, Commit(p), trx[p].kind # "SIGNUP_GRANT"
  PROVE  /\ trx[p].bet \in BetIds /\ trx[p].row \in Bet
         /\ Owner(trx[p].bet) \in Registered
         /\ users' = users /\ Registered' = Registered
         /\ bets' = [bets EXCEPT ![trx[p].bet] = trx[p].row]
         /\ \/ IsStaking(p) /\ trx[p].kind = "BET_PLACED"
            \/ /\ trx[p].kind \in Closings
               /\ Exclusive(BetRow(trx[p].bet)) \in trx[p].held
<1>1. /\ users' = users /\ bets' = [bets EXCEPT ![trx[p].bet] = trx[p].row]
      /\ trx[p].pc = "post"
  BY DEF Commit, Ready
<1>2. Registered' = Registered
  BY <1>1 DEF Registered
<1>3. trx[p].kind \in Kinds
  BY <1>1 DEF IInv, Standing, Posting
<1>4. CASE trx[p].kind = "BET_PLACED"
  <2>1. IsStaking(p)
    BY <1>1, <1>4 DEF IsStaking, Posts
  <2>2. /\ trx[p].bet \in BetIds /\ Owner(trx[p].bet) \in Registered
        /\ trx[p].row = Active(trx[p].row.stake) /\ trx[p].row.stake \in Stakes
    BY <2>1 DEF IInv, Standing, Staking
  <2>3. trx[p].row \in Bet
    BY <2>2 DEF Active, Bet
  <2> QED
    BY <1>1, <1>2, <1>4, <2>1, <2>2, <2>3
<1>5. CASE trx[p].kind \in Closings
  <2>1. Posts(p, Closings)
    BY <1>1, <1>5 DEF Posts
  <2>2. /\ trx[p].bet \in BetIds /\ bets[trx[p].bet] # NoBet
        /\ Exclusive(BetRow(trx[p].bet)) \in trx[p].held
        /\ trx[p].row = [bets[trx[p].bet] EXCEPT !.status = "CLOSED"]
    BY <2>1 DEF IInv, Standing, Closing
  <2>3. bets[trx[p].bet] \in Bet
    BY <2>2 DEF IInv, TablesOK
  <2>4. trx[p].row \in Bet
    BY <2>2, <2>3 DEF Bet
  <2>5. Owner(trx[p].bet) \in Registered
    BY <2>2 DEF IInv, Books
  <2> QED
    BY <1>1, <1>2, <1>5, <2>2, <2>4, <2>5
<1> QED
  BY <1>3, <1>4, <1>5 DEF Kinds, Closings

\* A posting touches no account whose balances row another request has locked.
LEMMA LockedIsUntouched ==
  ASSUME IInv, NEW p \in Requests, Commit(p), NEW q \in Requests, q # p,
         NEW a \in Accounts, Exclusive(BalanceRow(a)) \in trx[q].held
  PROVE  /\ New(p, a) = {} /\ Total(trx[p].legs, a) = 0
         /\ Of(a)' = Of(a) /\ balance'[a] = balance[a]
<1>1. trx[p].pc = "post" /\ trx[p].need = <<>>
  BY DEF Commit, Ready
<1>2. ToSet(trx[p].need) = {}
  <2>1. DOMAIN <<>> = {}
    OBVIOUS
  <2> QED
    BY <1>1, <2>1 DEF ToSet
<1>3. On(trx[p].legs, a) = {}
  <2>1. SUFFICES ASSUME On(trx[p].legs, a) # {} PROVE FALSE
    OBVIOUS
  <2>2. Exclusive(BalanceRow(a)) \in trx[p].held
    BY <1>1, <1>2, <2>1 DEF IInv, Standing, Posting
  <2>3. Conflict(Exclusive(BalanceRow(a)), Exclusive(BalanceRow(a)))
    BY DEF Conflict, Exclusive
  <2> QED
    BY <2>2, <2>3 DEF IInv, LocksExclude
<1>4. New(p, a) = {} /\ Total(trx[p].legs, a) = 0
  BY <1>1, <1>3, InsertedRows
<1>5. /\ Of(a)' = Of(a) \cup New(p, a)
      /\ balance' = [c \in Accounts |-> balance[c] + Total(trx[p].legs, c)]
      /\ balance[a] \in Int
  BY CommitEffect
<1> QED
  BY <1>4, <1>5

\* What the other requests found under their locks still holds after a commit.
LEMMA OthersAfterCommit ==
  ASSUME IInv, NEW p \in Requests, Commit(p), NEW q \in Requests, q # p
  PROVE  Standing(q)'
<1>1. /\ trx'[q] = trx[q] /\ lastId' = lastId /\ trx[p].pc = "post"
      /\ entries' = entries \cup Inserted(trx[p])
  BY DEF Commit, Ready, End
<1>2. Standing(q) /\ Apart /\ LocksExclude /\ TablesOK
  BY DEF IInv
<1>3. Registered \subseteq Registered'
  BY GrantWrites, BetWrites
<1>4. Registering(q)'
  <2>1. CASE trx[p].kind = "SIGNUP_GRANT"
    <3>1. /\ trx[p].user \in UserIds /\ trx[p].email \in Emails
          /\ users' = [users EXCEPT ![trx[p].user] = trx[p].email]
          /\ Registered' = Registered \cup {trx[p].user}
          /\ Exclusive(KeyEntry(trx[p].email)) \in trx[p].held
      BY <2>1, GrantWrites
    <3>2. trx[q].user # trx[p].user
      BY <1>2, <3>1 DEF Apart, UserIds
    <3>3. ASSUME Exclusive(KeyEntry(trx[q].email)) \in trx[q].held
          PROVE  trx[q].email # trx[p].email
      <4>1. SUFFICES ASSUME trx[q].email = trx[p].email PROVE FALSE
        OBVIOUS
      <4>2. Conflict(Exclusive(KeyEntry(trx[q].email)), Exclusive(KeyEntry(trx[p].email)))
        BY <4>1 DEF Conflict, Exclusive
      <4> QED
        BY <1>2, <3>1, <3>3, <4>2 DEF LocksExclude
    <3>4. DOMAIN users = UserIds
      BY <1>2 DEF TablesOK
    <3>5. trx[q].user \in UserIds => users'[trx[q].user] = users[trx[q].user]
      BY <3>1, <3>2, <3>4
    <3>6. (\A u \in Registered : users[u] # trx[q].email) /\ trx[q].email # trx[p].email
            => \A u \in Registered' : users'[u] # trx[q].email
      BY <3>1, <3>4 DEF Registered
    <3> QED
      BY <1>1, <1>2, <3>3, <3>5, <3>6 DEF Standing, Registering, Posts, Awaits
  <2>2. CASE trx[p].kind # "SIGNUP_GRANT"
    <3>1. users' = users /\ Registered' = Registered
      BY <2>2, BetWrites
    <3> QED
      BY <1>1, <1>2, <3>1 DEF Standing, Registering, Posts, Awaits
  <2> QED
    BY <2>1, <2>2
<1>5. ASSUME trx[q].bet \in BetIds
      PROVE  \/ bets'[trx[q].bet] = bets[trx[q].bet]
             \/ /\ trx[p].bet = trx[q].bet /\ bets'[trx[q].bet] \in Bet
                /\ trx[p].kind # "SIGNUP_GRANT"
  <2>1. CASE trx[p].kind = "SIGNUP_GRANT"
    BY <2>1, GrantWrites
  <2>2. CASE trx[p].kind # "SIGNUP_GRANT"
    <3>1. bets' = [bets EXCEPT ![trx[p].bet] = trx[p].row] /\ trx[p].row \in Bet
      BY <2>2, BetWrites
    <3>2. DOMAIN bets = BetIds
      BY <1>2 DEF TablesOK
    <3> QED
      BY <1>5, <2>2, <3>1, <3>2
  <2> QED
    BY <2>1, <2>2
<1>6. Staking(q)'
  <2> SUFFICES ASSUME IsStaking(q) PROVE Staking(q)'
    BY <1>1 DEF Staking, IsStaking, Posts
  <2> DEFINE w == Wallet(Owner(trx[q].bet))
  <2>1. /\ trx[q].bet \in BetIds /\ Owner(trx[q].bet) \in Registered
        /\ bets[trx[q].bet] = NoBet
        /\ trx[q].row = Active(trx[q].row.stake) /\ trx[q].row.stake \in Stakes
    BY <1>2 DEF Standing, Staking
  <2>2. trx[q].bet # trx[p].bet
    BY <1>2 DEF Apart
  <2>3. bets'[trx[q].bet] = NoBet /\ Owner(trx[q].bet) \in Registered'
    BY <1>3, <1>5, <2>1, <2>2
  <2>4. CASE Posts(q, {"BET_PLACED"})
    <3>1. /\ Exclusive(BalanceRow(w)) \in trx[q].held
          /\ balance[w] >= trx[q].row.stake
          /\ \A e \in Of(w) : e.id < trx[q].first
          /\ trx[q].legs = StakeLegs(Owner(trx[q].bet), trx[q].row.stake)
      BY <1>2, <2>4 DEF Standing, Staking
    <3>2. w \in Accounts
      BY <2>1, AccountsAreApart DEF Registered
    <3>3. w' = w
      BY <1>1
    <3>4. Of(w)' = Of(w) /\ balance'[w] = balance[w]
      <4> HIDE DEF w
      <4> QED
        BY <3>1, <3>2, <3>3, LockedIsUntouched
    <3> QED
      BY <1>1, <2>1, <2>3, <2>4, <3>1, <3>4 DEF Staking, IsStaking, Posts
  <2>5. CASE ~ Posts(q, {"BET_PLACED"})
    <3>1. trx[q].pc = "funds" => Awaits(q, Exclusive(BalanceRow(w)))
      BY <1>2 DEF Standing, Staking
    <3> QED
      BY <1>1, <2>1, <2>3, <2>5, <3>1 DEF Staking, IsStaking, Posts, Awaits
  <2> QED
    BY <2>4, <2>5
<1>7. Closing(q)'
  <2> SUFFICES ASSUME trx[q].pc = "bet" \/ Posts(q, Closings) PROVE Closing(q)'
    BY <1>1 DEF Closing, Posts
  <2>1. trx[q].bet \in BetIds /\ bets[trx[q].bet] # NoBet
    BY <1>2 DEF Standing, Closing
  <2>2. bets'[trx[q].bet] # NoBet
    <3>1. NoBet \notin Bet
      BY DEF NoBet, Bet
    <3> QED
      BY <1>5, <2>1, <3>1
  <2>3. ASSUME Posts(q, Closings) PROVE bets'[trx[q].bet] = bets[trx[q].bet]
    <3>1. Exclusive(BetRow(trx[q].bet)) \in trx[q].held
      BY <1>2, <2>3 DEF Standing, Closing
    <3>2. SUFFICES ASSUME trx[p].bet = trx[q].bet, trx[p].kind # "SIGNUP_GRANT" PROVE FALSE
      BY <1>5, <2>1
    <3>3. IsStaking(p) \/ Exclusive(BetRow(trx[p].bet)) \in trx[p].held
      BY <3>2, BetWrites
    <3>4. Conflict(Exclusive(BetRow(trx[q].bet)), Exclusive(BetRow(trx[p].bet)))
      BY <3>2 DEF Conflict, Exclusive
    <3> QED
      BY <1>2, <3>1, <3>2, <3>3, <3>4 DEF LocksExclude, Apart
  <2> QED
    BY <1>1, <1>2, <2>1, <2>2, <2>3 DEF Standing, Closing, Posts, Awaits
<1>8. Posting(q)'
  <2>1. Drawn(q)' = Drawn(q) /\ Drawn(p) \cap Drawn(q) = {}
    BY <1>1, <1>2 DEF Drawn, Apart
  <2>2. \A e \in Inserted(trx[p]) : e.id \in Drawn(p)
    BY <1>1, InsertedRows
  <2> QED
    BY <1>1, <1>2, <2>1, <2>2 DEF Standing, Posting
<1> QED
  BY <1>4, <1>6, <1>7, <1>8 DEF Standing

-----------------------------------------------------------------------------
(* the books after a commit *)

Balanced(legs) == SumFunctionOnSet(Amounts(legs), DOMAIN legs) = 0

\* Each kind of posting balances, and touches the accounts it is for: the grant ...
LEMMA GrantTotals ==
  ASSUME NEW u \in UserIds, NEW legs, legs = GrantLegs(u)
  PROVE  /\ Total(legs, MINT) = -Grant /\ Total(legs, Wallet(u)) = Grant
         /\ \A c : c # MINT /\ c # Wallet(u) => On(legs, c) = {}
         /\ Balanced(legs)
         /\ On(legs, Wallet(u)) = {2} /\ DOMAIN legs = {1, 2} /\ legs[2].amount = Grant
<1>1. Grant \in Int /\ -Grant \in Int /\ MINT # Wallet(u)
  BY LedgerAssumption, AccountsAreApart
<1>2. legs = <<Leg(MINT, -Grant), Leg(Wallet(u), Grant)>>
  BY DEF GrantLegs
<1>3. /\ Total(legs, MINT) = -Grant /\ Total(legs, Wallet(u)) = Grant
      /\ \A c : c # MINT /\ c # Wallet(u) => On(legs, c) = {}
      /\ SumFunctionOnSet(Amounts(legs), DOMAIN legs) = -Grant + Grant
  BY <1>1, <1>2, TwoLegs
<1>4. -Grant + Grant = 0
  BY <1>1
<1>5. DOMAIN legs = {1, 2} /\ legs[2].amount = Grant
  BY <1>2 DEF Leg
<1>6. On(legs, Wallet(u)) = {2}
  BY <1>1, <1>2, <1>5 DEF On, Leg
<1> QED
  BY <1>3, <1>4, <1>5, <1>6 DEF Balanced

\* ... the stake ...
LEMMA StakeTotals ==
  ASSUME NEW u \in UserIds, NEW stake \in Nat, NEW legs, legs = StakeLegs(u, stake)
  PROVE  /\ Total(legs, Wallet(u)) = -stake /\ Total(legs, ESCROW) = stake
         /\ \A c : c # Wallet(u) /\ c # ESCROW => On(legs, c) = {}
         /\ Balanced(legs)
         /\ On(legs, Wallet(u)) = {1} /\ DOMAIN legs = {1, 2}
<1>1. stake \in Int /\ -stake \in Int /\ Wallet(u) # ESCROW
  BY AccountsAreApart
<1>2. legs = <<Leg(Wallet(u), -stake), Leg(ESCROW, stake)>>
  BY DEF StakeLegs
<1>3. /\ Total(legs, Wallet(u)) = -stake /\ Total(legs, ESCROW) = stake
      /\ \A c : c # Wallet(u) /\ c # ESCROW => On(legs, c) = {}
      /\ SumFunctionOnSet(Amounts(legs), DOMAIN legs) = -stake + stake
  <2>1. PICK x \in Int : x = -stake
    BY <1>1
  <2>2. legs = <<Leg(Wallet(u), x), Leg(ESCROW, stake)>>
    BY <1>2, <2>1
  <2> QED
    BY <1>1, <2>1, <2>2, TwoLegs
<1>4. -stake + stake = 0
  BY <1>1
<1>5. DOMAIN legs = {1, 2}
  BY <1>2
<1>6. On(legs, Wallet(u)) = {1}
  BY <1>1, <1>2, <1>5 DEF On, Leg
<1> QED
  BY <1>3, <1>4, <1>5, <1>6 DEF Balanced

\* ... the loss ...
LEMMA LossTotals ==
  ASSUME NEW stake \in Nat, NEW legs, legs = LossLegs(stake)
  PROVE  /\ Total(legs, ESCROW) = -stake /\ Total(legs, HOUSE) = stake
         /\ \A c : c # ESCROW /\ c # HOUSE => On(legs, c) = {}
         /\ Balanced(legs)
<1>1. stake \in Int /\ -stake \in Int /\ ESCROW # HOUSE
  BY AccountsAreApart
<1>2. legs = <<Leg(ESCROW, -stake), Leg(HOUSE, stake)>>
  BY DEF LossLegs
<1>3. /\ Total(legs, ESCROW) = -stake /\ Total(legs, HOUSE) = stake
      /\ \A c : c # ESCROW /\ c # HOUSE => On(legs, c) = {}
      /\ SumFunctionOnSet(Amounts(legs), DOMAIN legs) = -stake + stake
  <2>1. PICK x \in Int : x = -stake
    BY <1>1
  <2>2. legs = <<Leg(ESCROW, x), Leg(HOUSE, stake)>>
    BY <1>2, <2>1
  <2> QED
    BY <1>1, <2>1, <2>2, TwoLegs
<1>4. -stake + stake = 0
  BY <1>1
<1> QED
  BY <1>3, <1>4 DEF Balanced

\* ... and the return of a stake, with what it brought.
LEMMA ReturnTotals ==
  ASSUME NEW u \in UserIds, NEW stake \in Nat, NEW profit \in Nat,
         NEW legs, legs = ReturnLegs(u, stake, profit)
  PROVE  /\ Total(legs, ESCROW) = -stake
         /\ \A c : c # ESCROW /\ c # Wallet(u) /\ c # HOUSE => On(legs, c) = {}
         /\ Balanced(legs)
         /\ \A i \in DOMAIN legs : legs[i].account = Wallet(u) => legs[i].amount >= 0
<1> DEFINE w == Wallet(u)
<1>1. /\ stake \in Int /\ -stake \in Int /\ profit \in Int /\ -profit \in Int
      /\ ESCROW # w /\ ESCROW # HOUSE /\ w # HOUSE
  BY AccountsAreApart
<1>2. CASE profit > 0
  <2>1. legs = <<Leg(ESCROW, -stake), Leg(w, stake), Leg(HOUSE, -profit), Leg(w, profit)>>
    BY <1>2 DEF ReturnLegs
  <2> HIDE DEF w
  <2>2. /\ Total(legs, ESCROW) = -stake
        /\ \A c : c # ESCROW /\ c # w /\ c # HOUSE => On(legs, c) = {}
        /\ SumFunctionOnSet(Amounts(legs), DOMAIN legs) = 0
    BY <1>1, <2>1, FourLegs
  <2>3. \A i \in DOMAIN legs : legs[i].account = w => legs[i].amount >= 0
    <3>1. DOMAIN legs = 1..4
      BY <2>1
    <3>2. /\ legs[1].account = ESCROW /\ legs[2].amount = stake
          /\ legs[3].account = HOUSE /\ legs[4].amount = profit
      BY <2>1 DEF Leg
    <3>3. \A i \in 1..4 : i = 1 \/ i = 2 \/ i = 3 \/ i = 4
      OBVIOUS
    <3> QED
      BY <1>1, <3>1, <3>2, <3>3
  <2> QED
    BY <2>2, <2>3 DEF Balanced, w
<1>3. CASE ~ profit > 0
  <2>1. legs = <<Leg(ESCROW, -stake), Leg(w, stake)>>
    BY <1>3 DEF ReturnLegs
  <2> HIDE DEF w
  <2>2. /\ Total(legs, ESCROW) = -stake
        /\ \A c : c # ESCROW /\ c # w => On(legs, c) = {}
        /\ SumFunctionOnSet(Amounts(legs), DOMAIN legs) = -stake + stake
    <3>1. PICK x \in Int : x = -stake
      BY <1>1
    <3>2. legs = <<Leg(ESCROW, x), Leg(w, stake)>>
      BY <2>1, <3>1
    <3>3. /\ Total(legs, ESCROW) = x
          /\ \A c : c # ESCROW /\ c # w => On(legs, c) = {}
          /\ SumFunctionOnSet(Amounts(legs), DOMAIN legs) = x + stake
      <4>1. ESCROW # w /\ stake \in Int
        BY <1>1
      <4> QED
        BY <3>2, <4>1, TwoLegs
    <3> QED
      BY <3>1, <3>3
  <2>3. -stake + stake = 0
    BY <1>1
  <2>4. \A i \in DOMAIN legs : legs[i].account = w => legs[i].amount >= 0
    <3>1. DOMAIN legs = {1, 2}
      BY <2>1
    <3>2. legs[1].account = ESCROW /\ legs[2].amount = stake
      BY <2>1 DEF Leg
    <3> QED
      BY <1>1, <3>1, <3>2
  <2> QED
    BY <2>2, <2>3, <2>4 DEF Balanced, w
<1> QED
  BY <1>2, <1>3

\* If the posting balances, so do the books after it.
LEMMA HealthyAfter ==
  ASSUME IInv, NEW p \in Requests, Commit(p), Balanced(trx[p].legs)
  PROVE  AlwaysHealthy'
<1> DEFINE legs == trx[p].legs
<1>1. /\ \A a : Sum(Of(a)') = Sum(Of(a)) + Total(legs, a)
      /\ balance' = [a \in Accounts |-> balance[a] + Total(legs, a)]
      /\ \A a \in Accounts : balance[a] = Sum(Of(a))
      /\ Sum(entries') = SumFunctionOnSet(Amounts(legs), DOMAIN legs)
  BY CommitEffect
<1>2. \A a \in Accounts : balance'[a] = Sum(Of(a)')
  BY <1>1
<1>3. \A a \in Accounts : Sum(Of(a))' = Sum(Of(a)')
  BY DEF Sum
<1>4. Sum(entries)' = Sum(entries')
  BY DEF Sum
<1>5. Sum(entries') = 0
  BY <1>1 DEF Balanced
<1> QED
  BY <1>2, <1>3, <1>4, <1>5 DEF AlwaysHealthy, GlobalSum, BalanceDrift

\* What is credited keeps every statement of a wallet above zero.
LEMMA UpToAfterCredit ==
  ASSUME IInv, NEW p \in Requests, Commit(p), NEW a \in Accounts, NEW k \in Nat,
         \A i \in DOMAIN trx[p].legs :
           trx[p].legs[i].account = a => trx[p].legs[i].amount >= 0,
         Sum(UpTo(a, k)) >= 0
  PROVE  Sum(UpTo(a, k))' >= 0
<1> DEFINE A == UpTo(a, k)
           B == {e \in New(p, a) : e.id =< k}
<1>1. /\ Of(a)' = Of(a) \cup New(p, a) /\ Of(a) \cap New(p, a) = {}
      /\ IsFiniteSet(Of(a))
      /\ \A e \in Of(a) \cup New(p, a) : e.amount \in Int /\ e.id \in Int
      /\ trx[p].pc = "post"
  BY CommitEffect
<1>2. IsFiniteSet(New(p, a))
  BY <1>1, InsertedRows
<1>3. UpTo(a, k)' = A \cup B /\ A \in SUBSET Of(a) /\ B \in SUBSET New(p, a)
  BY <1>1 DEF UpTo
<1>4. \A e \in New(p, a) : e.amount >= 0
  BY DEF New, Inserted
<1> HIDE DEF A, B
<1>5. /\ IsFiniteSet(A) /\ IsFiniteSet(B) /\ A \cap B = {}
      /\ \A e \in A \cup B : e.amount \in Int
  BY <1>1, <1>2, <1>3, FS_Subset
<1>6. Sum(A \cup B) = Sum(A) + Sum(B)
  BY <1>5, SumOfUnion
<1>7. Sum(A) \in Int /\ Sum(B) \in Int /\ Sum(B) >= 0
  BY <1>3, <1>4, <1>5, SumIsWhole
<1>8. Sum(A) >= 0
  BY DEF A
<1>9. Sum(UpTo(a, k))' = Sum(A \cup B)
  BY <1>3 DEF Sum
<1> QED
  BY <1>6, <1>7, <1>8, <1>9

\* Users and bets are finitely many.
LEMMA FiniteTables ==
  /\ IsFiniteSet(UserIds) /\ IsFiniteSet(BetIds)
  /\ IsFiniteSet(Registered) /\ Registered \subseteq UserIds
<1>1. IsFiniteSet(UserIds) /\ IsFiniteSet(1..MaxBets)
  BY LedgerAssumption, FS_Interval DEF UserIds
<1>2. IsFiniteSet(BetIds)
  BY <1>1, FS_Product DEF BetIds
<1>3. Registered \in SUBSET UserIds
  BY DEF Registered
<1>4. IsFiniteSet(Registered)
  BY <1>1, <1>3, FS_Subset
<1> QED
  BY <1>1, <1>2, <1>3, <1>4

\* The stake of an open bet is a number, and that of no other.
LEMMA OpenStakesCount ==
  ASSUME bets \in [BetIds -> Bet \cup {NoBet}], NEW b \in BetIds
  PROVE  OpenStake[b] \in Nat
<1>1. bets[b] \in Bet \/ bets[b] = NoBet
  OBVIOUS
<1>2. CASE bets[b] \in Bet
  <2>1. bets[b].stake \in Nat
    BY <1>2, LedgerAssumption DEF Bet
  <2> QED
    BY <2>1 DEF OpenStake
<1>3. CASE bets[b] = NoBet
  BY <1>3 DEF NoBet, OpenStake
<1> QED
  BY <1>1, <1>2, <1>3

\* A commit moves into escrow what becomes of the stake of its bet.
LEMMA EscrowAfter ==
  ASSUME IInv, NEW p \in Requests, Commit(p), NEW b \in BetIds,
         bets' \in [BetIds -> Bet \cup {NoBet}],
         \A c \in BetIds \ {b} : bets'[c] = bets[c],
         Total(trx[p].legs, ESCROW) = OpenStake'[b] - OpenStake[b]
  PROVE  /\ balance'[ESCROW] = SumFunctionOnSet(OpenStake', BetIds)
         /\ balance'[ESCROW] >= 0
<1> DEFINE f == OpenStake
           g == OpenStake'
           rest == BetIds \ {b}
<1>1. \A c \in BetIds : f[c] \in Nat
  BY OpenStakesCount DEF IInv, TablesOK
<1>2. \A c \in BetIds : g[c] \in Nat
  <2>1. ASSUME NEW c \in BetIds PROVE g[c] \in Nat
    <3>1. bets'[c] \in Bet \/ bets'[c] = NoBet
      OBVIOUS
    <3>2. CASE bets'[c] \in Bet
      <4>1. bets'[c].stake \in Nat
        BY <3>2, LedgerAssumption DEF Bet
      <4> QED
        BY <4>1 DEF OpenStake
    <3>3. CASE bets'[c] = NoBet
      BY <3>3 DEF NoBet, OpenStake
    <3> QED
      BY <3>1, <3>2, <3>3
  <2> QED
    BY <2>1
<1>3. \A c \in rest : f[c] = g[c]
  BY DEF OpenStake
<1>4. IsFiniteSet(BetIds) /\ IsFiniteSet(rest)
  BY FiniteTables, FS_Subset
<1>5. /\ balance'[ESCROW] = balance[ESCROW] + Total(trx[p].legs, ESCROW)
      /\ balance[ESCROW] = SumFunctionOnSet(f, BetIds)
  BY CommitEffect, AccountsAreApart DEF IInv, Books
<1>6. Total(trx[p].legs, ESCROW) = g[b] - f[b]
  OBVIOUS
<1> HIDE DEF f, g
<1>7. SumFunctionOnSet(f, BetIds) = f[b] + SumFunctionOnSet(f, rest)
  <2>1. \A c \in BetIds : f[c] \in Int
    BY <1>1
  <2> QED
    BY <1>4, <2>1, SumRemove
<1>8. SumFunctionOnSet(g, BetIds) = g[b] + SumFunctionOnSet(g, rest)
  <2>1. \A c \in BetIds : g[c] \in Int
    BY <1>2
  <2> QED
    BY <1>4, <2>1, SumRemove
<1>9. SumFunctionOnSet(f, rest) = SumFunctionOnSet(g, rest)
  BY <1>3, <1>4, SumOfEquals
<1>10. SumFunctionOnSet(f, rest) \in Nat /\ SumFunctionOnSet(g, BetIds) \in Nat
  BY <1>1, <1>2, <1>4, SumNotNegative
<1>11. balance'[ESCROW] = SumFunctionOnSet(g, BetIds)
  <2>1. f[b] \in Int /\ g[b] \in Int
    BY <1>1, <1>2
  <2> QED
    BY <1>5, <1>6, <1>7, <1>8, <1>9, <1>10, <2>1
<1> QED
  BY <1>10, <1>11 DEF g

\* The books after the commit of a grant.
LEMMA GrantBooks ==
  ASSUME IInv, NEW p \in Requests, Commit(p), trx[p].kind = "SIGNUP_GRANT"
  PROVE  TablesOK' /\ Books'
<1> DEFINE legs == trx[p].legs
           u == trx[p].user
           email == trx[p].email
<1>1. /\ trx[p].pc = "post" /\ lastId' = lastId
      /\ entries' = entries \cup Inserted(trx[p])
      /\ \A a : Of(a)' = Of(a) \cup New(p, a)
      /\ balance' = [a \in Accounts |-> balance[a] + Total(legs, a)]
      /\ \A a \in Accounts : balance[a] \in Int
      /\ entries' \subseteq Entry /\ IsFiniteSet(entries')
      /\ \A e \in entries' : e.id =< lastId'
  BY CommitEffect
<1>2. /\ u \in UserIds /\ email \in Emails
      /\ users[u] = NoUser
      /\ users' = [users EXCEPT ![u] = email] /\ bets' = bets
      /\ Registered' = Registered \cup {u} /\ u \notin Registered
      /\ legs = GrantLegs(u)
      /\ \A v \in Registered : users[v] # email
  BY GrantWrites
<1>3. /\ Total(legs, MINT) = -Grant /\ Total(legs, Wallet(u)) = Grant
      /\ \A c : c # MINT /\ c # Wallet(u) => On(legs, c) = {}
      /\ Balanced(legs)
      /\ On(legs, Wallet(u)) = {2} /\ DOMAIN legs = {1, 2} /\ legs[2].amount = Grant
  BY <1>2, GrantTotals
<1>4. \A a : On(legs, a) = {} => New(p, a) = {} /\ Total(legs, a) = 0
  BY <1>1, InsertedRows
<1>5. TablesOK /\ Books
  BY DEF IInv
<1>6. /\ MINT \in Accounts /\ ESCROW \in Accounts /\ HOUSE \in Accounts
      /\ MINT # ESCROW /\ MINT # HOUSE /\ ESCROW # HOUSE
      /\ \A v \in UserIds : /\ Wallet(v) \in Accounts \ {MINT, ESCROW, HOUSE}
                            /\ \A w \in UserIds : Wallet(v) = Wallet(w) => v = w
  BY AccountsAreApart
<1>7. Grant \in Nat /\ Grant > 0
  BY LedgerAssumption
<1>8. AlwaysHealthy'
  BY <1>3, HealthyAfter
<1> HIDE DEF legs, u, email
<1>9. \A a \in Accounts \ {MINT, Wallet(u)} : balance'[a] = balance[a]
  BY <1>1, <1>3, <1>4
<1>10. balance'[MINT] = balance[MINT] - Grant /\ balance'[Wallet(u)] = balance[Wallet(u)] + Grant
  BY <1>1, <1>2, <1>3, <1>6, <1>7
<1>11. TablesOK'
  <2>1. users' \in [UserIds -> Emails \cup {NoUser}]
    BY <1>2, <1>5 DEF TablesOK
  <2>2. balance' \in [Accounts -> Int]
    <3>1. \A a \in Accounts : balance'[a] \in Int
      BY <1>1, <1>7, <1>9, <1>10
    <3> QED
      BY <1>1, <3>1
  <2>3. ASSUME NEW a \in Accounts \ {MINT, HOUSE} PROVE balance'[a] >= 0
    <3>1. balance[a] >= 0 /\ balance[a] \in Int
      BY <1>1, <1>5 DEF TablesOK
    <3> QED
      BY <1>7, <1>9, <1>10, <3>1
  <2> QED
    BY <1>1, <1>2, <1>5, <2>1, <2>2, <2>3 DEF TablesOK
<1>12. balance'[ESCROW] = SumFunctionOnSet(OpenStake, BetIds)'
  <2>1. OpenStake' = OpenStake
    BY <1>2 DEF OpenStake
  <2>2. balance'[ESCROW] = balance[ESCROW]
    BY <1>2, <1>6, <1>9
  <2> QED
    BY <1>5, <2>1, <2>2 DEF Books
<1>13. \A b \in BetIds : bets'[b] # NoBet => Owner(b) \in Registered'
  BY <1>2, <1>5 DEF Books
<1>14. ASSUME NEW v \in UserIds, v # u
       PROVE  Of(Wallet(v))' = Of(Wallet(v))
  BY <1>1, <1>2, <1>3, <1>4, <1>6, <1>14
<1>15. \A v \in UserIds \ Registered' : Of(Wallet(v))' = {}
  BY <1>2, <1>5, <1>14 DEF Books
<1>16. RegisteredOnce'
  <2>1. RegisteredOnce
    BY <1>5 DEF Books
  <2>2. \A v, w \in Registered' : users'[v] = users'[w] => v = w
    <3>1. \A v, w \in Registered : users[v] = users[w] => v = w
      BY <2>1 DEF RegisteredOnce
    <3>2. DOMAIN users = UserIds /\ Registered \subseteq UserIds
      BY <1>5 DEF TablesOK, Registered
    <3>3. users'[u] = email /\ \A v \in Registered : users'[v] = users[v]
      BY <1>2, <3>2
    <3> QED
      BY <1>2, <3>1, <3>3
  <2>3. ASSUME NEW v \in UserIds
        PROVE  Cardinality(Grants(v)') = IF v \in Registered' THEN 1 ELSE 0
    <3>1. CASE v = u
      <4>1. Of(Wallet(v)) = {}
        BY <1>2, <1>5, <3>1 DEF Books
      <4>2. Of(Wallet(v))' = New(p, Wallet(v))
        BY <1>1, <4>1
      <4>3. New(p, Wallet(v)) = {EntryOf(trx[p], 2)}
        BY <1>3, <3>1 DEF New, Inserted, EntryOf, On, legs
      <4>4. EntryOf(trx[p], 2).kind = "SIGNUP_GRANT"
        BY DEF EntryOf
      <4>5. Grants(v)' = {EntryOf(trx[p], 2)}
        BY <4>2, <4>3, <4>4 DEF Grants
      <4> QED
        BY <1>2, <3>1, <4>5, FS_Singleton
    <3>2. CASE v # u
      <4>1. Grants(v)' = Grants(v)
        BY <1>14, <3>2 DEF Grants
      <4>2. Cardinality(Grants(v)) = IF v \in Registered THEN 1 ELSE 0
        BY <2>1 DEF RegisteredOnce, Grants
      <4> QED
        BY <1>2, <3>2, <4>1, <4>2
    <3> QED
      BY <3>1, <3>2
  <2>4. CreditsInCirculation' = Grant * Cardinality(Registered')
    <3>1. -balance[MINT] = Grant * Cardinality(Registered)
      BY <2>1 DEF RegisteredOnce, CreditsInCirculation
    <3>2. Cardinality(Registered') = Cardinality(Registered) + 1
      BY <1>2, FiniteTables, FS_AddElement
    <3>3. Cardinality(Registered) \in Nat
      BY FiniteTables, FS_CardinalityType
    <3>4. -balance'[MINT] = -balance[MINT] + Grant
      BY <1>1, <1>6, <1>7, <1>10
    <3>5. Grant * (Cardinality(Registered) + 1) = Grant * Cardinality(Registered) + Grant
      BY <1>7, <3>3
    <3> QED
      BY <3>1, <3>2, <3>4, <3>5 DEF CreditsInCirculation
  <2> QED
    BY <2>2, <2>3, <2>4 DEF RegisteredOnce, Grants
<1>17. ASSUME NEW v \in UserIds, NEW k \in Nat
       PROVE  Sum(UpTo(Wallet(v), k))' >= 0
  <2>1. Sum(UpTo(Wallet(v), k)) >= 0 /\ Wallet(v) \in Accounts
    BY <1>5, <1>6 DEF Books
  <2>2. \A i \in DOMAIN legs : legs[i].account = Wallet(v) => legs[i].amount >= 0
    <3>1. ASSUME NEW i \in DOMAIN legs, legs[i].account = Wallet(v)
          PROVE  legs[i].amount >= 0
      <4>1. i \in On(legs, Wallet(v))
        BY <3>1 DEF On
      <4>2. v = u /\ i = 2
        BY <1>2, <1>3, <1>6, <4>1
      <4> QED
        BY <1>3, <1>7, <4>2
    <3> QED
      BY <3>1
  <2> QED
    BY <2>1, <2>2, UpToAfterCredit DEF legs
<1> QED
  BY <1>1, <1>8, <1>11, <1>12, <1>13, <1>15, <1>16, <1>17 DEF Books

\* The row of a bet after the commit of its posting, and what its escrow gets.
LEMMA BetTotals ==
  ASSUME IInv, NEW p \in Requests, Commit(p), trx[p].kind # "SIGNUP_GRANT"
  PROVE  /\ Total(trx[p].legs, ESCROW) = OpenStake'[trx[p].bet] - OpenStake[trx[p].bet]
         /\ Balanced(trx[p].legs)
         /\ \A c : c # ESCROW /\ c # HOUSE /\ c # Wallet(Owner(trx[p].bet))
                     => On(trx[p].legs, c) = {}
         /\ \/ /\ trx[p].kind = "BET_PLACED"
               /\ trx[p].row.stake \in Nat
               /\ trx[p].legs = StakeLegs(Owner(trx[p].bet), trx[p].row.stake)
               /\ balance[Wallet(Owner(trx[p].bet))] >= trx[p].row.stake
               /\ \A e \in Of(Wallet(Owner(trx[p].bet))) : e.id < trx[p].first
            \/ \A u \in UserIds : \A i \in DOMAIN trx[p].legs :
                 trx[p].legs[i].account = Wallet(u) => trx[p].legs[i].amount >= 0
<1> DEFINE b == trx[p].bet
           row == trx[p].row
           legs == trx[p].legs
           u == Owner(b)
<1>1. /\ b \in BetIds /\ row \in Bet
      /\ u \in Registered
      /\ bets' = [bets EXCEPT ![b] = row]
      /\ (IsStaking(p) /\ trx[p].kind = "BET_PLACED") \/ trx[p].kind \in Closings
  BY BetWrites
<1>2. trx[p].pc = "post" /\ DOMAIN bets = BetIds /\ Standing(p) /\ u \in UserIds
  BY <1>1 DEF Commit, Ready, IInv, TablesOK, Registered
<1>3. bets'[b] = row
  BY <1>1, <1>2
<1>4. OpenStake'[b] = IF row.status = "ACTIVE" THEN row.stake ELSE 0
  BY <1>1, <1>3 DEF OpenStake
<1>5. OpenStake[b] = IF bets[b].status = "ACTIVE" THEN bets[b].stake ELSE 0
  BY <1>1 DEF OpenStake
<1>6. CASE trx[p].kind = "BET_PLACED"
  <2>1. Posts(p, {"BET_PLACED"}) /\ IsStaking(p)
    BY <1>2, <1>6 DEF Posts, IsStaking
  <2>2. /\ bets[b] = NoBet /\ row = Active(row.stake) /\ row.stake \in Stakes
        /\ balance[Wallet(u)] >= row.stake
        /\ \A e \in Of(Wallet(u)) : e.id < trx[p].first
        /\ legs = StakeLegs(u, row.stake)
    BY <1>2, <2>1 DEF Standing, Staking
  <2>3. Stakes \subseteq Nat
    BY LedgerAssumption
  <2>4. row.stake \in Nat /\ row.status = "ACTIVE"
    BY <2>2, <2>3 DEF Active
  <2>5. bets[b].status # "ACTIVE"
    BY <2>2 DEF NoBet
  <2> HIDE DEF b, row, legs, u
  <2>6. /\ Total(legs, ESCROW) = row.stake
        /\ \A c : c # Wallet(u) /\ c # ESCROW => On(legs, c) = {}
        /\ Balanced(legs)
    BY <1>2, <2>2, <2>4, StakeTotals
  <2>7. Total(legs, ESCROW) = OpenStake'[b] - OpenStake[b]
    BY <1>4, <1>5, <2>4, <2>5, <2>6
  <2> QED
    BY <1>6, <2>2, <2>4, <2>6, <2>7 DEF b, row, legs, u
<1>7. CASE trx[p].kind \in Closings
  <2>1. Posts(p, Closings)
    BY <1>2, <1>7 DEF Posts
  <2> DEFINE stake == bets[b].stake
  <2>2. /\ bets[b].status = "ACTIVE" /\ bets[b] # NoBet
        /\ row = [bets[b] EXCEPT !.status = "CLOSED"]
        /\ \/ legs = LossLegs(stake)
           \/ \E profit \in Profits : legs = ReturnLegs(u, stake, profit)
    BY <1>2, <2>1 DEF Standing, Closing
  <2>3. bets[b] \in Bet
    BY <1>1, <2>2 DEF IInv, TablesOK
  <2>4. stake \in Nat /\ row.status = "CLOSED"
    BY <2>2, <2>3, LedgerAssumption DEF Bet
  <2>5. OpenStake'[b] = 0 /\ OpenStake[b] = stake
    BY <1>4, <1>5, <2>2, <2>4
  <2> HIDE DEF b, row, legs, u, stake
  <2>6. /\ Total(legs, ESCROW) = -stake
        /\ Balanced(legs)
        /\ \A c : c # ESCROW /\ c # HOUSE /\ c # Wallet(u) => On(legs, c) = {}
        /\ \A v \in UserIds : \A i \in DOMAIN legs :
             legs[i].account = Wallet(v) => legs[i].amount >= 0
    <3>1. CASE legs = LossLegs(stake)
      <4>1. /\ Total(legs, ESCROW) = -stake
            /\ \A c : c # ESCROW /\ c # HOUSE => On(legs, c) = {}
            /\ Balanced(legs)
        BY <2>4, <3>1, LossTotals
      <4>2. \A v \in UserIds : On(legs, Wallet(v)) = {}
        BY <4>1, AccountsAreApart
      <4> QED
        BY <4>1, <4>2 DEF On
    <3>2. CASE \E profit \in Profits : legs = ReturnLegs(u, stake, profit)
      <4>1. PICK profit \in Profits : legs = ReturnLegs(u, stake, profit)
        BY <3>2
      <4>2. profit \in Nat
        BY LedgerAssumption
      <4>3. /\ Total(legs, ESCROW) = -stake
            /\ \A c : c # ESCROW /\ c # Wallet(u) /\ c # HOUSE => On(legs, c) = {}
            /\ Balanced(legs)
            /\ \A i \in DOMAIN legs : legs[i].account = Wallet(u) => legs[i].amount >= 0
        BY <1>2, <2>4, <4>1, <4>2, ReturnTotals
      <4>4. ASSUME NEW v \in UserIds, NEW i \in DOMAIN legs, legs[i].account = Wallet(v)
            PROVE  legs[i].amount >= 0
        <5>1. On(legs, Wallet(v)) # {}
          BY <4>4 DEF On
        <5>2. Wallet(v) # ESCROW /\ Wallet(v) # HOUSE
          BY AccountsAreApart
        <5>3. Wallet(v) = Wallet(u)
          BY <4>3, <5>1, <5>2
        <5> QED
          BY <4>3, <4>4, <5>3
      <4> QED
        BY <4>3, <4>4
    <3> QED
      BY <2>2, <3>1, <3>2
  <2>7. Total(legs, ESCROW) = OpenStake'[b] - OpenStake[b]
    BY <2>4, <2>5, <2>6
  <2> QED
    BY <2>6, <2>7 DEF b, row, legs, u
<1> QED
  BY <1>1, <1>6, <1>7

\* A stake is the last entry of its wallet, which can pay for it.
LEMMA UpToAfterStake ==
  ASSUME IInv, NEW p \in Requests, Commit(p), NEW u \in UserIds, NEW stake \in Nat,
         trx[p].legs = StakeLegs(u, stake), balance[Wallet(u)] >= stake,
         \A e \in Of(Wallet(u)) : e.id < trx[p].first,
         NEW k \in Nat, Sum(UpTo(Wallet(u), k)) >= 0
  PROVE  Sum(UpTo(Wallet(u), k))' >= 0
<1> DEFINE w == Wallet(u)
<1>1. /\ Of(w)' = Of(w) \cup New(p, w)
      /\ \A e \in Of(w) : e.id \in Int
      /\ Sum(Of(w)') = Sum(Of(w)) + Total(trx[p].legs, w)
      /\ trx[p].pc = "post"
  BY CommitEffect
<1>2. balance[w] = Sum(Of(w)) /\ balance[w] \in Int
  BY CommitEffect, AccountsAreApart
<1>3. /\ Total(trx[p].legs, w) = -stake
      /\ On(trx[p].legs, w) = {1} /\ DOMAIN trx[p].legs = {1, 2}
  BY StakeTotals
<1>4. trx[p].first \in Nat
  BY <1>1 DEF IInv, Standing, Posting
<1>5. \A e \in New(p, w) : e.id = trx[p].first
  <2>1. ASSUME NEW e \in New(p, w) PROVE e.id = trx[p].first
    <3>1. PICK i \in DOMAIN trx[p].legs :
            e = [id |-> trx[p].first + i - 1, account |-> trx[p].legs[i].account,
                 amount |-> trx[p].legs[i].amount, kind |-> trx[p].kind]
      BY DEF New, Inserted
    <3>2. trx[p].legs[i].account = w
      BY <3>1 DEF New
    <3>3. i = 1
      BY <1>3, <3>2 DEF On
    <3> QED
      BY <1>4, <3>1, <3>3
  <2> QED
    BY <2>1
<1> HIDE DEF w
<1>6. CASE k < trx[p].first
  <2>1. UpTo(w, k)' = UpTo(w, k)
    BY <1>1, <1>4, <1>5, <1>6 DEF UpTo
  <2> QED
    BY <2>1 DEF Sum, w
<1>7. CASE k >= trx[p].first
  <2>1. \A e \in Of(w) : e.id =< k
    BY <1>1, <1>4, <1>7 DEF w
  <2>2. UpTo(w, k)' = Of(w)'
    BY <1>1, <1>4, <1>5, <1>7, <2>1 DEF UpTo
  <2>3. Sum(Of(w)') >= 0
    BY <1>1, <1>2, <1>3 DEF w
  <2> QED
    BY <2>2, <2>3 DEF Sum, w
<1> QED
  BY <1>4, <1>6, <1>7

\* The books after the commit of a stake or a closing.
LEMMA BetBooks ==
  ASSUME IInv, NEW p \in Requests, Commit(p), trx[p].kind # "SIGNUP_GRANT"
  PROVE  TablesOK' /\ Books'
<1> DEFINE legs == trx[p].legs
           b == trx[p].bet
           u == Owner(b)
<1>1. /\ trx[p].pc = "post" /\ lastId' = lastId
      /\ entries' = entries \cup Inserted(trx[p])
      /\ \A a : Of(a)' = Of(a) \cup New(p, a)
      /\ balance' = [a \in Accounts |-> balance[a] + Total(legs, a)]
      /\ \A a \in Accounts : balance[a] \in Int /\ balance[a] = Sum(Of(a))
      /\ entries' \subseteq Entry /\ IsFiniteSet(entries')
      /\ \A e \in entries' : e.id =< lastId'
  BY CommitEffect
<1>2. /\ b \in BetIds /\ trx[p].row \in Bet /\ u \in Registered
      /\ users' = users /\ Registered' = Registered
      /\ bets' = [bets EXCEPT ![b] = trx[p].row]
  BY BetWrites
<1>3. /\ Total(legs, ESCROW) = OpenStake'[b] - OpenStake[b]
      /\ Balanced(legs)
      /\ \A c : c # ESCROW /\ c # HOUSE /\ c # Wallet(u) => On(legs, c) = {}
      /\ \/ /\ trx[p].kind = "BET_PLACED"
            /\ trx[p].row.stake \in Nat
            /\ legs = StakeLegs(u, trx[p].row.stake)
            /\ balance[Wallet(u)] >= trx[p].row.stake
            /\ \A e \in Of(Wallet(u)) : e.id < trx[p].first
         \/ \A v \in UserIds : \A i \in DOMAIN legs :
              legs[i].account = Wallet(v) => legs[i].amount >= 0
  BY BetTotals
<1>4. /\ \A a : On(legs, a) = {} => New(p, a) = {} /\ Total(legs, a) = 0
      /\ \A a : Total(legs, a) \in Int
      /\ \A e \in Inserted(trx[p]) : e.kind = trx[p].kind
  BY <1>1, InsertedRows
<1>5. TablesOK /\ Books
  BY DEF IInv
<1>6. /\ MINT \in Accounts /\ ESCROW \in Accounts /\ HOUSE \in Accounts
      /\ MINT # ESCROW /\ MINT # HOUSE /\ ESCROW # HOUSE
      /\ \A v \in UserIds : /\ Wallet(v) \in Accounts \ {MINT, ESCROW, HOUSE}
                            /\ \A w \in UserIds : Wallet(v) = Wallet(w) => v = w
      /\ \A a \in Accounts \ {MINT, ESCROW, HOUSE} : \E v \in UserIds : a = Wallet(v)
  BY AccountsAreApart
<1>7. AlwaysHealthy'
  BY <1>3, HealthyAfter
<1>8. /\ bets' \in [BetIds -> Bet \cup {NoBet}]
      /\ \A c \in BetIds \ {b} : bets'[c] = bets[c]
  BY <1>2, <1>5 DEF TablesOK
<1>9. balance'[ESCROW] = SumFunctionOnSet(OpenStake', BetIds) /\ balance'[ESCROW] >= 0
  BY <1>2, <1>3, <1>8, EscrowAfter
<1> HIDE DEF legs, b, u
<1>10. \A a \in Accounts : balance'[a] \in Int
  BY <1>1, <1>4
<1>11. u \in UserIds
  BY <1>2 DEF Registered
<1>12. ASSUME NEW v \in UserIds, NEW k \in Nat
       PROVE  Sum(UpTo(Wallet(v), k))' >= 0
  <2>1. Sum(UpTo(Wallet(v), k)) >= 0 /\ Wallet(v) \in Accounts
    BY <1>5, <1>6 DEF Books
  <2>2. CASE \A i \in DOMAIN legs : legs[i].account = Wallet(v) => legs[i].amount >= 0
    BY <2>1, <2>2, UpToAfterCredit DEF legs
  <2>3. CASE /\ trx[p].row.stake \in Nat
             /\ legs = StakeLegs(u, trx[p].row.stake)
             /\ balance[Wallet(u)] >= trx[p].row.stake
             /\ \A e \in Of(Wallet(u)) : e.id < trx[p].first
    <3>1. CASE v = u
      BY <1>11, <2>1, <2>3, <3>1, UpToAfterStake DEF legs
    <3>2. CASE v # u
      <4>1. New(p, Wallet(v)) = {}
        BY <1>3, <1>4, <1>6, <1>11, <3>2
      <4>2. UpTo(Wallet(v), k)' = UpTo(Wallet(v), k)
        BY <1>1, <4>1 DEF UpTo
      <4> QED
        BY <2>1, <4>2 DEF Sum
    <3> QED
      BY <3>1, <3>2
  <2> QED
    BY <1>3, <2>2, <2>3
<1>13. ASSUME NEW v \in UserIds PROVE balance'[Wallet(v)] >= 0
  <2>1. /\ Total(legs, Wallet(v)) \in Int
        /\ balance'[Wallet(v)] = Sum(Of(Wallet(v))')
    <3>1. Sum(Of(Wallet(v)))' = balance'[Wallet(v)]
      BY <1>6, <1>7 DEF AlwaysHealthy, BalanceDrift
    <3> QED
      BY <1>4, <3>1 DEF Sum
  <2>2. /\ lastId' \in Nat /\ \A e \in Of(Wallet(v))' : e.id =< lastId'
    BY <1>1, <1>5, LedgerAssumption DEF TablesOK, Of
  <2>3. UpTo(Wallet(v), lastId)' = Of(Wallet(v))'
    BY <1>1, <2>2 DEF UpTo
  <2>4. Sum(UpTo(Wallet(v), lastId))' >= 0
    BY <1>1, <1>12, <2>2 DEF UpTo, Sum
  <2> QED
    BY <2>1, <2>3, <2>4 DEF Sum
<1>14. TablesOK'
  <2>1. balance' \in [Accounts -> Int]
    BY <1>1, <1>10
  <2>2. \A a \in Accounts \ {MINT, HOUSE} : balance'[a] >= 0
    BY <1>6, <1>9, <1>13
  <2> QED
    BY <1>1, <1>2, <1>5, <1>8, <2>1, <2>2 DEF TablesOK
<1>15. \A c \in BetIds : bets'[c] # NoBet => Owner(c) \in Registered'
  BY <1>2, <1>5, <1>8 DEF Books, u
<1>16. \A v \in UserIds \ Registered' : Of(Wallet(v))' = {}
  <2>1. ASSUME NEW v \in UserIds, v \notin Registered PROVE Of(Wallet(v))' = {}
    <3>1. New(p, Wallet(v)) = {}
      BY <1>2, <1>3, <1>4, <1>6, <1>11, <2>1
    <3>2. Of(Wallet(v)) = {}
      BY <1>5, <2>1 DEF Books
    <3> QED
      BY <1>1, <3>1, <3>2
  <2> QED
    BY <1>2, <2>1
<1>17. RegisteredOnce'
  <2>1. RegisteredOnce
    BY <1>5 DEF Books
  <2>2. ASSUME NEW v \in UserIds PROVE Grants(v)' = Grants(v)
    BY <1>1, <1>4 DEF Grants, New
  <2>3. balance'[MINT] = balance[MINT]
    <3>1. Total(legs, MINT) = 0
      BY <1>3, <1>4, <1>6, <1>11
    <3> QED
      BY <1>1, <1>6, <3>1
  <2> QED
    BY <1>2, <2>1, <2>2, <2>3 DEF RegisteredOnce, CreditsInCirculation, Grants
<1> QED
  BY <1>1, <1>7, <1>9, <1>12, <1>14, <1>15, <1>16, <1>17 DEF Books

\* A commit keeps the invariant.
LEMMA CommitStep ==
  ASSUME IInv, NEW p \in Requests, Commit(p)
  PROVE  IInv'
<1>1. End(p)
  BY DEF Commit
<1>2. /\ DOMAIN trx' = Requests /\ DOMAIN trx'[p] = Fields
      /\ \A q \in Requests \ {p} : trx'[q] = trx[q]
      /\ trx'[p].held = {} /\ trx'[p].user = 0 /\ trx'[p].bet = <<>>
      /\ Standing(p)' /\ Drawn(p)' = {} /\ ~ IsStaking(p)'
  BY <1>1, EndEffect DEF IInv
<1>3. TablesOK' /\ Books'
  BY GrantBooks, BetBooks
<1>4. Shape'
  BY <1>2 DEF IInv, Shape
<1>5. LocksExclude'
  BY <1>2, NoNewLock DEF IInv
<1>6. \A q \in Requests : Standing(q)'
  BY <1>2, OthersAfterCommit
<1>7. Apart'
  <2>1. Apart
    BY DEF IInv
  <2>2. \A q \in Requests : IsStaking(q) => trx[q].bet # <<>>
    BY StakedIsNamed
  <2>3. ASSUME NEW q \in Requests, NEW r \in Requests, q # r
        PROVE  /\ trx'[q].user = trx'[r].user => trx'[q].user = 0
               /\ Drawn(q)' \cap Drawn(r)' = {}
               /\ IsStaking(q)' => trx'[q].bet # trx'[r].bet
    <3>1. CASE q = p
      BY <1>2, <2>3, <3>1
    <3>2. CASE r = p
      BY <1>2, <2>2, <2>3, <3>2 DEF IsStaking, Posts
    <3>3. CASE q # p /\ r # p
      BY <1>2, <2>1, <2>3, <3>3 DEF Apart, Drawn, IsStaking, Posts
    <3> QED
      BY <3>1, <3>2, <3>3
  <2> QED
    BY <2>3 DEF Apart
<1> QED
  BY <1>3, <1>4, <1>5, <1>6, <1>7 DEF IInv

-----------------------------------------------------------------------------
(* the invariant *)

\* A step that changes neither table nor transaction keeps the invariant.
LEMMA ReaderKeepsIInv ==
  ASSUME IInv, UNCHANGED <<tables, trx>>
  PROVE  IInv'
<1>1. /\ UNCHANGED rows /\ lastId' = lastId /\ trx' = trx
      /\ users' = users /\ bets' = bets /\ entries' = entries /\ balance' = balance
  BY DEF tables, rows
<1>2. TablesOK' /\ Shape'
  BY <1>1 DEF IInv, TablesOK, Shape
<1>3. lastId \in Nat
  BY LedgerAssumption DEF IInv, TablesOK
<1>4. Books'
  BY <1>1, <1>3, SameBooks DEF IInv
<1>5. LocksExclude' /\ Apart'
  BY <1>1 DEF IInv, LocksExclude, Apart, Drawn, IsStaking, Posts
<1>6. \A q \in Requests : Standing(q)'
  BY <1>1, <1>3, OthersStand DEF IInv
<1> QED
  BY <1>2, <1>4, <1>5, <1>6 DEF IInv

\* The empty ledger.
LEMMA InitIInv ==
  ASSUME Init
  PROVE  IInv
<1>1. /\ users = [u \in UserIds |-> NoUser]
      /\ bets = [b \in BetIds |-> NoBet]
      /\ entries = {}
      /\ balance = [a \in Accounts |-> 0]
      /\ lastId = 0
      /\ trx = [p \in Requests |-> Idle]
  BY DEF Init
<1>2. TablesOK
  BY <1>1, LedgerAssumption DEF TablesOK, Entry
<1>3. Shape
  BY <1>1 DEF Shape, Idle, Fields
<1>4. ASSUME NEW p \in Requests
      PROVE  /\ trx[p].held = {} /\ trx[p].user = 0 /\ Drawn(p) = {} /\ ~ IsStaking(p)
             /\ Standing(p)
  BY <1>1, <1>4 DEF Idle, Drawn, IsStaking, Posts, Standing, Registering, Staking, Closing,
                    Posting
<1>5. LocksExclude
  BY <1>4 DEF LocksExclude
<1>6. Apart
  BY <1>4 DEF Apart
<1>7. Registered = {} /\ \A a : Of(a) = {}
  BY <1>1 DEF Registered, Of
<1>8. Sum({}) = 0
  <2> DEFINE f == [e \in {} |-> e.amount]
  <2>1. DOMAIN f = {}
    OBVIOUS
  <2>2. Sum({}) = SumFunctionOnSet(f, {})
    BY <2>1 DEF Sum, SumFunction
  <2> QED
    BY <2>2, SumOfNone
<1>9. Books
  <2>1. IsFiniteSet(entries)
    BY <1>1, FS_EmptySet
  <2>2. AlwaysHealthy
    BY <1>1, <1>7, <1>8 DEF AlwaysHealthy, GlobalSum, BalanceDrift
  <2>3. balance[ESCROW] = SumFunctionOnSet(OpenStake, BetIds)
    <3>1. \A b \in BetIds : OpenStake[b] = 0
      BY <1>1 DEF OpenStake, NoBet
    <3>2. SumFunctionOnSet(OpenStake, BetIds) = 0
      BY <3>1, FiniteTables, SumOfZeros
    <3> QED
      BY <1>1, <3>2, AccountsAreApart
  <2>4. RegisteredOnce
    <3>1. Cardinality({}) = 0
      BY FS_EmptySet
    <3>2. \A u \in UserIds : {e \in Of(Wallet(u)) : e.kind = "SIGNUP_GRANT"} = {}
      BY <1>7
    <3>3. CreditsInCirculation = 0
      <4>1. \A x \in Int : -x = 0 - x
        OBVIOUS
      <4>2. balance[MINT] = 0
        BY <1>1, AccountsAreApart
      <4>3. CreditsInCirculation = 0 - balance[MINT]
        <5>1. balance[MINT] \in Int
          BY <4>2
        <5> QED
          BY <4>1, <5>1 DEF CreditsInCirculation
      <4> QED
        BY <4>2, <4>3
    <3>4. Grant * 0 = 0
      BY LedgerAssumption
    <3> QED
      BY <1>7, <3>1, <3>2, <3>3, <3>4 DEF RegisteredOnce
  <2>5. \A u \in UserIds : \A k \in Nat : Sum(UpTo(Wallet(u), k)) >= 0
    <3>1. \A a, k : UpTo(a, k) = {}
      BY <1>7 DEF UpTo
    <3> QED
      BY <1>8, <3>1
  <2>6. \A b \in BetIds : bets[b] = NoBet
    BY <1>1
  <2> QED
    BY <1>1, <1>7, <2>1, <2>2, <2>3, <2>4, <2>5, <2>6 DEF Books
<1> QED
  BY <1>2, <1>3, <1>4, <1>5, <1>6, <1>9 DEF IInv

\* Every step keeps the invariant.
LEMMA NextKeepsIInv ==
  ASSUME IInv, [Next]_vars
  PROVE  IInv'
<1>1. ASSUME NEW p \in Requests, Register(p) PROVE IInv'
  <2>1. ASSUME NEW email \in Emails, BeginRegister(p, email) PROVE IInv'
    BY <2>1, BeginRegisterStep
  <2>2. CASE InsertUser(p)
    BY <2>2, InsertUserStep
  <2>3. CASE RefuseRegistered(p)
    BY <2>3, RefusalStep
  <2>4. CASE GrantCredits(p)
    BY <2>4, GrantCreditsStep
  <2> QED
    BY <1>1, <2>1, <2>2, <2>3, <2>4 DEF Register
<1>2. ASSUME NEW p \in Requests, PlaceBet(p) PROVE IInv'
  <2>1. ASSUME NEW b \in BetIds, NEW stake \in Stakes, BeginStake(p, b, stake) PROVE IInv'
    BY <2>1, BeginStakeStep
  <2>2. CASE RefuseInsufficientFunds(p)
    BY <2>2, RefusalStep
  <2>3. CASE PostStake(p)
    BY <2>3, PostStakeStep
  <2> QED
    BY <1>2, <2>1, <2>2, <2>3 DEF PlaceBet
<1>3. ASSUME NEW p \in Requests, CloseBet(p) PROVE IInv'
  <2>1. ASSUME NEW b \in BetIds, BeginClose(p, b) PROVE IInv'
    BY <2>1, BeginCloseStep
  <2>2. CASE RefuseClosed(p)
    BY <2>2, RefusalStep
  <2>3. CASE PostClosing(p)
    BY <2>3, PostClosingStep
  <2> QED
    BY <1>3, <2>1, <2>2, <2>3 DEF CloseBet
<1>4. ASSUME NEW p \in Requests, AcquireLock(p) PROVE IInv'
  BY <1>4, AcquireLockStep
<1>5. ASSUME NEW p \in Requests, Commit(p) PROVE IInv'
  BY <1>5, CommitStep
<1>6. ASSUME NEW p \in Requests, AbortDeadlock(p) \/ Lose(p) PROVE IInv'
  BY <1>6, RefusalStep
<1>7. CASE Read
  <2>1. UNCHANGED <<tables, trx>>
    BY <1>7 DEF Read, BeginHistory, GetHistory, BeginListing, ListUsers
  <2> QED
    BY <2>1, ReaderKeepsIInv
<1>8. CASE UNCHANGED vars
  <2>1. UNCHANGED <<tables, trx>>
    BY <1>8 DEF vars, tables
  <2> QED
    BY <2>1, ReaderKeepsIInv
<1> QED
  BY <1>1, <1>2, <1>3, <1>4, <1>5, <1>6, <1>7, <1>8 DEF Next

\* The invariant holds of every behaviour.
LEMMA Invariance == Spec => []IInv
<1>1. Init => IInv
  BY InitIInv
<1>2. IInv /\ [Next]_vars => IInv'
  BY NextKeepsIInv
<1> QED
  BY <1>1, <1>2, PTL DEF Spec

\* The overview and the health check never raise a false alarm: with any number
\* of transactions in flight or lost, what has committed sums to zero, and each
\* cached balance is the sum of its entries.
THEOREM BooksAreHealthy == Spec => []AlwaysHealthy
<1>1. IInv => AlwaysHealthy
  BY DEF IInv, Books
<1> QED
  BY <1>1, Invariance, PTL

\* However sign-ups with one e-mail interleave, one account and one grant come
\* of it, and the credits in circulation are the grants.
THEOREM OneAccountOneGrant == Spec => []RegisteredOnce
<1>1. IInv => RegisteredOnce
  BY DEF IInv, Books
<1> QED
  BY <1>1, Invariance, PTL

\* Added up in the order of its ids, no statement of a wallet ever dips below
\* zero, though ids are not in the order of the commits.
THEOREM WalletsNeverDip == Spec => []StatementsNeverDip
<1>1. IInv => StatementsNeverDip
  <2> SUFFICES ASSUME IInv, NEW u \in UserIds, NEW e \in Of(Wallet(u))
               PROVE  Sum({d \in Of(Wallet(u)) : d.id =< e.id}) >= 0
    BY DEF StatementsNeverDip
  <2>1. e.id \in Nat
    <3>1. e.id \in 1..MaxEntries
      BY DEF IInv, TablesOK, Of, Entry
    <3> QED
      BY <3>1, LedgerAssumption
  <2>2. Sum(UpTo(Wallet(u), e.id)) >= 0
    BY <2>1 DEF IInv, Books
  <2> QED
    BY <2>2 DEF UpTo
<1> QED
  BY <1>1, Invariance, PTL

-----------------------------------------------------------------------------
(* readers *)

ReaderFields == {"view", "account", "type", "start", "shown", "cursor", "more"}
Shown == UserIds \cup 1..MaxEntries
Rank(x, S) == Cardinality({y \in S : y > x})

\* What a client is to be shown is shown, or lies ahead of its cursor: below
\* the last id it has seen, or behind the rows the offset skips.
Reading ==
  /\ DOMAIN reader = ReaderFields
  /\ reader.shown \in Seq(Shown)
  /\ reader.view \in {"none", "history", "users"}
  /\ reader.view = "history" =>
       /\ reader.cursor \in Nat
       /\ reader.start \subseteq Statement(reader.account, reader.type)
       /\ \A i, j \in DOMAIN reader.shown : i < j => reader.shown[i] > reader.shown[j]
       /\ reader.more => \A i \in DOMAIN reader.shown : reader.shown[i] >= reader.cursor
       /\ \A id \in reader.start :
            id \in ToSet(reader.shown) \/ (reader.more /\ id < reader.cursor)
  /\ reader.view = "users" =>
       /\ reader.cursor \in Nat
       /\ reader.start \subseteq Registered
       /\ \A u \in reader.start :
            u \in ToSet(reader.shown) \/ (reader.more /\ Rank(u, Registered) >= reader.cursor)

\* Ids are numbers, and those of a statement finitely many.
LEMMA StatementIds ==
  ASSUME IInv, NEW account, NEW type
  PROVE  /\ Statement(account, type) \subseteq 1..MaxEntries
         /\ 1..MaxEntries \subseteq Nat /\ IsFiniteSet(1..MaxEntries)
         /\ IsFiniteSet(Statement(account, type))
<1>1. \A e \in entries : e.id \in 1..MaxEntries
  BY DEF IInv, TablesOK, Entry
<1>2. Statement(account, type) \in SUBSET 1..MaxEntries
  BY <1>1 DEF Statement, Of
<1>3. 1..MaxEntries \subseteq Nat /\ IsFiniteSet(1..MaxEntries)
  BY LedgerAssumption, FS_Interval
<1>4. IsFiniteSet(Statement(account, type))
  BY <1>2, <1>3, FS_Subset
<1> QED
  BY <1>2, <1>3, <1>4

\* Users are numbers too, and the rank of each is one.
LEMMA RanksOfUsers ==
  /\ UserIds \subseteq Nat /\ Registered \subseteq Nat /\ IsFiniteSet(Registered)
  /\ \A u \in Registered : Rank(u, Registered) \in Nat
<1>1. UserIds \subseteq Nat
  BY LedgerAssumption DEF UserIds
<1>2. IsFiniteSet(Registered) /\ Registered \subseteq UserIds
  BY FiniteTables
<1>3. ASSUME NEW u \in Registered PROVE Rank(u, Registered) \in Nat
  <2>1. {y \in Registered : y > u} \in SUBSET Registered
    OBVIOUS
  <2> QED
    BY <1>2, <2>1, FS_Subset, FS_CardinalityType DEF Rank
<1> QED
  BY <1>1, <1>2, <1>3

\* Nothing is ever taken out of the tables.
LEMMA TablesGrow ==
  ASSUME IInv, [Next]_vars
  PROVE  /\ entries \subseteq entries' /\ Registered \subseteq Registered'
         /\ reader' = reader \/ (Read /\ UNCHANGED <<tables, trx>>)
<1>1. ASSUME UNCHANGED rows PROVE entries \subseteq entries' /\ Registered \subseteq Registered'
  BY <1>1 DEF rows, Registered
<1>2. ASSUME NEW p \in Requests, Commit(p)
      PROVE  entries \subseteq entries' /\ Registered \subseteq Registered' /\ reader' = reader
  BY <1>2, GrantWrites, BetWrites DEF Commit
<1>3. ASSUME NEW p \in Requests,
             Register(p) \/ PlaceBet(p) \/ CloseBet(p)
               \/ AcquireLock(p) \/ AbortDeadlock(p) \/ Lose(p)
      PROVE  UNCHANGED rows /\ reader' = reader
  BY <1>3 DEF Register, PlaceBet, CloseBet, AcquireLock, AbortDeadlock, Lose,
              BeginRegister, InsertUser, RefuseRegistered, GrantCredits,
              BeginStake, RefuseInsufficientFunds, PostStake,
              BeginClose, RefuseClosed, PostClosing, tables, rows
<1>4. CASE Read
  <2>1. UNCHANGED <<tables, trx>>
    BY <1>4 DEF Read, BeginHistory, GetHistory, BeginListing, ListUsers
  <2> QED
    BY <1>1, <1>4, <2>1 DEF tables, rows
<1>5. CASE UNCHANGED vars
  BY <1>1, <1>5 DEF vars, rows
<1> QED
  BY <1>1, <1>2, <1>3, <1>4, <1>5 DEF Next

\* Rows that arrive while a client reads leave what it is to be shown ahead.
LEMMA ArrivalsStepReading ==
  ASSUME IInv, IInv', Reading, reader' = reader,
         entries \subseteq entries', Registered \subseteq Registered'
  PROVE  Reading'
<1>1. Statement(reader.account, reader.type) \subseteq Statement(reader.account, reader.type)'
  BY DEF Statement, Of
<1>2. ASSUME NEW u \in Registered PROVE Rank(u, Registered) =< Rank(u, Registered')
  <2> DEFINE A == {y \in Registered : y > u}
             B == {y \in Registered' : y > u}
  <2>1. IsFiniteSet(Registered')
    <3>1. IsFiniteSet(UserIds) /\ Registered' \in SUBSET UserIds
      BY FiniteTables DEF Registered
    <3> QED
      BY <3>1, FS_Subset
  <2>2. B \in SUBSET Registered' /\ A \in SUBSET B
    OBVIOUS
  <2> HIDE DEF A, B
  <2>3. IsFiniteSet(B) /\ Cardinality(A) =< Cardinality(B)
    BY <2>1, <2>2, FS_Subset
  <2> QED
    BY <2>3 DEF Rank, A, B
<1>3. ASSUME NEW u \in Registered
      PROVE  Rank(u, Registered) \in Int /\ Rank(u, Registered') \in Int
  <2>1. IsFiniteSet(Registered')
    <3>1. IsFiniteSet(UserIds) /\ Registered' \in SUBSET UserIds
      BY FiniteTables DEF Registered
    <3> QED
      BY <3>1, FS_Subset
  <2>2. {y \in Registered' : y > u} \in SUBSET Registered'
    OBVIOUS
  <2>3. Rank(u, Registered') \in Int
    BY <2>1, <2>2, FS_Subset, FS_CardinalityType DEF Rank
  <2> QED
    BY <2>3, RanksOfUsers
<1>4. CASE reader.view = "history"
  BY <1>1, <1>4 DEF Reading
<1>5. CASE reader.view = "users"
  <2>1. /\ reader.cursor \in Nat /\ reader.start \subseteq Registered
        /\ \A u \in reader.start :
             u \in ToSet(reader.shown) \/ (reader.more /\ Rank(u, Registered) >= reader.cursor)
    BY <1>5 DEF Reading
  <2>2. ASSUME NEW u \in reader.start
        PROVE  u \in ToSet(reader.shown)
                 \/ (reader.more /\ Rank(u, Registered') >= reader.cursor)
    <3>1. CASE Rank(u, Registered) >= reader.cursor
      <4>1. Rank(u, Registered) =< Rank(u, Registered')
        BY <1>2, <2>1
      <4>2. Rank(u, Registered) \in Int /\ Rank(u, Registered') \in Int
        BY <1>3, <2>1
      <4>3. Rank(u, Registered') >= reader.cursor
        BY <2>1, <3>1, <4>1, <4>2
      <4> QED
        BY <2>1, <4>3
    <3> QED
      BY <2>1, <3>1
  <2>3. \A u : Rank(u, Registered)' = Rank(u, Registered')
    BY DEF Rank
  <2> QED
    BY <1>5, <2>1, <2>2, <2>3 DEF Reading
<1>6. CASE reader.view = "none"
  BY <1>6 DEF Reading
<1> QED
  BY <1>4, <1>5, <1>6 DEF Reading

\* What the next page shows, in its order.
LEMMA PageEffect ==
  ASSUME NEW S, S \subseteq Nat, IsFiniteSet(S), NEW page \in Descending(S)
  PROVE  /\ page \in Seq(S) /\ ToSet(page) = S /\ Len(page) = Cardinality(S)
         /\ \A i, j \in DOMAIN page : i < j => page[i] > page[j]
<1>1. page \in SetToSeqs(S) /\ \A i, j \in DOMAIN page : i < j => page[i] > page[j]
  BY DEF Descending
<1>2. page \in Seq(S) /\ ToSet(page) = S
  BY <1>1, SeqsEnumerate
<1>3. S \in SUBSET S
  OBVIOUS
<1>4. Len(page) = Cardinality(S)
  BY <1>1, <1>3, SeqsAreTyped
<1> QED
  BY <1>1, <1>2, <1>4

\* A page is added to those shown before.
LEMMA ShownAndPage ==
  ASSUME NEW T, NEW s \in Seq(T), NEW page \in Seq(T)
  PROVE  /\ s \o page \in Seq(T)
         /\ ToSet(s \o page) = ToSet(s) \cup ToSet(page)
         /\ \A i \in DOMAIN (s \o page) :
              \/ i \in DOMAIN s /\ (s \o page)[i] = s[i]
              \/ /\ i - Len(s) \in DOMAIN page /\ i > Len(s)
                 /\ (s \o page)[i] = page[i - Len(s)]
<1>1. /\ Len(s) \in Nat /\ Len(page) \in Nat
      /\ DOMAIN s = 1..Len(s) /\ DOMAIN page = 1..Len(page)
      /\ s \o page \in Seq(T)
      /\ Len(s \o page) = Len(s) + Len(page)
      /\ DOMAIN (s \o page) = 1..(Len(s) + Len(page))
  OBVIOUS
<1>2. /\ \A i \in 1..Len(s) : (s \o page)[i] = s[i]
      /\ \A i \in 1..Len(page) : (s \o page)[Len(s) + i] = page[i]
  BY <1>1
<1>3. ASSUME NEW i \in DOMAIN (s \o page)
      PROVE  \/ i \in DOMAIN s /\ (s \o page)[i] = s[i]
             \/ /\ i - Len(s) \in DOMAIN page /\ i > Len(s)
                /\ (s \o page)[i] = page[i - Len(s)]
  <2>1. CASE i =< Len(s)
    BY <1>1, <1>2, <2>1
  <2>2. CASE i > Len(s)
    <3>1. i - Len(s) \in 1..Len(page) /\ Len(s) + (i - Len(s)) = i
      BY <1>1, <2>2
    <3> QED
      BY <1>1, <1>2, <2>2, <3>1
  <2> QED
    BY <1>1, <2>1, <2>2
<1>4. ToSet(s \o page) \subseteq ToSet(s) \cup ToSet(page)
  BY <1>3 DEF ToSet
<1>5. ToSet(s) \subseteq ToSet(s \o page)
  BY <1>1, <1>2 DEF ToSet
<1>6. ToSet(page) \subseteq ToSet(s \o page)
  <2>1. \A i \in 1..Len(page) : Len(s) + i \in 1..(Len(s) + Len(page))
    BY <1>1
  <2> QED
    BY <1>1, <1>2, <2>1 DEF ToSet
<1> QED
  BY <1>1, <1>3, <1>4, <1>5, <1>6

\* A page is a window of PageSize ranks: none is longer, and one that somebody
\* stands behind is full.
LEMMA PageFits ==
  ASSUME NEW S, S \subseteq Nat, IsFiniteSet(S), NEW n \in Nat
  PROVE  /\ IsFiniteSet(Page(S, n)) /\ Cardinality(Page(S, n)) =< PageSize
         /\ \A x \in S : Rank(x, S) >= n + PageSize => Cardinality(Page(S, n)) >= PageSize
<1>1. PageSize \in Nat
  BY LedgerAssumption
<1>2. Page(S, n) = Window(S, n, PageSize)
  BY Zenon DEF Page, Window, Above
<1>3. IsFiniteSet(Window(S, n, PageSize)) /\ Cardinality(Window(S, n, PageSize)) =< PageSize
  BY <1>1, WindowSize
<1>4. ASSUME NEW x \in S, Rank(x, S) >= n + PageSize
      PROVE  Cardinality(Window(S, n, PageSize)) >= PageSize
  <2>1. Cardinality(Above(S, x)) >= n + PageSize
    BY <1>4, Zenon DEF Rank, Above
  <2> QED
    BY <1>1, <2>1, FullWindow
<1> QED
  BY <1>2, <1>3, <1>4, Zenon

\* The first page holds everything, or PageSize rows with nothing newer left out.
LEMMA FirstPage ==
  ASSUME NEW S, S \subseteq Nat, IsFiniteSet(S)
  PROVE  /\ Page(S, 0) \subseteq S
         /\ Cardinality(S) =< PageSize => Page(S, 0) = S
         /\ Cardinality(S) > PageSize => Page(S, 0) # {}
         /\ \A x \in S \ Page(S, 0) : \A y \in Page(S, 0) : x < y
<1> DEFINE R(x) == Cardinality({y \in S : y > x})
           W == Page(S, 0)
<1>1. PageSize \in Nat /\ PageSize > 0
  BY LedgerAssumption
<1>2. ASSUME NEW x \in S PROVE R(x) \in Nat /\ R(x) < Cardinality(S)
  <2> DEFINE A == {y \in S : y > x}
  <2>1. A \in SUBSET S /\ x \notin A
    <3>1. x \in Nat
      OBVIOUS
    <3> QED
      BY <3>1
  <2> HIDE DEF A
  <2>2. /\ Cardinality(A) =< Cardinality(S) /\ IsFiniteSet(A)
        /\ Cardinality(S) = Cardinality(A) => S = A
    BY <2>1, FS_Subset
  <2>3. Cardinality(A) \in Nat /\ Cardinality(S) \in Nat
    BY <2>2, FS_CardinalityType
  <2>4. Cardinality(A) < Cardinality(S)
    BY <2>1, <2>2, <2>3
  <2> QED
    BY <2>3, <2>4 DEF A
<1>3. W = {x \in S : R(x) \in 0..(0 + PageSize - 1)}
  BY DEF Page
<1>4. Cardinality(S) \in Nat
  BY FS_CardinalityType
<1> HIDE DEF W
<1>5. W \subseteq S
  BY <1>3
<1>6. ASSUME NEW x \in S, R(x) < PageSize PROVE x \in W
  <2>1. R(x) \in 0..(0 + PageSize - 1)
    BY <1>1, <1>2, <1>6
  <2> QED
    BY <1>3, <2>1
<1>7. Cardinality(S) =< PageSize => W = S
  <2>1. ASSUME Cardinality(S) =< PageSize, NEW x \in S PROVE x \in W
    <3>1. R(x) < PageSize
      BY <1>1, <1>2, <1>4, <2>1
    <3> QED
      BY <1>6, <3>1
  <2> QED
    BY <1>5, <2>1
<1>8. Cardinality(S) > PageSize => W # {}
  <2> SUFFICES ASSUME Cardinality(S) > PageSize, W = {} PROVE FALSE
    OBVIOUS
  <2>1. PICK x \in S : TRUE
    <3>1. S # {}
      <4>1. Cardinality({}) = 0
        BY FS_EmptySet
      <4> QED
        BY <1>1, <4>1
    <3> QED
      BY <3>1
  <2>2. R(x) >= 0 + PageSize
    <3>1. ~ R(x) < PageSize
      BY <1>6
    <3> QED
      BY <1>1, <1>2, <3>1
  <2>3. Cardinality(W) >= PageSize
    <3>1. 0 \in Nat /\ Rank(x, S) >= 0 + PageSize
      BY <2>2 DEF Rank
    <3>2. Cardinality(Page(S, 0)) >= PageSize
      BY <3>1, PageFits
    <3> QED
      BY <3>2 DEF W
  <2>4. Cardinality(W) = 0
    BY FS_EmptySet
  <2> QED
    BY <1>1, <2>3, <2>4
<1>9. ASSUME NEW x \in S, x \notin W, NEW y \in W PROVE x < y
  <2>1. /\ x \in Nat /\ y \in Nat /\ y \in S /\ x # y
        /\ R(y) \in Nat /\ R(x) \in Nat /\ R(y) =< PageSize - 1
    BY <1>1, <1>2, <1>3, <1>5, <1>9
  <2>2. ~ R(x) < PageSize
    BY <1>6, <1>9
  <2>3. CASE y < x
    <3>1. R(x) < R(y)
      BY <2>1, <2>3, LesserRanksLower
    <3> HIDE DEF R
    <3> QED
      BY <1>1, <2>1, <2>2, <3>1
  <2> QED
    BY <2>1, <2>3
<1> QED
  BY <1>5, <1>7, <1>8, <1>9 DEF W

\* A page of history.
LEMMA GetHistoryReading ==
  ASSUME IInv, Reading, GetHistory
  PROVE  Reading'
<1> DEFINE rest == RowsAfterCursor
           P == Page(rest, 0)
           more == Cardinality(rest) > PageSize
           S == Statement(reader.account, reader.type)
<1>1. /\ reader.view = "history" /\ reader.more
      /\ UNCHANGED <<tables, trx>>
  BY DEF GetHistory
<1>2. PICK page \in Descending(P) :
        reader' = [reader EXCEPT !.shown = @ \o page, !.more = more,
                                 !.cursor = IF more THEN Last(page) ELSE @]
  BY DEF GetHistory
<1>3. /\ DOMAIN reader = ReaderFields
      /\ reader.shown \in Seq(Shown)
      /\ reader.cursor \in Nat
      /\ reader.start \subseteq S
      /\ \A i, j \in DOMAIN reader.shown : i < j => reader.shown[i] > reader.shown[j]
      /\ \A i \in DOMAIN reader.shown : reader.shown[i] >= reader.cursor
      /\ \A id \in reader.start : id \in ToSet(reader.shown) \/ id < reader.cursor
  BY <1>1 DEF Reading
<1>4. /\ DOMAIN reader' = ReaderFields
      /\ reader'.view = "history" /\ reader'.account = reader.account
      /\ reader'.type = reader.type /\ reader'.start = reader.start
      /\ reader'.shown = reader.shown \o page /\ reader'.more = more
      /\ reader'.cursor = IF more THEN Last(page) ELSE reader.cursor
  BY <1>1, <1>2, <1>3 DEF ReaderFields
<1>5. S' = S
  BY <1>1, <1>4 DEF tables, Statement, Of
<1>6. /\ rest = {id \in S : id < reader.cursor} /\ rest \subseteq Shown
      /\ S \subseteq Nat /\ IsFiniteSet(S) /\ Shown \subseteq Nat
  <2>1. S \subseteq 1..MaxEntries /\ 1..MaxEntries \subseteq Nat /\ IsFiniteSet(S)
    BY StatementIds
  <2> QED
    BY <2>1, RanksOfUsers DEF RowsAfterCursor, Shown
<1> HIDE DEF S, rest
<1>7. rest \subseteq Nat /\ IsFiniteSet(rest)
  <2>1. rest \in SUBSET S
    BY <1>6
  <2> QED
    BY <1>6, <2>1, FS_Subset
<1>8. /\ P \subseteq rest
      /\ ~ more => P = rest
      /\ more => P # {}
      /\ \A x \in rest \ P : \A y \in P : x < y
  <2>1. /\ P \subseteq rest
        /\ Cardinality(rest) =< PageSize => P = rest
        /\ Cardinality(rest) > PageSize => P # {}
        /\ \A x \in rest \ P : \A y \in P : x < y
    BY <1>7, FirstPage
  <2>2. Cardinality(rest) \in Nat /\ PageSize \in Nat
    BY <1>7, LedgerAssumption, FS_CardinalityType
  <2> QED
    BY <2>1, <2>2
<1> HIDE DEF P, more
<1>9. /\ page \in Seq(P) /\ ToSet(page) = P
      /\ \A i, j \in DOMAIN page : i < j => page[i] > page[j]
  <2>1. P \subseteq Nat /\ P \in SUBSET rest
    BY <1>7, <1>8
  <2>2. IsFiniteSet(P)
    BY <1>7, <2>1, FS_Subset
  <2> QED
    BY <2>1, <2>2, PageEffect
<1>10. page \in Seq(Shown)
  <2>1. P \subseteq Shown
    BY <1>6, <1>8
  <2> QED
    BY <1>9, <2>1
<1>11. /\ reader'.shown \in Seq(Shown)
       /\ ToSet(reader'.shown) = ToSet(reader.shown) \cup P
       /\ \A i \in DOMAIN reader'.shown :
            \/ i \in DOMAIN reader.shown /\ reader'.shown[i] = reader.shown[i]
            \/ /\ i - Len(reader.shown) \in DOMAIN page /\ i > Len(reader.shown)
               /\ reader'.shown[i] = page[i - Len(reader.shown)]
  BY <1>3, <1>4, <1>9, <1>10, ShownAndPage
<1>12. \A i \in DOMAIN page : page[i] \in P /\ page[i] \in Nat /\ page[i] < reader.cursor
  BY <1>6, <1>7, <1>8, <1>9 DEF ToSet
<1>13. /\ Len(reader.shown) \in Nat /\ DOMAIN reader.shown = 1..Len(reader.shown)
       /\ \A i \in DOMAIN reader.shown : reader.shown[i] \in Nat
       /\ Len(page) \in Nat /\ DOMAIN page = 1..Len(page)
       /\ DOMAIN reader'.shown = 1..Len(reader'.shown) /\ Len(reader'.shown) \in Nat
  <2>1. DOMAIN reader.shown = 1..Len(reader.shown) /\ Len(reader.shown) \in Nat
    BY <1>3
  <2>2. \A i \in DOMAIN reader.shown : reader.shown[i] \in Shown
    BY <1>3
  <2>3. Len(page) \in Nat /\ DOMAIN page = 1..Len(page)
    BY <1>10
  <2>4. DOMAIN reader'.shown = 1..Len(reader'.shown) /\ Len(reader'.shown) \in Nat
    BY <1>11
  <2> QED
    BY <1>6, <2>1, <2>2, <2>3, <2>4
<1>14. ASSUME NEW i \in DOMAIN reader'.shown, NEW j \in DOMAIN reader'.shown, i < j
       PROVE  reader'.shown[i] > reader'.shown[j]
  <2> DEFINE n == Len(reader.shown)
  <2>1. i \in Int /\ j \in Int /\ n \in Nat
    BY <1>13
  <2>2. CASE j \in DOMAIN reader.shown /\ reader'.shown[j] = reader.shown[j]
    <3>1. i =< n
      BY <1>13, <1>14, <2>1, <2>2
    <3>2. i \in DOMAIN reader.shown /\ reader'.shown[i] = reader.shown[i]
      BY <1>11, <2>1, <3>1
    <3> QED
      BY <1>3, <1>14, <2>2, <3>2
  <2>3. CASE /\ j - n \in DOMAIN page /\ j > n
             /\ reader'.shown[j] = page[j - n]
    <3>1. CASE i \in DOMAIN reader.shown /\ reader'.shown[i] = reader.shown[i]
      <4>1. reader.shown[i] >= reader.cursor /\ reader.shown[i] \in Nat
        BY <1>3, <1>13, <3>1
      <4>2. page[j - n] < reader.cursor /\ page[j - n] \in Nat
        BY <1>12, <2>3
      <4> QED
        BY <1>3, <2>3, <3>1, <4>1, <4>2
    <3>2. CASE /\ i - n \in DOMAIN page /\ i > n
               /\ reader'.shown[i] = page[i - n]
      <4>1. i - n < j - n
        BY <1>14, <2>1
      <4> QED
        BY <1>9, <2>3, <3>2, <4>1
    <3> QED
      BY <1>11, <3>1, <3>2
  <2> QED
    BY <1>11, <2>2, <2>3
<1>15. CASE ~ more
  <2>1. ASSUME NEW id \in reader.start PROVE id \in ToSet(reader'.shown)
    <3>1. id \in ToSet(reader.shown) \/ id \in rest
      BY <1>3, <1>6
    <3> QED
      BY <1>8, <1>11, <1>15, <3>1
  <2> QED
    BY <1>3, <1>4, <1>5, <1>11, <1>14, <1>15, <2>1 DEF Reading, S
<1>16. CASE more
  <2> DEFINE last == Last(page)
  <2>1. /\ Len(page) \in DOMAIN page /\ last = page[Len(page)]
    <3>1. page # <<>>
      <4>1. P # {}
        BY <1>8, <1>16
      <4>2. DOMAIN <<>> = {}
        OBVIOUS
      <4> QED
        BY <1>9, <4>1, <4>2 DEF ToSet
    <3>2. Len(page) # 0
      BY <1>9, <3>1
    <3> QED
      BY <1>13, <3>2 DEF Last
  <2>2. last \in P /\ last \in Nat /\ last < reader.cursor
    BY <1>12, <2>1
  <2> HIDE DEF last
  <2>3. reader'.cursor = last
    BY <1>4, <1>16 DEF last
  <2>4. ASSUME NEW i \in DOMAIN page PROVE page[i] >= last
    <3>1. i = Len(page) \/ i < Len(page)
      BY <1>13
    <3> QED
      BY <1>9, <1>12, <2>1, <2>2, <3>1
  <2>5. ASSUME NEW i \in DOMAIN reader'.shown PROVE reader'.shown[i] >= last
    <3>1. CASE i \in DOMAIN reader.shown /\ reader'.shown[i] = reader.shown[i]
      <4>1. reader.shown[i] >= reader.cursor /\ reader.shown[i] \in Nat
        BY <1>3, <1>13, <3>1
      <4> QED
        BY <1>3, <2>2, <3>1, <4>1
    <3>2. CASE /\ i - Len(reader.shown) \in DOMAIN page
               /\ reader'.shown[i] = page[i - Len(reader.shown)]
      BY <2>4, <3>2
    <3> QED
      BY <1>11, <3>1, <3>2
  <2>6. ASSUME NEW id \in reader.start PROVE id \in ToSet(reader'.shown) \/ id < last
    <3>1. id \in ToSet(reader.shown) \/ id \in rest
      BY <1>3, <1>6
    <3>2. id \in rest => id \in P \/ id < last
      BY <1>8, <2>2
    <3> QED
      BY <1>11, <3>1, <3>2
  <2> QED
    BY <1>3, <1>4, <1>5, <1>11, <1>14, <1>16, <2>2, <2>3, <2>5, <2>6 DEF Reading, S
<1> QED
  BY <1>15, <1>16

\* A page of players.
LEMMA ListUsersReading ==
  ASSUME IInv, Reading, ListUsers
  PROVE  Reading'
<1> DEFINE P == Page(Registered, reader.cursor)
<1>1. /\ reader.view = "users" /\ reader.more
      /\ UNCHANGED <<tables, trx>>
  BY DEF ListUsers
<1>2. PICK page \in Descending(P) :
        reader' = [reader EXCEPT !.shown = @ \o page, !.cursor = @ + PageSize,
                                 !.more = Len(page) = PageSize]
  BY DEF ListUsers, RowsAtOffset
<1>3. /\ DOMAIN reader = ReaderFields
      /\ reader.shown \in Seq(Shown)
      /\ reader.cursor \in Nat
      /\ reader.start \subseteq Registered
      /\ \A u \in reader.start :
           u \in ToSet(reader.shown) \/ Rank(u, Registered) >= reader.cursor
  BY <1>1 DEF Reading
<1>4. /\ DOMAIN reader' = ReaderFields
      /\ reader'.view = "users" /\ reader'.start = reader.start
      /\ reader'.shown = reader.shown \o page
      /\ reader'.more = (Len(page) = PageSize)
      /\ reader'.cursor = reader.cursor + PageSize
  BY <1>1, <1>2, <1>3 DEF ReaderFields
<1>5. Registered' = Registered
  BY <1>1 DEF tables, Registered
<1>6. /\ Registered \subseteq Nat /\ IsFiniteSet(Registered)
      /\ \A u \in Registered : Rank(u, Registered) \in Nat
  BY RanksOfUsers
<1>7. PageSize \in Nat
  BY LedgerAssumption
<1>8. P = {x \in Registered : Cardinality({y \in Registered : y > x})
                                \in reader.cursor..(reader.cursor + PageSize - 1)}
  BY DEF Page
<1> HIDE DEF P
<1>9. P \subseteq Registered /\ IsFiniteSet(P) /\ Cardinality(P) =< PageSize
      /\ Cardinality(P) \in Nat
  <2>1. P \subseteq Registered
    BY <1>8
  <2>2. IsFiniteSet(P) /\ Cardinality(P) =< PageSize
    BY <1>3, <1>6, PageFits DEF P
  <2> QED
    BY <2>1, <2>2, FS_CardinalityType
<1>10. page \in Seq(P) /\ ToSet(page) = P /\ Len(page) = Cardinality(P)
  <2>1. P \subseteq Nat
    BY <1>6, <1>9
  <2> QED
    BY <1>9, <2>1, PageEffect
<1>11. page \in Seq(Shown)
  <2>1. P \subseteq Shown
    BY <1>9 DEF Registered, Shown
  <2> QED
    BY <1>10, <2>1
<1>12. /\ reader'.shown \in Seq(Shown)
       /\ ToSet(reader'.shown) = ToSet(reader.shown) \cup P
  BY <1>3, <1>4, <1>10, <1>11, ShownAndPage
<1>13. ASSUME NEW u \in reader.start
       PROVE  \/ u \in ToSet(reader'.shown)
              \/ reader'.more /\ Rank(u, Registered) >= reader'.cursor
  <2>1. u \in Registered /\ Rank(u, Registered) \in Nat
    BY <1>3, <1>6
  <2>2. CASE u \in ToSet(reader.shown)
    BY <1>12, <2>2
  <2>3. CASE Rank(u, Registered) \in reader.cursor..(reader.cursor + PageSize - 1)
    <3>1. u \in P
      BY <1>8, <2>1, <2>3 DEF Rank
    <3> QED
      BY <1>12, <3>1
  <2>4. CASE Rank(u, Registered) >= reader.cursor + PageSize
    <3>1. Rank(u, Registered) >= reader.cursor + PageSize
      BY <2>4
    <3>2. Cardinality(P) >= PageSize
      BY <1>3, <1>6, <2>1, <3>1, PageFits DEF P
    <3>3. Len(page) = PageSize
      BY <1>7, <1>9, <1>10, <3>2
    <3> QED
      BY <1>4, <2>4, <3>3
  <2> QED
    BY <1>3, <1>7, <2>1, <2>2, <2>3, <2>4
<1>14. \A u : Rank(u, Registered)' = Rank(u, Registered)
  BY <1>5 DEF Rank
<1>15. reader'.cursor \in Nat
  BY <1>3, <1>4, <1>7
<1> QED
  BY <1>3, <1>4, <1>5, <1>12, <1>13, <1>14, <1>15 DEF Reading

\* A client that begins has everything ahead of it.
LEMMA BeginReading ==
  ASSUME IInv, Reading,
         \/ \E u \in UserIds, type \in ReferenceTypes : BeginHistory(u, type)
         \/ BeginListing
  PROVE  Reading'
<1>1. UNCHANGED <<tables, trx>> /\ DOMAIN <<>> = {} /\ <<>> \in Seq(Shown)
  <2>1. UNCHANGED <<tables, trx>>
    BY DEF BeginHistory, BeginListing
  <2>2. DOMAIN <<>> = {} /\ <<>> \in Seq(Shown)
    OBVIOUS
  <2> QED
    BY <2>1, <2>2
<1>2. Registered' = Registered /\ \A a, type : Statement(a, type)' = Statement(a, type)
  BY <1>1 DEF tables, Registered, Statement, Of
<1>3. CASE \E u \in UserIds, type \in ReferenceTypes : BeginHistory(u, type)
  <2>1. PICK u \in UserIds, type \in ReferenceTypes : BeginHistory(u, type)
    BY <1>3
  <2>2. reader' = [NoReader EXCEPT !.view = "history", !.account = Wallet(u),
                                   !.type = type, !.cursor = MaxEntries + 1, !.more = TRUE,
                                   !.start = Statement(Wallet(u), type)]
    BY <2>1 DEF BeginHistory
  <2>3. /\ DOMAIN reader' = ReaderFields
        /\ reader'.view = "history" /\ reader'.account = Wallet(u) /\ reader'.type = type
        /\ reader'.start = Statement(Wallet(u), type) /\ reader'.shown = <<>>
        /\ reader'.more = TRUE /\ reader'.cursor = MaxEntries + 1
    BY <2>2 DEF NoReader, ReaderFields
  <2>4. MaxEntries \in Nat
    BY LedgerAssumption
  <2>5. \A id \in Statement(Wallet(u), type) : id < MaxEntries + 1
    <3>1. Statement(Wallet(u), type) \subseteq 1..MaxEntries
      BY StatementIds
    <3> QED
      BY <2>4, <3>1
  <2> QED
    BY <1>1, <1>2, <2>3, <2>4, <2>5 DEF Reading
<1>4. CASE BeginListing
  <2>1. reader' = [NoReader EXCEPT !.view = "users", !.more = TRUE, !.start = Registered]
    BY <1>4 DEF BeginListing
  <2>2. /\ DOMAIN reader' = ReaderFields
        /\ reader'.view = "users" /\ reader'.start = Registered /\ reader'.shown = <<>>
        /\ reader'.more = TRUE /\ reader'.cursor = 0
    BY <2>1 DEF NoReader, ReaderFields
  <2>3. \A u \in Registered : Rank(u, Registered) >= 0
    BY RanksOfUsers
  <2>4. \A u : Rank(u, Registered)' = Rank(u, Registered)
    BY <1>2 DEF Rank
  <2> QED
    BY <1>1, <1>2, <2>2, <2>3, <2>4 DEF Reading
<1> QED
  BY <1>3, <1>4

\* What clients have been shown, and will be, in every behaviour.
LEMMA ReadingInvariance == Spec => [](IInv /\ Reading)
<1>1. Init => Reading
  BY DEF Init, Reading, NoReader, ReaderFields
<1>2. IInv /\ Reading /\ [Next]_vars => IInv' /\ Reading'
  <2> SUFFICES ASSUME IInv, Reading, [Next]_vars PROVE IInv' /\ Reading'
    OBVIOUS
  <2>1. IInv'
    BY NextKeepsIInv
  <2>2. /\ entries \subseteq entries' /\ Registered \subseteq Registered'
        /\ reader' = reader \/ (Read /\ UNCHANGED <<tables, trx>>)
    BY TablesGrow
  <2>3. CASE reader' = reader
    BY <2>1, <2>2, <2>3, ArrivalsStepReading
  <2>4. CASE Read
    <3>1. CASE GetHistory
      BY <2>1, <3>1, GetHistoryReading
    <3>2. CASE ListUsers
      BY <2>1, <3>2, ListUsersReading
    <3>3. CASE \/ \E u \in UserIds, type \in ReferenceTypes : BeginHistory(u, type)
               \/ BeginListing
      BY <2>1, <3>3, BeginReading
    <3> QED
      BY <2>4, <3>1, <3>2, <3>3 DEF Read
  <2> QED
    BY <2>1, <2>2, <2>3, <2>4
<1>3. Init => IInv
  BY InitIInv
<1> QED
  BY <1>1, <1>2, <1>3, PTL DEF Spec

\* Every value has its type: no commit leaves a wallet or the escrow account
\* negative, so the trigger that would refuse it never has to.
THEOREM TypeCorrect == Spec => []TypeOK
<1>1. IInv /\ Reading => TypeOK
  BY DEF IInv, Reading, TypeOK, Shown
<1> QED
  BY <1>1, ReadingInvariance, PTL

\* A walk through a statement by cursor shows what was there when it began,
\* newest first and nothing twice.
THEOREM HistoryShowsAll == Spec => []HistoryIsComplete
<1>1. Reading => HistoryIsComplete
  BY DEF Reading, HistoryIsComplete
<1> QED
  BY <1>1, ReadingInvariance, PTL

\* A walk through the players by offset skips nobody it should show.
THEOREM ListingShowsAll == Spec => []ListingSkipsNobody
<1>1. Reading => ListingSkipsNobody
  BY DEF Reading, ListingSkipsNobody
<1> QED
  BY <1>1, ReadingInvariance, PTL

=============================================================================
