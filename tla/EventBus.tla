------------------------------ MODULE EventBus ------------------------------
(***************************************************************************)
(* Fan-out of the round events over LISTEN / NOTIFY, as one process of the *)
(* service lives it.  Transactions of the engine and of the betting        *)
(* service, here or in another process, change a round or a balance and    *)
(* queue an event with pg_notify: Postgres delivers it when the            *)
(* transaction commits, to the connections that listen at that moment.     *)
(* The process keeps one connection that listens, and starts a chain of    *)
(* reconnect steps whenever it hears that a connection was lost.           *)
(***************************************************************************)
EXTENDS Naturals, SequencesExt

CONSTANTS
  Rounds,       \* rounds, in nonce order
  Start,        \* the status of each round when the process starts
  Connections,  \* pg clients the process can have open at once
  Chains,       \* calls of reconnect() that can be under way at once
  MaxChanges,   \* bound: transactions begun
  MaxLosses     \* bound: connections lost, or refused by the server

Live == {"OPEN", "LOCKED", "RUNNING"}
Statuses == Live \cup {"NONE", "RESOLVED", "SETTLED", "VOIDED"}

ASSUME BusAssumption ==
  /\ Rounds \subseteq Nat \ {0}
  /\ Start \in [Rounds -> Statuses]
  /\ MaxChanges \in Nat
  /\ MaxLosses \in Nat

VARIABLES
  round,       \* the status of each rounds row
  wallet,      \* how often the balance of the watching player has changed
  updating,    \* what an open transaction makes of each round
  paying,      \* whether an open transaction changes the balance
  silent,      \* rounds that were inserted and whose opening is not published
  changes,     \* transactions begun
  connection,  \* the state of each pg client
  inbox,       \* notifications on their way to each client
  listener,    \* this.listener
  chain,       \* how far each call of reconnect() has got
  closing,     \* the process is shutting down
  losses,      \* connections lost or refused
  doubled      \* two connections have listened at once: history

database == <<round, wallet, updating, paying, silent, changes>>
clients == <<connection, listener, chain, closing, losses, doubled>>
bus == <<round, wallet, updating, paying, silent, changes,
         connection, inbox, listener, chain, closing, losses, doubled>>

-----------------------------------------------------------------------------
(* publish *)

Listening == {k \in Connections : connection[k] = "listening"}

\* What pg_notify queued reaches whoever listens when it takes effect.
Deliver(event) ==
  inbox' = [k \in Connections |-> IF k \in Listening THEN Append(inbox[k], event)
                                                     ELSE inbox[k]]

\* round.state names the round and no more: the gateway reads the row.
RoundState(r) == [type |-> "round.state", round |-> r, balance |-> 0]
WalletUpdated(v) == [type |-> "wallet.updated", round |-> 0, balance |-> v]

Change == changes < MaxChanges /\ changes' = changes + 1

\* Mutation of Moves: no update is guarded on the status it expects.
MovesAlways(status) == {"LOCKED", "RUNNING", "RESOLVED"}

\* What lockRound, startRound, resolveRound, settleRound and voidRound make of
\* a row whose status they were written for.
Moves(status) ==
  CASE status = "OPEN"     -> {"LOCKED"}
    [] status = "LOCKED"   -> {"RUNNING"}
    [] status = "RUNNING"  -> {"RESOLVED", "VOIDED"}
    [] status = "RESOLVED" -> {"SETTLED"}
    [] OTHER -> {}

\* The row is locked and updated and the event queued, in one transaction.
UpdateRound(r) ==
  /\ Change
  /\ updating[r] = "NONE"
  /\ round[r] # "NONE"
  /\ \E status \in Moves(round[r]) : updating' = [updating EXCEPT ![r] = status]
  /\ UNCHANGED <<round, wallet, paying, silent, inbox, clients>>

\* Mutation of CommitUpdate: the event is published when the update is done.
CommitUpdateFirst(r) ==
  /\ updating[r] # "NONE"
  /\ round' = [round EXCEPT ![r] = updating[r]]
  /\ updating' = [updating EXCEPT ![r] = "NONE"]
  /\ silent' = silent \cup {r}
  /\ UNCHANGED <<wallet, paying, changes, inbox, clients>>

CommitUpdate(r) ==
  /\ updating[r] # "NONE"
  /\ round' = [round EXCEPT ![r] = updating[r]]
  /\ updating' = [updating EXCEPT ![r] = "NONE"]
  /\ Deliver(RoundState(r))
  /\ UNCHANGED <<wallet, paying, silent, changes, clients>>

AbortUpdate(r) ==
  /\ updating[r] # "NONE"
  /\ updating' = [updating EXCEPT ![r] = "NONE"]
  /\ UNCHANGED <<round, wallet, paying, silent, changes, inbox, clients>>

\* openRoundIfDue: the insert commits on its own, and the event follows in a
\* statement of its own.
OpenRound(r) ==
  /\ Change
  /\ round[r] = "NONE"
  /\ \A q \in Rounds : q < r => round[q] # "NONE"
  /\ round' = [round EXCEPT ![r] = "OPEN"]
  /\ silent' = silent \cup {r}
  /\ UNCHANGED <<wallet, updating, paying, inbox, clients>>

PublishOpening(r) ==
  /\ r \in silent
  /\ silent' = silent \ {r}
  /\ Deliver(RoundState(r))
  /\ UNCHANGED <<round, wallet, updating, paying, changes, clients>>

\* The leader dies between the two.
DieOpening(r) ==
  /\ r \in silent
  /\ silent' = silent \ {r}
  /\ UNCHANGED <<round, wallet, updating, paying, changes, inbox, clients>>

\* Mutation of BeginPayment: the event is published through the pool.
BeginPaymentAnnounced ==
  /\ Change
  /\ ~ paying
  /\ paying' = TRUE
  /\ Deliver(WalletUpdated(wallet + 1))
  /\ UNCHANGED <<round, wallet, updating, silent, clients>>

\* A bet is placed, cashed out, settled or refunded: the wallet row stays
\* locked until the transaction ends.
BeginPayment ==
  /\ Change
  /\ ~ paying
  /\ paying' = TRUE
  /\ UNCHANGED <<round, wallet, updating, silent, inbox, clients>>

CommitPayment ==
  /\ paying
  /\ paying' = FALSE
  /\ wallet' = wallet + 1
  /\ Deliver(WalletUpdated(wallet + 1))
  /\ UNCHANGED <<round, updating, silent, changes, clients>>

AbortPayment ==
  /\ paying
  /\ paying' = FALSE
  /\ UNCHANGED <<round, wallet, updating, silent, changes, inbox, clients>>

Publish ==
  \/ \E r \in Rounds :
       \/ UpdateRound(r) \/ CommitUpdate(r) \/ AbortUpdate(r)
       \/ OpenRound(r) \/ PublishOpening(r) \/ DieOpening(r)
  \/ BeginPayment \/ CommitPayment \/ AbortPayment

-----------------------------------------------------------------------------
(* reconnect *)

NoConnection == 0
Idle == [pc |-> "idle", at |-> NoConnection]
At(pc) == [pc |-> pc, at |-> NoConnection]
Connecting(k) == [pc |-> "connect", at |-> k]

Current == {listener} \ {NoConnection}

\* How a chain goes on whose connection is gone before it listened: refused or
\* failed, it is in the catch block; ended by another chain, it may be there, or
\* its connect() never settles.
Rejected(gone, settles) ==
  [h \in Chains |->
     IF chain[h].pc # "connect" \/ chain[h].at \notin gone THEN chain[h]
     ELSE IF settles /\ ~ closing THEN At("retry") ELSE Idle]

\* Connections end, and what they had not handed over is lost.
Sever(gone) ==
  /\ connection' = [k \in Connections |-> IF k \in gone THEN "gone" ELSE connection[k]]
  /\ inbox' = [k \in Connections |-> IF k \in gone THEN <<>> ELSE inbox[k]]

\* reconnect() starts by ending this.listener, whichever connection that is.
BeginReconnect(h) ==
  /\ Sever(Current)
  /\ \E settles \in BOOLEAN :
       chain' = [Rejected(Current, settles) EXCEPT ![h] = At("ending")]

\* Mutation of HandleError: the error is logged and nothing else.
LogError(lost) == Sever({lost}) /\ chain' = Rejected({lost}, TRUE)

\* The error handler of a client starts a chain, unless the process is shutting
\* down.  A client that fails while it sends LISTEN rejects as well: the chain
\* that waits for it comes back by itself.
HandleError(lost) ==
  IF closing THEN Sever({lost}) /\ chain' = Rejected({lost}, TRUE)
  ELSE \E h \in Chains :
         /\ chain[h] = Idle
         /\ Sever({lost} \cup Current)
         /\ \E settles \in BOOLEAN :
              chain' = [i \in Chains |->
                          IF i = h THEN At("ending")
                          ELSE IF chain[i].at = lost THEN At("retry")
                          ELSE Rejected(Current, settles)[i]]

Lose(k) ==
  /\ connection[k] # "gone"
  /\ losses < MaxLosses
  /\ losses' = losses + 1
  /\ HandleError(k)
  /\ UNCHANGED <<database, listener, closing, doubled>>

\* connect() rejects; the error handler is not called.
Refuse(h) ==
  /\ chain[h].pc = "connect"
  /\ losses < MaxLosses
  /\ losses' = losses + 1
  /\ Sever({chain[h].at})
  /\ chain' = Rejected({chain[h].at}, TRUE)
  /\ UNCHANGED <<database, listener, closing, doubled>>

\* The old client has ended: whatever this.listener is by now is forgotten.
ForgetListener(h) ==
  /\ chain[h].pc = "ending"
  /\ listener' = NoConnection
  /\ chain' = [chain EXCEPT ![h] = IF closing THEN Idle ELSE At("wait")]
  /\ UNCHANGED <<database, connection, inbox, closing, losses, doubled>>

\* After a second; closing is not looked at again.
StartListening(h) ==
  /\ chain[h].pc = "wait"
  /\ \E k \in Connections \ Current :
       /\ connection[k] = "gone"
       /\ connection' = [connection EXCEPT ![k] = "connecting"]
       /\ listener' = k
       /\ chain' = [chain EXCEPT ![h] = Connecting(k)]
  /\ UNCHANGED <<database, inbox, closing, losses, doubled>>

Listen(h) ==
  /\ chain[h].pc = "connect"
  /\ connection' = [connection EXCEPT ![chain[h].at] = "listening"]
  /\ chain' = [chain EXCEPT ![h] = Idle]
  /\ doubled' = (doubled \/ Listening # {})
  /\ UNCHANGED <<database, inbox, listener, closing, losses>>

\* Two seconds after a chain failed.
Retry(h) ==
  /\ chain[h].pc = "retry"
  /\ BeginReconnect(h)
  /\ UNCHANGED <<database, listener, closing, losses, doubled>>

\* onModuleDestroy.
Shutdown ==
  /\ ~ closing
  /\ closing' = TRUE
  /\ Sever(Current)
  /\ chain' = Rejected(Current, TRUE)
  /\ UNCHANGED <<database, listener, losses, doubled>>

Reconnect(h) ==
  ForgetListener(h) \/ StartListening(h) \/ Listen(h) \/ Retry(h)

Connect ==
  \/ \E k \in Connections : Lose(k)
  \/ \E h \in Chains : Refuse(h) \/ Reconnect(h)
  \/ Shutdown

\* onModuleInit has completed: the process listens on its first connection.
BusInit ==
  /\ round = Start
  /\ wallet = 0
  /\ updating = [r \in Rounds |-> "NONE"]
  /\ paying = FALSE
  /\ silent = {}
  /\ changes = 0
  /\ listener \in Connections
  /\ connection = [k \in Connections |-> IF k = listener THEN "listening" ELSE "gone"]
  /\ inbox = [k \in Connections |-> <<>>]
  /\ chain = [h \in Chains |-> Idle]
  /\ closing = FALSE
  /\ losses = 0
  /\ doubled = FALSE

=============================================================================
