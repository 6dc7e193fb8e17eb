--------------------------- MODULE Gateway_proofs ---------------------------
(***************************************************************************)
(* What holds of the news the gateway passes on, for any number of         *)
(* sockets, rounds, connections and reconnect chains, whatever is lost and *)
(* whatever overlaps.                                                      *)
(***************************************************************************)
EXTENDS Gateway, TLAPS

\* A round that has been seen in status s may be in status t by now.
Behind(s, t) ==
  /\ Rank(s) =< Rank(t)
  /\ s \notin Live \cup {"NONE"} => t \notin Live
  /\ s \in {"RESOLVED", "SETTLED"} => t \in {"RESOLVED", "SETTLED"}

View == {RoundView(s) : s \in Statuses}
Event == [type : {"round.state", "wallet.updated"}, round : Rounds \cup {0}, balance : Nat]
Slot == {Min(S) : S \in (SUBSET (1..MaxReads)) \ {{}}}
Read == [slot : Slot, to : Sockets \cup {Everyone}, round : Rounds \cup {0},
         asked : BOOLEAN, seen : Statuses, overtaken : BOOLEAN]

Typed ==
  /\ round \in [Rounds -> Statuses]
  /\ updating \in [Rounds -> Statuses]
  /\ wallet \in Nat
  /\ connection \in [Connections -> {"gone", "connecting", "listening"}]
  /\ inbox \in [Connections -> Seq(Event)]
  /\ online \subseteq Sockets
  /\ reads \subseteq Read
  /\ shown \in [Sockets -> [Rounds -> View]]
  /\ purse \in [Sockets -> Nat]

\* An open transaction makes of a round what may be made of it.
UpdatesAreMoves == \A r \in Rounds : updating[r] \in Moves(round[r]) \cup {"NONE"}

\* Nothing is on its way that was not committed.
EventsAreTrue ==
  \A k \in Connections : \A i \in 1..Len(inbox[k]) : inbox[k][i].balance =< wallet
AnswersAreTrue ==
  \A read \in reads : read.asked =>
    read.round \in Rounds /\ Behind(read.seen, round[read.round])
ShownIsTrue ==
  \A c \in Sockets :
    /\ purse[c] =< wallet
    /\ \A r \in Rounds : Behind(shown[c][r].status, round[r])

\* Who is not connected is told nothing.
OnlyOnlineAreTold ==
  /\ \A c \in Sockets \ online : shown[c] = Unseen /\ purse[c] = 0
  /\ \A read \in reads : read.to \in online \cup {Everyone}

\* An answer is older than what a socket was told only if it was overtaken.
AnswersAreInOrder ==
  \A read \in reads : read.asked /\ ~ read.overtaken =>
    \A c \in Sockets : Behind(shown[c][read.round].status, read.seen)

\* While the process has listened on one connection at a time, the balances on
\* their way are in order, and not older than what was told.
OneInbox ==
  /\ \A k \in Connections : inbox[k] # <<>> => connection[k] = "listening"
  /\ doubled \/ \A k, l \in Listening : k = l
BalancesAreInOrder ==
  doubled \/
    \A k \in Connections : \A i \in 1..Len(inbox[k]) :
      inbox[k][i].type = "wallet.updated" =>
        /\ \A c \in Sockets : purse[c] =< inbox[k][i].balance
        /\ \A j \in 1..i : inbox[k][j].type = "wallet.updated" =>
             inbox[k][j].balance =< inbox[k][i].balance

IInv ==
  /\ Typed
  /\ UpdatesAreMoves
  /\ EventsAreTrue /\ AnswersAreTrue /\ ShownIsTrue
  /\ OnlyOnlineAreTold
  /\ AnswersAreInOrder
  /\ OneInbox /\ BalancesAreInOrder

-----------------------------------------------------------------------------
(* statuses *)

LEMMA BehindItself == ASSUME NEW s \in Statuses PROVE Behind(s, s)
  BY DEF Behind, Rank, Statuses, Live

LEMMA NoneIsBehind == ASSUME NEW s \in Statuses PROVE Behind("NONE", s)
  BY DEF Behind, Rank, Statuses, Live

LEMMA BehindIsTransitive ==
  ASSUME NEW s \in Statuses, NEW t \in Statuses, NEW u \in Statuses,
         Behind(s, t), Behind(t, u)
  PROVE  Behind(s, u)
  BY DEF Behind, Rank, Statuses, Live

LEMMA MovesAhead ==
  ASSUME NEW s \in Statuses, NEW t \in Moves(s)
  PROVE  t \in Statuses /\ Behind(s, t)
  BY DEF Behind, Rank, Moves, Statuses, Live

LEMMA ViewStatus ==
  ASSUME NEW v \in View
  PROVE  v.status \in Statuses /\ v = RoundView(v.status)
  BY DEF View, RoundView

LEMMA NoneIsAView == "NONE" \in Statuses /\ RoundView("NONE") \in View /\ RoundView("NONE").status = "NONE"
  BY DEF View, RoundView, Statuses

-----------------------------------------------------------------------------

\* A balance is news of a wallet that has it, and the rows come as they started.
LEMMA InitIInv == Init => IInv
<1> SUFFICES ASSUME Init PROVE IInv
  OBVIOUS
<1>1. <<>> \in Seq(Event)
  OBVIOUS
<1>2. Unseen \in [Rounds -> View] /\ \A r \in Rounds : Unseen[r].status = "NONE"
  BY NoneIsAView DEF Unseen
<1>3. Typed
  BY <1>1, <1>2, BusAssumption, NoneIsAView DEF Init, BusInit, Typed
<1>4. ShownIsTrue
  BY <1>2, BusAssumption, NoneIsBehind DEF Init, BusInit, ShownIsTrue
<1>5. UpdatesAreMoves /\ EventsAreTrue /\ AnswersAreTrue /\ OnlyOnlineAreTold /\ AnswersAreInOrder
  BY DEF Init, BusInit, UpdatesAreMoves, EventsAreTrue, AnswersAreTrue, OnlyOnlineAreTold,
     AnswersAreInOrder
<1>6. OneInbox /\ BalancesAreInOrder
  BY DEF Init, BusInit, OneInbox, BalancesAreInOrder, Listening
<1> QED
  BY <1>3, <1>4, <1>5, <1>6 DEF IInv

-----------------------------------------------------------------------------
(* publishing *)

\* An event that takes effect goes to the end of every open inbox.
LEMMA DeliverStep ==
  ASSUME IInv, NEW e \in Event, Deliver(e), wallet' \in Nat, wallet =< wallet',
         e.balance =< wallet', e.type = "wallet.updated" => e.balance = wallet',
         UNCHANGED <<connection, doubled, purse>>
  PROVE  /\ inbox' \in [Connections -> Seq(Event)]
         /\ EventsAreTrue' /\ OneInbox' /\ BalancesAreInOrder'
<1>1. /\ inbox \in [Connections -> Seq(Event)]
      /\ inbox' = [k \in Connections |-> IF k \in Listening THEN Append(inbox[k], e)
                                                           ELSE inbox[k]]
  BY DEF Deliver, IInv, Typed
<1>2. inbox' \in [Connections -> Seq(Event)]
  BY <1>1
<1>3. ASSUME NEW k \in Connections, NEW i \in 1..Len(inbox'[k])
      PROVE  \/ i \in 1..Len(inbox[k]) /\ inbox'[k][i] = inbox[k][i]
             \/ /\ i = Len(inbox[k]) + 1 /\ inbox'[k][i] = e
                /\ k \in Listening
  <2>1. inbox[k] \in Seq(Event)
    BY <1>1
  <2>2. CASE k \in Listening
    <3>1. inbox'[k] = Append(inbox[k], e)
      BY <1>1, <2>2
    <3> QED
      BY <2>1, <2>2, <3>1
  <2>3. CASE k \notin Listening
    BY <1>1, <2>3
  <2> QED
    BY <2>2, <2>3
<1>4. ASSUME NEW k \in Connections, NEW i \in 1..Len(inbox[k])
      PROVE  inbox[k][i] \in Event /\ inbox[k][i].balance =< wallet
  BY <1>1 DEF IInv, EventsAreTrue
<1>5. EventsAreTrue'
  <2> SUFFICES ASSUME NEW k \in Connections, NEW i \in 1..Len(inbox'[k])
               PROVE  inbox'[k][i].balance =< wallet'
    BY DEF EventsAreTrue
  <2>1. wallet \in Nat
    BY DEF IInv, Typed
  <2>2. CASE i \in 1..Len(inbox[k]) /\ inbox'[k][i] = inbox[k][i]
    BY <1>4, <2>1, <2>2 DEF Event
  <2> QED
    BY <1>3, <2>2
<1>6. OneInbox'
  BY <1>1 DEF IInv, OneInbox, Listening
<1>7. BalancesAreInOrder'
  <2> SUFFICES ASSUME ~ doubled, NEW k \in Connections, NEW i \in 1..Len(inbox'[k]),
                      inbox'[k][i].type = "wallet.updated"
               PROVE  /\ \A c \in Sockets : purse[c] =< inbox'[k][i].balance
                      /\ \A j \in 1..i : inbox'[k][j].type = "wallet.updated" =>
                           inbox'[k][j].balance =< inbox'[k][i].balance
    BY DEF BalancesAreInOrder
  <2>1. Len(inbox[k]) \in Nat /\ inbox'[k] \in Seq(Event) /\ wallet \in Nat
    BY <1>1, <1>2 DEF IInv, Typed
  <2>2. CASE i \in 1..Len(inbox[k]) /\ inbox'[k][i] = inbox[k][i]
    <3>1. \A j \in 1..i : j \in 1..Len(inbox[k]) /\ inbox'[k][j] = inbox[k][j]
      BY <1>3, <2>1, <2>2
    <3> QED
      BY <2>2, <3>1 DEF IInv, BalancesAreInOrder
  <2>3. CASE i = Len(inbox[k]) + 1 /\ inbox'[k][i] = e
    <3>1. e.balance = wallet'
      BY <2>3
    <3>2. \A c \in Sockets : purse[c] \in Nat /\ purse[c] =< wallet
      BY DEF IInv, ShownIsTrue, Typed
    <3>3. \A j \in 1..i : inbox'[k][j].balance =< wallet'
      <4>1. \A j \in 1..i : j \in 1..Len(inbox'[k])
        BY <2>1
      <4> QED
        BY <1>5, <4>1 DEF EventsAreTrue
    <3> QED
      BY <2>1, <2>3, <3>1, <3>2, <3>3
  <2> QED
    BY <1>3, <2>2, <2>3
<1> QED
  BY <1>2, <1>5, <1>6, <1>7

\* Rounds only move ahead, so what was read or shown of them stays behind.
LEMMA AheadStep ==
  ASSUME IInv, round' \in [Rounds -> Statuses], wallet' \in Nat, wallet =< wallet',
         \A r \in Rounds : Behind(round[r], round'[r]),
         UNCHANGED <<reads, shown, purse>>
  PROVE  AnswersAreTrue' /\ ShownIsTrue'
<1>1. \A read \in reads : read.seen \in Statuses
  BY DEF IInv, Typed, Read
<1>2. AnswersAreTrue'
  BY <1>1, BehindIsTransitive DEF IInv, AnswersAreTrue, Typed
<1>3. \A c \in Sockets : \A r \in Rounds : shown[c][r].status \in Statuses
  BY ViewStatus DEF IInv, Typed
<1>4. ASSUME NEW c \in Sockets PROVE purse[c] =< wallet'
  BY DEF IInv, Typed, ShownIsTrue
<1>5. ASSUME NEW c \in Sockets, NEW r \in Rounds
      PROVE  Behind(shown[c][r].status, round'[r])
  BY <1>3, BehindIsTransitive DEF IInv, Typed, ShownIsTrue
<1> QED
  BY <1>2, <1>4, <1>5 DEF ShownIsTrue

\* A transaction that changes nothing but its own state.
LEMMA QuietStep ==
  ASSUME IInv, UNCHANGED <<round, wallet, inbox, connection, doubled>>,
         UNCHANGED <<online, reads, shown, purse>>,
         updating' \in [Rounds -> Statuses], UpdatesAreMoves'
  PROVE  IInv'
<1>1. Typed'
  BY DEF IInv, Typed
<1>2. EventsAreTrue' /\ AnswersAreTrue' /\ ShownIsTrue' /\ OnlyOnlineAreTold' /\ AnswersAreInOrder'
  BY DEF IInv, EventsAreTrue, AnswersAreTrue, ShownIsTrue, OnlyOnlineAreTold, AnswersAreInOrder
<1>3. OneInbox' /\ BalancesAreInOrder'
  BY DEF IInv, OneInbox, BalancesAreInOrder, Listening
<1> QED
  BY <1>1, <1>2, <1>3 DEF IInv

LEMMA PublishStep ==
  ASSUME IInv, Publish, UNCHANGED <<online, reads, shown, purse>>
  PROVE  IInv'
<1>1. OnlyOnlineAreTold' /\ AnswersAreInOrder'
  BY DEF IInv, OnlyOnlineAreTold, AnswersAreInOrder
<1>2. \A r \in Rounds : Behind(round[r], round[r])
  BY BehindItself DEF IInv, Typed
<1>3. "NONE" \in Statuses /\ wallet \in Nat
  BY DEF IInv, Typed, Statuses
<1>4. \A r \in Rounds : RoundState(r) \in Event /\ RoundState(r).balance = 0
                          /\ RoundState(r).type = "round.state"
  BY DEF RoundState, Event
<1>5. ASSUME NEW r \in Rounds, UpdateRound(r) PROVE IInv'
  <2>1. PICK status \in Moves(round[r]) : updating' = [updating EXCEPT ![r] = status]
    BY <1>5 DEF UpdateRound
  <2>2. status \in Statuses
    BY MovesAhead DEF IInv, Typed
  <2>3. updating' \in [Rounds -> Statuses] /\ UpdatesAreMoves'
    BY <1>5, <2>1, <2>2 DEF UpdateRound, IInv, Typed, UpdatesAreMoves
  <2> QED
    BY <1>5, <2>3, QuietStep DEF UpdateRound, clients
<1>6. ASSUME NEW r \in Rounds, AbortUpdate(r) PROVE IInv'
  <2>1. updating' \in [Rounds -> Statuses] /\ UpdatesAreMoves'
    BY <1>3, <1>6 DEF AbortUpdate, IInv, Typed, UpdatesAreMoves
  <2> QED
    BY <1>6, <2>1, QuietStep DEF AbortUpdate, clients
<1>7. ASSUME NEW r \in Rounds, CommitUpdate(r) PROVE IInv'
  <2>1. updating[r] \in Moves(round[r]) /\ round[r] \in Statuses
    BY <1>7 DEF CommitUpdate, IInv, Typed, UpdatesAreMoves
  <2>2. updating[r] \in Statuses /\ Behind(round[r], updating[r])
    BY <2>1, MovesAhead
  <2>3. round' \in [Rounds -> Statuses] /\ \A q \in Rounds : Behind(round[q], round'[q])
    BY <1>2, <1>7, <2>2 DEF CommitUpdate, IInv, Typed
  <2>4. updating' \in [Rounds -> Statuses] /\ UpdatesAreMoves'
    BY <1>3, <1>7 DEF CommitUpdate, IInv, Typed, UpdatesAreMoves
  <2>5. wallet' = wallet /\ Deliver(RoundState(r)) /\ UNCHANGED <<connection, doubled>>
    BY <1>7 DEF CommitUpdate, clients
  <2>6. /\ inbox' \in [Connections -> Seq(Event)]
        /\ EventsAreTrue' /\ OneInbox' /\ BalancesAreInOrder'
    BY <1>3, <1>4, <2>5, DeliverStep
  <2>7. AnswersAreTrue' /\ ShownIsTrue'
    BY <1>3, <2>3, <2>5, AheadStep
  <2> QED
    BY <1>1, <2>3, <2>4, <2>5, <2>6, <2>7 DEF IInv, Typed
<1>8. ASSUME NEW r \in Rounds, OpenRound(r) PROVE IInv'
  <2>1. updating[r] = "NONE"
    BY <1>8 DEF OpenRound, IInv, UpdatesAreMoves, Moves
  <2>2. "OPEN" \in Statuses /\ Behind("NONE", "OPEN")
    BY NoneIsBehind DEF Statuses, Live
  <2>3. round' \in [Rounds -> Statuses] /\ \A q \in Rounds : Behind(round[q], round'[q])
    BY <1>2, <1>8, <2>2 DEF OpenRound, IInv, Typed
  <2>4. UpdatesAreMoves'
    BY <1>8, <2>1 DEF OpenRound, IInv, Typed, UpdatesAreMoves
  <2>5. UNCHANGED <<wallet, updating, inbox, connection, doubled>>
    BY <1>8 DEF OpenRound, clients
  <2>6. AnswersAreTrue' /\ ShownIsTrue'
    BY <1>3, <2>3, <2>5, AheadStep
  <2>7. EventsAreTrue' /\ OneInbox' /\ BalancesAreInOrder'
    BY <2>5 DEF IInv, EventsAreTrue, OneInbox, BalancesAreInOrder, Listening
  <2> QED
    BY <1>1, <2>3, <2>4, <2>5, <2>6, <2>7 DEF IInv, Typed
<1>9. ASSUME NEW r \in Rounds, PublishOpening(r) PROVE IInv'
  <2>1. Deliver(RoundState(r)) /\ UNCHANGED <<round, wallet, updating, connection, doubled>>
    BY <1>9 DEF PublishOpening, clients
  <2>2. /\ inbox' \in [Connections -> Seq(Event)]
        /\ EventsAreTrue' /\ OneInbox' /\ BalancesAreInOrder'
    BY <1>3, <1>4, <2>1, DeliverStep
  <2>3. UpdatesAreMoves' /\ AnswersAreTrue' /\ ShownIsTrue'
    BY <2>1 DEF IInv, UpdatesAreMoves, AnswersAreTrue, ShownIsTrue
  <2> QED
    BY <1>1, <2>1, <2>2, <2>3 DEF IInv, Typed
<1>10. CASE CommitPayment
  <2>1. /\ Deliver(WalletUpdated(wallet + 1)) /\ wallet' = wallet + 1
        /\ UNCHANGED <<round, updating, connection, doubled>>
    BY <1>10 DEF CommitPayment, clients
  <2>2. /\ WalletUpdated(wallet + 1) \in Event
        /\ WalletUpdated(wallet + 1).balance = wallet'
    BY <1>3, <2>1 DEF WalletUpdated, Event
  <2>3. wallet' \in Nat /\ wallet =< wallet' /\ wallet' =< wallet'
    BY <1>3, <2>1
  <2>4. /\ inbox' \in [Connections -> Seq(Event)]
        /\ EventsAreTrue' /\ OneInbox' /\ BalancesAreInOrder'
    BY <2>1, <2>2, <2>3, DeliverStep
  <2>5. AnswersAreTrue' /\ ShownIsTrue'
    BY <1>2, <2>1, <2>3, AheadStep DEF IInv, Typed
  <2>6. UpdatesAreMoves'
    BY <2>1 DEF IInv, UpdatesAreMoves
  <2> QED
    BY <1>1, <2>1, <2>3, <2>4, <2>5, <2>6 DEF IInv, Typed
<1>11. ASSUME UNCHANGED <<round, wallet, updating, inbox, connection, doubled>> PROVE IInv'
  BY <1>11, QuietStep DEF IInv, Typed, UpdatesAreMoves
<1> QED
  BY <1>5, <1>6, <1>7, <1>8, <1>9, <1>10, <1>11
     DEF Publish, DieOpening, BeginPayment, AbortPayment, clients

-----------------------------------------------------------------------------
(* connections *)

\* Connections end with what they had not handed over, or stay as they are.
LEMMA SeveredStep ==
  ASSUME IInv, NEW gone, Sever(gone), UNCHANGED doubled,
         UNCHANGED <<database, online, reads, shown, purse>>
  PROVE  IInv'
<1>1. \A k \in Connections :
        /\ connection'[k] = IF k \in gone THEN "gone" ELSE connection[k]
        /\ inbox'[k] = IF k \in gone THEN <<>> ELSE inbox[k]
  BY DEF Sever
<1>2. /\ connection' \in [Connections -> {"gone", "connecting", "listening"}]
      /\ inbox' \in [Connections -> Seq(Event)]
  <2>1. <<>> \in Seq(Event)
    OBVIOUS
  <2> QED
    BY <2>1 DEF Sever, IInv, Typed
<1>3. Typed'
  BY <1>2 DEF IInv, Typed, database
<1>4. \A k \in Connections : \A i \in 1..Len(inbox'[k]) :
        k \notin gone /\ inbox'[k] = inbox[k] /\ i \in 1..Len(inbox[k])
  BY <1>1
<1>5. EventsAreTrue'
  BY <1>4 DEF IInv, EventsAreTrue, database
<1>6. OneInbox'
  BY <1>1 DEF IInv, OneInbox, Listening
<1>7. BalancesAreInOrder'
  BY <1>4 DEF IInv, BalancesAreInOrder, database
<1>8. /\ UpdatesAreMoves' /\ AnswersAreTrue' /\ ShownIsTrue'
      /\ OnlyOnlineAreTold' /\ AnswersAreInOrder'
  BY DEF IInv, UpdatesAreMoves, AnswersAreTrue, ShownIsTrue, OnlyOnlineAreTold,
     AnswersAreInOrder, database
<1> QED
  BY <1>3, <1>5, <1>6, <1>7, <1>8 DEF IInv

\* A connection opens; another that listens is remembered.
LEMMA OpenedStep ==
  ASSUME IInv, UNCHANGED <<database, inbox, online, reads, shown, purse>>,
         NEW k,
         \/ k \in Connections /\ connection[k] = "gone" /\ doubled' = doubled
            /\ connection' = [connection EXCEPT ![k] = "connecting"]
         \/ doubled' = (doubled \/ Listening # {})
            /\ connection' = [connection EXCEPT ![k] = "listening"]
  PROVE  IInv'
<1>1. Typed'
  BY DEF IInv, Typed, database
<1>2. OneInbox'
  BY DEF IInv, Typed, OneInbox, Listening
<1>3. EventsAreTrue' /\ BalancesAreInOrder'
  BY DEF IInv, EventsAreTrue, BalancesAreInOrder, database
<1>4. /\ UpdatesAreMoves' /\ AnswersAreTrue' /\ ShownIsTrue'
      /\ OnlyOnlineAreTold' /\ AnswersAreInOrder'
  BY DEF IInv, UpdatesAreMoves, AnswersAreTrue, ShownIsTrue, OnlyOnlineAreTold,
     AnswersAreInOrder, database
<1> QED
  BY <1>1, <1>2, <1>3, <1>4 DEF IInv

\* A step that only a reconnect chain notices.
LEMMA UnseenStep ==
  ASSUME IInv, UNCHANGED <<database, connection, inbox, doubled, online, reads, shown, purse>>
  PROVE  IInv'
<1>1. Typed' /\ UpdatesAreMoves'
  BY DEF IInv, Typed, UpdatesAreMoves, database
<1>2. EventsAreTrue' /\ AnswersAreTrue' /\ ShownIsTrue' /\ OnlyOnlineAreTold' /\ AnswersAreInOrder'
  BY DEF IInv, EventsAreTrue, AnswersAreTrue, ShownIsTrue, OnlyOnlineAreTold, AnswersAreInOrder, database
<1>3. OneInbox' /\ BalancesAreInOrder'
  BY DEF IInv, OneInbox, BalancesAreInOrder, Listening
<1> QED
  BY <1>1, <1>2, <1>3 DEF IInv

LEMMA ConnectStep ==
  ASSUME IInv, Connect, UNCHANGED <<online, reads, shown, purse>>
  PROVE  IInv'
<1>1. ASSUME NEW k \in Connections, Lose(k) PROVE IInv'
  <2>1. \E gone : Sever(gone)
    BY <1>1 DEF Lose, HandleError
  <2> QED
    BY <1>1, <2>1, SeveredStep DEF Lose
<1>2. ASSUME NEW h \in Chains, Refuse(h) PROVE IInv'
  BY <1>2, SeveredStep DEF Refuse
<1>3. ASSUME NEW h \in Chains, ForgetListener(h) PROVE IInv'
  BY <1>3, UnseenStep DEF ForgetListener
<1>4. ASSUME NEW h \in Chains, StartListening(h) PROVE IInv'
  <2>1. PICK k \in Connections : /\ connection[k] = "gone"
                                /\ connection' = [connection EXCEPT ![k] = "connecting"]
    BY <1>4 DEF StartListening
  <2> QED
    BY <1>4, <2>1, OpenedStep DEF StartListening
<1>5. ASSUME NEW h \in Chains, Listen(h) PROVE IInv'
  BY <1>5, OpenedStep DEF Listen
<1>6. ASSUME NEW h \in Chains, Retry(h) PROVE IInv'
  BY <1>6, SeveredStep DEF Retry, BeginReconnect
<1>7. CASE Shutdown
  BY <1>7, SeveredStep DEF Shutdown
<1> QED
  BY <1>1, <1>2, <1>3, <1>4, <1>5, <1>6, <1>7 DEF Connect, Reconnect

-----------------------------------------------------------------------------
(* serving *)

\* A query asks for a round, and has seen nothing yet.
LEMMA IssueStep ==
  ASSUME IInv, NEW to \in Sockets \cup {Everyone}, NEW r \in Rounds \cup {0}, Issue(to, r)
  PROVE  /\ reads' \subseteq Read
         /\ \A read \in reads' : read.asked => read \in reads
         /\ \A read \in reads' : read \in reads \/ read.to = to
<1> DEFINE new == [slot |-> Min(FreeSlots), to |-> to, round |-> r,
                   asked |-> FALSE, seen |-> "NONE", overtaken |-> FALSE]
<1>1. Min(FreeSlots) \in Slot
  BY DEF Slot, FreeSlots, Issue
<1>2. new \in Read
  BY <1>1, NoneIsAView DEF Read
<1>3. reads' = reads \cup {new} /\ ~ new.asked /\ new.to = to
  BY DEF Issue
<1> QED
  BY <1>2, <1>3 DEF IInv, Typed

LEMMA HandleConnectionStep ==
  ASSUME IInv, NEW c \in Sockets, HandleConnection(c)
  PROVE  IInv'
<1>1. /\ reads' \subseteq Read
      /\ \A read \in reads' : read.asked => read \in reads
      /\ \A read \in reads' : read \in reads \/ read.to = c
  BY IssueStep DEF HandleConnection
<1>2. /\ online' = online \cup {c}
      /\ UNCHANGED <<round, wallet, updating, connection, inbox, doubled, shown, purse>>
  BY DEF HandleConnection, bus
<1>3. Typed'
  BY <1>1, <1>2 DEF IInv, Typed
<1>4. UpdatesAreMoves' /\ EventsAreTrue' /\ ShownIsTrue'
  BY <1>2 DEF IInv, UpdatesAreMoves, EventsAreTrue, ShownIsTrue
<1>5. AnswersAreTrue' /\ AnswersAreInOrder'
  BY <1>1, <1>2 DEF IInv, AnswersAreTrue, AnswersAreInOrder
<1>6. OnlyOnlineAreTold'
  BY <1>1, <1>2 DEF IInv, OnlyOnlineAreTold
<1>7. OneInbox' /\ BalancesAreInOrder'
  BY <1>2 DEF IInv, OneInbox, BalancesAreInOrder, Listening
<1> QED
  BY <1>3, <1>4, <1>5, <1>6, <1>7 DEF IInv

LEMMA DisconnectStep ==
  ASSUME IInv, NEW c \in Sockets, Disconnect(c)
  PROVE  IInv'
<1>1. /\ reads' \subseteq reads /\ \A read \in reads' : read.to # c
      /\ online' = online \ {c}
      /\ UNCHANGED <<round, wallet, updating, connection, inbox, doubled>>
  BY DEF Disconnect, bus
<1>2. Unseen \in [Rounds -> View] /\ \A r \in Rounds : Unseen[r].status = "NONE"
  BY NoneIsAView DEF Unseen
<1>3. /\ shown' = [shown EXCEPT ![c] = Unseen] /\ purse' = [purse EXCEPT ![c] = 0]
  BY DEF Disconnect
<1>4. /\ shown'[c] = Unseen /\ purse'[c] = 0
      /\ \A d \in Sockets \ {c} : shown'[d] = shown[d] /\ purse'[d] = purse[d]
  BY <1>3 DEF IInv, Typed
<1>5. Typed'
  BY <1>1, <1>2, <1>3 DEF IInv, Typed
<1>6. UpdatesAreMoves' /\ EventsAreTrue' /\ AnswersAreTrue'
  BY <1>1 DEF IInv, UpdatesAreMoves, EventsAreTrue, AnswersAreTrue
<1>7. ShownIsTrue'
  <2>1. wallet \in Nat /\ \A r \in Rounds : Behind("NONE", round[r])
    BY NoneIsBehind DEF IInv, Typed
  <2>2. \A r \in Rounds : Behind(shown'[c][r].status, round[r])
    BY <1>2, <1>4, <2>1
  <2>3. purse'[c] =< wallet
    BY <1>4, <2>1
  <2> QED
    BY <1>1, <1>4, <2>2, <2>3 DEF IInv, ShownIsTrue
<1>8. OnlyOnlineAreTold'
  BY <1>1, <1>4 DEF IInv, OnlyOnlineAreTold
<1>9. AnswersAreInOrder'
  <2> SUFFICES ASSUME NEW read \in reads, read.asked, ~ read.overtaken, NEW d \in Sockets
               PROVE  Behind(shown'[d][read.round].status, read.seen)
    BY <1>1 DEF AnswersAreInOrder
  <2>1. read.round \in Rounds /\ read.seen \in Statuses
    BY DEF IInv, Typed, Read, AnswersAreTrue
  <2> QED
    BY <1>2, <1>4, <2>1, NoneIsBehind DEF IInv, AnswersAreInOrder
<1>10. OneInbox'
  BY <1>1 DEF IInv, OneInbox, Listening
<1>11. BalancesAreInOrder'
  <2>1. ASSUME NEW k \in Connections, NEW i \in 1..Len(inbox[k])
        PROVE  inbox[k][i].balance \in Nat
    <3>1. inbox[k] \in Seq(Event)
      BY DEF IInv, Typed
    <3>2. inbox[k][i] \in Event
      BY <3>1
    <3> QED
      BY <3>2 DEF Event
  <2>2. ASSUME ~ doubled, NEW k \in Connections, NEW i \in 1..Len(inbox[k]),
               inbox[k][i].type = "wallet.updated", NEW d \in Sockets
        PROVE  purse'[d] =< inbox[k][i].balance
    <3>1. purse[d] =< inbox[k][i].balance
      BY <2>2 DEF IInv, BalancesAreInOrder
    <3> QED
      BY <1>4, <2>1, <3>1
  <2> QED
    BY <1>1, <2>2 DEF IInv, BalancesAreInOrder
<1> QED
  BY <1>5, <1>6, <1>7, <1>8, <1>9, <1>10, <1>11 DEF IInv

LEMMA DispatchStep ==
  ASSUME IInv, NEW k \in Connections, Dispatch(k)
  PROVE  IInv'
<1> DEFINE event == Head(inbox[k])
<1>1. /\ inbox[k] \in Seq(Event) /\ inbox[k] # <<>>
      /\ inbox' = [inbox EXCEPT ![k] = Tail(@)]
      /\ UNCHANGED <<round, wallet, updating, connection, doubled, online, shown>>
  BY DEF Dispatch, IInv, Typed, database, clients
<1>2. /\ Tail(inbox[k]) \in Seq(Event)
      /\ event \in Event /\ event = inbox[k][1] /\ 1 \in 1..Len(inbox[k])
      /\ \A i \in 1..Len(Tail(inbox[k])) :
           i + 1 \in 1..Len(inbox[k]) /\ Tail(inbox[k])[i] = inbox[k][i + 1]
  BY <1>1
<1>3. /\ inbox' \in [Connections -> Seq(Event)] /\ inbox'[k] = Tail(inbox[k])
      /\ \A l \in Connections \ {k} : inbox'[l] = inbox[l]
  BY <1>1, <1>2 DEF IInv, Typed
<1>4. event.round \in Rounds \cup {0} /\ event.balance \in Nat /\ event.balance =< wallet
  BY <1>2 DEF Event, IInv, EventsAreTrue
<1>5. UpdatesAreMoves'
  BY <1>1 DEF IInv, UpdatesAreMoves
<1>6. EventsAreTrue'
  <2>1. \A i \in 1..Len(inbox'[k]) : inbox'[k][i].balance =< wallet'
    BY <1>1, <1>2, <1>3 DEF IInv, EventsAreTrue
  <2>2. ASSUME NEW l \in Connections \ {k}, NEW i \in 1..Len(inbox'[l])
        PROVE  inbox'[l][i].balance =< wallet'
    BY <1>1, <1>3 DEF IInv, EventsAreTrue
  <2> QED
    BY <2>1, <2>2 DEF EventsAreTrue
<1>7. OneInbox'
  <2>1. \A l \in Connections : inbox'[l] # <<>> => inbox[l] # <<>>
    BY <1>1, <1>3
  <2> QED
    BY <1>1, <2>1 DEF IInv, OneInbox, Listening
<1>8. CASE DispatchRound(event.round) /\ UNCHANGED purse
  <2>1. /\ reads' \subseteq Read
        /\ \A read \in reads' : read.asked => read \in reads
        /\ \A read \in reads' : read \in reads \/ read.to = Everyone
    BY <1>4, <1>8, IssueStep DEF DispatchRound
  <2>2. Typed'
    BY <1>1, <1>3, <1>8, <2>1 DEF IInv, Typed
  <2>3. ShownIsTrue'
    BY <1>1, <1>8 DEF IInv, ShownIsTrue
  <2>4. AnswersAreTrue' /\ AnswersAreInOrder'
    BY <1>1, <2>1 DEF IInv, AnswersAreTrue, AnswersAreInOrder
  <2>5. OnlyOnlineAreTold'
    BY <1>1, <1>8, <2>1 DEF IInv, OnlyOnlineAreTold
  <2>6. BalancesAreInOrder'
    <3> SUFFICES ASSUME ~ doubled, NEW l \in Connections, NEW i \in 1..Len(inbox'[l]),
                        inbox'[l][i].type = "wallet.updated"
                 PROVE  /\ \A c \in Sockets : purse[c] =< inbox'[l][i].balance
                        /\ \A j \in 1..i : inbox'[l][j].type = "wallet.updated" =>
                             inbox'[l][j].balance =< inbox'[l][i].balance
      BY <1>1, <1>8 DEF BalancesAreInOrder
    <3>1. CASE l = k
      <4>1. \A j \in 1..i : /\ j + 1 \in 1..(i + 1)
                            /\ inbox'[k][j] = inbox[k][j + 1]
        BY <1>2, <1>3, <3>1
      <4>2. i + 1 \in 1..Len(inbox[k]) /\ inbox'[k][i] = inbox[k][i + 1]
        BY <1>2, <1>3, <3>1
      <4> QED
        BY <3>1, <4>1, <4>2 DEF IInv, BalancesAreInOrder
    <3>2. CASE l # k
      BY <1>3, <3>2 DEF IInv, BalancesAreInOrder
    <3> QED
      BY <3>1, <3>2
  <2> QED
    BY <1>5, <1>6, <1>7, <2>2, <2>3, <2>4, <2>5, <2>6 DEF IInv
<1>9. CASE /\ event.type = "wallet.updated"
           /\ purse' = [c \in Sockets |-> IF c \in online THEN event.balance ELSE purse[c]]
           /\ UNCHANGED reads
  <2>1. \A c \in Sockets : purse'[c] = IF c \in online THEN event.balance ELSE purse[c]
    BY <1>9
  <2>2. Typed'
    BY <1>1, <1>3, <1>4, <1>9 DEF IInv, Typed
  <2>3. ShownIsTrue'
    BY <1>1, <1>4, <2>1 DEF IInv, ShownIsTrue
  <2>4. AnswersAreTrue' /\ AnswersAreInOrder'
    BY <1>1, <1>9 DEF IInv, AnswersAreTrue, AnswersAreInOrder
  <2>5. OnlyOnlineAreTold'
    BY <1>1, <1>9, <2>1 DEF IInv, OnlyOnlineAreTold
  <2>6. BalancesAreInOrder'
    <3> SUFFICES ASSUME ~ doubled, NEW l \in Connections, NEW i \in 1..Len(inbox'[l]),
                        inbox'[l][i].type = "wallet.updated"
                 PROVE  /\ \A c \in Sockets : purse'[c] =< inbox'[l][i].balance
                        /\ \A j \in 1..i : inbox'[l][j].type = "wallet.updated" =>
                             inbox'[l][j].balance =< inbox'[l][i].balance
      BY <1>1 DEF BalancesAreInOrder
    <3>1. l = k
      <4>1. inbox[l] # <<>>
        BY <1>3, <1>1
      <4> QED
        BY <1>1, <4>1 DEF IInv, OneInbox, Listening
    <3>2. \A j \in 1..i : /\ j + 1 \in 1..(i + 1)
                          /\ inbox'[k][j] = inbox[k][j + 1]
      BY <1>2, <1>3, <3>1
    <3>3. /\ i + 1 \in 1..Len(inbox[k]) /\ inbox'[k][i] = inbox[k][i + 1]
          /\ 1 \in 1..(i + 1)
      BY <1>2, <1>3, <3>1
    <3>4. event.balance =< inbox'[k][i].balance
      BY <1>2, <1>9, <3>1, <3>3 DEF IInv, BalancesAreInOrder
    <3>5. /\ \A d \in Sockets : purse[d] =< inbox[k][i + 1].balance
          /\ \A j \in 1..(i + 1) : inbox[k][j].type = "wallet.updated" =>
               inbox[k][j].balance =< inbox[k][i + 1].balance
      BY <3>1, <3>3 DEF IInv, BalancesAreInOrder
    <3>6. \A d \in Sockets : purse'[d] =< inbox'[l][i].balance
      BY <2>1, <3>1, <3>3, <3>4, <3>5
    <3>7. \A j \in 1..i : inbox'[l][j].type = "wallet.updated" =>
            inbox'[l][j].balance =< inbox'[l][i].balance
      BY <3>1, <3>2, <3>3, <3>5
    <3> QED
      BY <3>6, <3>7
  <2> QED
    BY <1>5, <1>6, <1>7, <2>2, <2>3, <2>4, <2>5, <2>6 DEF IInv
<1> QED
  BY <1>8, <1>9 DEF Dispatch

\* A query sees the round as it stands; no socket was told more.
LEMMA AskedStep ==
  ASSUME IInv, NEW read \in reads, NEW r \in Rounds, reads' = Asked(read, r),
         UNCHANGED <<bus, online, shown, purse>>
  PROVE  IInv'
<1> DEFINE answer == [read EXCEPT !.round = r, !.asked = TRUE, !.seen = round[r]]
<1>1. /\ answer \in Read /\ answer.round = r /\ answer.seen = round[r]
      /\ answer.to = read.to
  BY DEF IInv, Typed, Read
<1>2. reads' = (reads \ {read}) \cup {answer}
  BY DEF Asked
<1>3. Typed' /\ UpdatesAreMoves'
  BY <1>1, <1>2 DEF IInv, Typed, UpdatesAreMoves, bus, database, clients
<1>4. EventsAreTrue' /\ ShownIsTrue' /\ OneInbox' /\ BalancesAreInOrder'
  BY DEF IInv, EventsAreTrue, ShownIsTrue, OneInbox, BalancesAreInOrder, Listening, bus, database,
     clients
<1>5. AnswersAreTrue'
  <2>1. Behind(answer.seen, round'[answer.round])
    BY <1>1, BehindItself DEF IInv, Typed, bus, database
  <2> QED
    BY <1>1, <1>2, <2>1 DEF IInv, AnswersAreTrue, bus, database
<1>6. OnlyOnlineAreTold'
  BY <1>1, <1>2 DEF IInv, OnlyOnlineAreTold
<1>7. AnswersAreInOrder'
  <2>1. \A c \in Sockets : Behind(shown[c][answer.round].status, answer.seen)
    BY <1>1 DEF IInv, ShownIsTrue
  <2> QED
    BY <1>2, <2>1 DEF IInv, AnswersAreInOrder
<1> QED
  BY <1>3, <1>4, <1>5, <1>6, <1>7 DEF IInv

\* No live round, or the query failed: it answers nobody.
LEMMA DroppedStep ==
  ASSUME IInv, reads' \subseteq reads, UNCHANGED <<bus, online, shown, purse>>
  PROVE  IInv'
<1>1. Typed' /\ UpdatesAreMoves'
  BY DEF IInv, Typed, UpdatesAreMoves, bus, database, clients
<1>2. EventsAreTrue' /\ ShownIsTrue' /\ OneInbox' /\ BalancesAreInOrder'
  BY DEF IInv, EventsAreTrue, ShownIsTrue, OneInbox, BalancesAreInOrder, Listening, bus, database,
     clients
<1>3. AnswersAreTrue' /\ OnlyOnlineAreTold' /\ AnswersAreInOrder'
  BY DEF IInv, AnswersAreTrue, OnlyOnlineAreTold, AnswersAreInOrder, bus, database
<1> QED
  BY <1>1, <1>2, <1>3 DEF IInv

\* What is told of a round was read of it; the queries it overtakes are marked.
LEMMA EmitStep ==
  ASSUME IInv, NEW read \in reads, Emit(read)
  PROVE  IInv'
<1> DEFINE told == IF read.to = Everyone THEN online ELSE {read.to}
<1>1. /\ read.asked /\ read.round \in Rounds /\ read.seen \in Statuses
      /\ Behind(read.seen, round[read.round])
  BY DEF Emit, IInv, AnswersAreTrue, Typed, Read
<1>2. told \subseteq online
  BY DEF IInv, OnlyOnlineAreTold
<1>3. RoundView(read.seen) \in View /\ RoundView(read.seen).status = read.seen
  BY <1>1 DEF View, RoundView
<1>4. shown' = [c \in Sockets |-> IF c \in told
                 THEN [shown[c] EXCEPT ![read.round] = RoundView(read.seen)] ELSE shown[c]]
  BY DEF Emit
<1>5. shown' \in [Sockets -> [Rounds -> View]]
  BY <1>3, <1>4 DEF IInv, Typed
<1>6. \A c \in Sockets : \A r \in Rounds :
        \/ shown'[c][r] = shown[c][r]
        \/ r = read.round /\ shown'[c][r].status = read.seen
  BY <1>1, <1>3, <1>4 DEF IInv, Typed
<1>7. reads' = {[other EXCEPT !.overtaken = @ \/ other.round = read.round] :
                  other \in reads \ {read}}
  BY DEF Emit
<1>8. ASSUME NEW answer \in reads'
      PROVE  \E other \in reads :
               /\ answer \in Read /\ answer.to = other.to /\ answer.round = other.round
               /\ answer.asked = other.asked /\ answer.seen = other.seen
               /\ answer.overtaken = (other.overtaken \/ other.round = read.round)
  <2>1. PICK other \in reads :
          answer = [other EXCEPT !.overtaken = other.overtaken \/ other.round = read.round]
    BY <1>7
  <2>2. other \in Read
    BY DEF IInv, Typed
  <2> QED
    BY <2>1, <2>2 DEF Read
<1>9. UNCHANGED <<round, wallet, updating, connection, inbox, doubled, online, purse>>
  BY DEF Emit, bus, database, clients
<1>10. Typed'
  BY <1>5, <1>8, <1>9 DEF IInv, Typed
<1>11. UpdatesAreMoves' /\ EventsAreTrue' /\ OneInbox' /\ BalancesAreInOrder'
  BY <1>9 DEF IInv, UpdatesAreMoves, EventsAreTrue, OneInbox, BalancesAreInOrder, Listening
<1>12. AnswersAreTrue'
  BY <1>8, <1>9 DEF IInv, AnswersAreTrue
<1>13. ShownIsTrue'
  BY <1>1, <1>6, <1>9 DEF IInv, ShownIsTrue
<1>14. OnlyOnlineAreTold'
  <2>1. \A c \in Sockets \ online : shown'[c] = shown[c]
    BY <1>2, <1>4
  <2> QED
    BY <1>8, <1>9, <2>1 DEF IInv, OnlyOnlineAreTold
<1>15. AnswersAreInOrder'
  <2> SUFFICES ASSUME NEW answer \in reads', answer.asked, ~ answer.overtaken,
                      NEW c \in Sockets
               PROVE  Behind(shown'[c][answer.round].status, answer.seen)
    BY DEF AnswersAreInOrder
  <2>1. PICK other \in reads :
          /\ answer.round = other.round /\ answer.asked = other.asked
          /\ answer.seen = other.seen
          /\ answer.overtaken = (other.overtaken \/ other.round = read.round)
    BY <1>8
  <2>2. other.round # read.round /\ ~ other.overtaken /\ other.round \in Rounds
    BY <2>1 DEF IInv, AnswersAreTrue
  <2>3. shown'[c][other.round] = shown[c][other.round]
    BY <1>6, <2>2
  <2> QED
    BY <2>1, <2>2, <2>3 DEF IInv, AnswersAreInOrder
<1> QED
  BY <1>10, <1>11, <1>12, <1>13, <1>14, <1>15 DEF IInv

LEMMA ServeStep == IInv /\ Serve => IInv'
<1> SUFFICES ASSUME IInv, Serve PROVE IInv'
  OBVIOUS
<1>1. ASSUME NEW read \in reads, QueryCurrent(read) PROVE IInv'
  <2>1. CASE reads' = reads \ {read}
    BY <1>1, <2>1, DroppedStep DEF QueryCurrent
  <2>2. ASSUME NEW r \in Rounds, reads' = Asked(read, r) PROVE IInv'
    BY <1>1, <2>2, AskedStep DEF QueryCurrent
  <2> QED
    BY <1>1, <2>1, <2>2 DEF QueryCurrent, LiveRounds
<1>2. ASSUME NEW read \in reads, QueryRound(read) PROVE IInv'
  <2>1. read.round \in Rounds
    BY <1>2 DEF QueryRound, IInv, Typed, Read
  <2> QED
    BY <1>2, <2>1, AskedStep DEF QueryRound
<1>3. ASSUME NEW read \in reads, FailRead(read) PROVE IInv'
  BY <1>3, DroppedStep DEF FailRead
<1> QED
  BY <1>1, <1>2, <1>3, HandleConnectionStep, DisconnectStep, DispatchStep, EmitStep DEF Serve

LEMMA NextIInv == IInv /\ [Next]_vars => IInv'
<1> SUFFICES ASSUME IInv, [Next]_vars PROVE IInv'
  OBVIOUS
<1>1. CASE Connection
  BY <1>1, ConnectStep DEF Connection
<1>2. CASE Publication
  BY <1>2, PublishStep DEF Publication
<1>3. CASE Serve
  BY <1>3, ServeStep
<1>4. CASE UNCHANGED vars
  BY <1>4, DroppedStep DEF vars, gateway
<1> QED
  BY <1>1, <1>2, <1>3, <1>4 DEF Next

LEMMA Invariance == Spec => []IInv
  BY InitIInv, NextIInv, PTL DEF Spec

-----------------------------------------------------------------------------

\* A socket is never told a balance or a status that was rolled back, nor a
\* seed or an outcome that is still a secret.
THEOREM NothingIsAnnouncedEarly == Spec => []NewsIsTrue
<1>1. IInv => NewsIsTrue
  <2> SUFFICES ASSUME IInv, NEW c \in Sockets, NEW r \in Rounds
               PROVE  /\ Rank(shown[c][r].status) =< Rank(round[r])
                      /\ shown[c][r].seed => round[r] \notin Live
                      /\ shown[c][r].outcome => round[r] \in {"RESOLVED", "SETTLED"}
    BY DEF NewsIsTrue, IInv, ShownIsTrue
  <2>1. Behind(shown[c][r].status, round[r])
    BY DEF IInv, ShownIsTrue
  <2>2. shown[c][r] = RoundView(shown[c][r].status)
    BY ViewStatus DEF IInv, Typed
  <2>3. /\ shown[c][r].seed = (shown[c][r].status \notin Live \cup {"NONE"})
        /\ shown[c][r].outcome = (shown[c][r].status \in {"RESOLVED", "SETTLED"})
    BY <2>2 DEF RoundView
  <2> QED
    BY <2>1, <2>3 DEF Behind
<1> QED
  BY <1>1, Invariance, PTL

\* While a socket is connected no balance it is told is older than the last, as
\* long as the process never listened twice; and only the answer to a query that
\* was overtaken takes a round back.
THEOREM NewsComesInOrder == Spec => NewsInOrder
<1> DEFINE InOrder(c) ==
      /\ purse'[c] < purse[c] => doubled
      /\ \A r \in Rounds :
           Rank(shown'[c][r].status) < Rank(shown[c][r].status) =>
             \E read \in reads : read.round = r /\ read.overtaken
<1>1. ASSUME IInv, [Next]_vars, NEW c \in online \cap online' PROVE InOrder(c)
  <2>1. /\ c \in Sockets /\ purse[c] \in Nat
        /\ \A r \in Rounds : shown[c][r].status \in Statuses
    BY <1>1, ViewStatus DEF IInv, Typed
  <2>2. \A s \in Statuses : Rank(s) \in Nat
    BY DEF Rank, Statuses, Live
  <2>3. ASSUME shown'[c] = shown[c], purse'[c] = purse[c] PROVE InOrder(c)
    BY <2>1, <2>2, <2>3
  <2>4. ASSUME NEW d \in Sockets, Disconnect(d) PROVE InOrder(c)
    <3>1. d # c
      BY <1>1, <2>4 DEF Disconnect
    <3> QED
      BY <2>1, <2>3, <2>4, <3>1 DEF Disconnect, IInv, Typed
  <2>5. ASSUME NEW k \in Connections, Dispatch(k) PROVE InOrder(c)
    <3> DEFINE event == Head(inbox[k])
    <3>1. shown' = shown
      BY <2>5 DEF Dispatch
    <3>2. CASE purse' = purse
      BY <2>3, <3>1, <3>2
    <3>3. CASE /\ event.type = "wallet.updated"
               /\ purse' = [d \in Sockets |-> IF d \in online THEN event.balance ELSE purse[d]]
      <4>1. /\ inbox[k] \in Seq(Event) /\ inbox[k] # <<>>
        BY <1>1, <2>5 DEF Dispatch, IInv, Typed
      <4>2. /\ 1 \in 1..Len(inbox[k]) /\ event = inbox[k][1] /\ event \in Event
        BY <4>1
      <4>3. doubled \/ purse[c] =< event.balance
        BY <1>1, <2>1, <3>3, <4>2 DEF IInv, BalancesAreInOrder
      <4>4. purse'[c] = event.balance /\ event.balance \in Nat
        BY <1>1, <2>1, <3>3, <4>2 DEF Event
      <4> QED
        BY <2>1, <2>2, <3>1, <4>3, <4>4
    <3> QED
      BY <2>5, <3>2, <3>3 DEF Dispatch
  <2>6. ASSUME NEW read \in reads, Emit(read) PROVE InOrder(c)
    <3>1. read.asked /\ read.seen \in Statuses /\ read.round \in Rounds
      BY <1>1, <2>6 DEF Emit, IInv, AnswersAreTrue, Typed, Read
    <3>2. read.overtaken \/ Rank(shown[c][read.round].status) =< Rank(read.seen)
      BY <1>1, <2>1, <3>1 DEF IInv, AnswersAreInOrder, Behind
    <3>3. ASSUME NEW r \in Rounds
          PROVE  \/ shown'[c][r] = shown[c][r]
                 \/ r = read.round /\ shown'[c][r].status = read.seen
      BY <1>1, <2>1, <2>6 DEF Emit, IInv, Typed, RoundView
    <3>4. purse' = purse
      BY <2>6 DEF Emit
    <3>5. ASSUME NEW r \in Rounds, Rank(shown'[c][r].status) < Rank(shown[c][r].status)
          PROVE  read.round = r /\ read.overtaken
      BY <2>1, <2>2, <3>1, <3>2, <3>3, <3>5
    <3> QED
      BY <2>1, <3>4, <3>5
  <2>7. ASSUME UNCHANGED <<shown, purse>> PROVE InOrder(c)
    BY <2>3, <2>7
  <2> QED
    BY <1>1, <2>4, <2>5, <2>6, <2>7
       DEF Next, Connection, Publication, Serve, HandleConnection, QueryCurrent, QueryRound,
           FailRead, vars, gateway
<1>2. IInv /\ [Next]_vars => [\A c \in online \cap online' : InOrder(c)]_vars
  BY <1>1
<1> QED
  BY <1>2, Invariance, PTL DEF Spec, NewsInOrder

-----------------------------------------------------------------------------
(* the reconnect chains *)

\* A chain that is connecting does so on a connection that is there.
ChainState == {Idle, At("retry"), At("ending"), At("wait")} \cup {Connecting(k) : k \in Connections}

ChainsInv ==
  /\ silent \subseteq Rounds
  /\ listener \in Connections \cup {NoConnection}
  /\ chain \in [Chains -> ChainState]
  /\ \A h \in Chains : chain[h].pc = "connect" => connection[chain[h].at] # "gone"

\* Connections end, and every chain that is left connecting has one that did not.
LEMMA SeveredChains ==
  ASSUME IInv, ChainsInv, NEW gone, Sever(gone), UNCHANGED <<silent, listener>>,
         chain' \in [Chains -> ChainState],
         \A h \in Chains : chain'[h].pc = "connect" =>
           chain'[h] = chain[h] /\ chain[h].at \notin gone
  PROVE  ChainsInv'
<1>1. ASSUME NEW h \in Chains, chain'[h].pc = "connect" PROVE connection'[chain'[h].at] # "gone"
  <2>1. chain[h].at \in Connections /\ chain[h].at \notin gone /\ chain'[h] = chain[h]
    BY <1>1 DEF ChainsInv, ChainState, Idle, At, Connecting
  <2> QED
    BY <1>1, <2>1 DEF ChainsInv, Sever
<1> QED
  BY <1>1 DEF ChainsInv

\* A chain that was not on a connection that is gone goes on.
LEMMA RejectedIs ==
  ASSUME ChainsInv, NEW gone, NEW settles \in BOOLEAN
  PROVE  /\ Rejected(gone, settles) \in [Chains -> ChainState]
         /\ \A h \in Chains : Rejected(gone, settles)[h].pc = "connect" =>
              Rejected(gone, settles)[h] = chain[h] /\ chain[h].at \notin gone
BY DEF ChainsInv, Rejected, ChainState, Idle, At

\* So rejecting those on the connections that end leaves the others be.
LEMMA RejectionKeepsChains ==
  ASSUME IInv, ChainsInv, NEW gone, NEW settles \in BOOLEAN, Sever(gone),
         chain' = Rejected(gone, settles), UNCHANGED <<silent, listener>>
  PROVE  ChainsInv'
<1>1. /\ Rejected(gone, settles) \in [Chains -> ChainState]
      /\ \A h \in Chains : Rejected(gone, settles)[h].pc = "connect" =>
           Rejected(gone, settles)[h] = chain[h] /\ chain[h].at \notin gone
  BY RejectedIs
<1>2. /\ chain' \in [Chains -> ChainState]
      /\ \A h \in Chains : chain'[h].pc = "connect" =>
           chain'[h] = chain[h] /\ chain[h].at \notin gone
  BY <1>1
<1> QED
  BY <1>2, SeveredChains

\* The chains of a process that does not reconnect now.
LEMMA ConnectKeepsChains ==
  ASSUME IInv, ChainsInv, Connect
  PROVE  ChainsInv'
<1>1. ASSUME NEW k \in Connections, Lose(k) PROVE ChainsInv'
  <2>1. UNCHANGED <<silent, listener>>
    BY <1>1 DEF Lose, database
  <2>2. CASE closing
    <3>1. Sever({k}) /\ chain' = Rejected({k}, TRUE)
      BY <1>1, <2>2 DEF Lose, HandleError
    <3> QED
      BY <2>1, <3>1, RejectionKeepsChains
  <2>3. CASE ~ closing
    <3>1. PICK h \in Chains, settles \in BOOLEAN :
            /\ Sever({k} \cup Current)
            /\ chain' = [i \in Chains |-> IF i = h THEN At("ending")
                                          ELSE IF chain[i].at = k THEN At("retry")
                                          ELSE Rejected(Current, settles)[i]]
      BY <1>1, <2>3 DEF Lose, HandleError
    <3>2. At("ending") \in ChainState /\ At("retry") \in ChainState
          /\ At("ending").pc # "connect" /\ At("retry").pc # "connect"
      BY DEF ChainState, At
    <3>3. /\ Rejected(Current, settles) \in [Chains -> ChainState]
          /\ \A i \in Chains : Rejected(Current, settles)[i].pc = "connect" =>
               Rejected(Current, settles)[i] = chain[i] /\ chain[i].at \notin Current
      BY RejectedIs
    <3>4. chain' \in [Chains -> ChainState]
      BY <3>1, <3>2, <3>3
    <3>5. \A i \in Chains : chain'[i].pc = "connect" =>
            chain'[i] = chain[i] /\ chain[i].at \notin {k} \cup Current
      BY <3>1, <3>2, <3>3
    <3> QED
      BY <2>1, <3>1, <3>4, <3>5, SeveredChains
  <2> QED
    BY <2>2, <2>3
<1>2. ASSUME NEW h \in Chains, Refuse(h) PROVE ChainsInv'
  <2>1. /\ Sever({chain[h].at}) /\ chain' = Rejected({chain[h].at}, TRUE)
        /\ UNCHANGED <<silent, listener>>
    BY <1>2 DEF Refuse, database
  <2> QED
    BY <2>1, RejectionKeepsChains
<1>3. ASSUME NEW h \in Chains, ForgetListener(h) PROVE ChainsInv'
  <2>1. Idle \in ChainState /\ At("wait") \in ChainState
        /\ Idle.pc # "connect" /\ At("wait").pc # "connect"
    BY DEF ChainState, Idle, At
  <2> QED
    BY <1>3, <2>1 DEF ForgetListener, ChainsInv, database
<1>4. ASSUME NEW h \in Chains, StartListening(h) PROVE ChainsInv'
  <2>1. PICK k \in Connections :
          /\ connection[k] = "gone" /\ listener' = k
          /\ connection' = [connection EXCEPT ![k] = "connecting"]
          /\ chain' = [chain EXCEPT ![h] = Connecting(k)]
    BY <1>4 DEF StartListening
  <2>2. silent' = silent
    BY <1>4 DEF StartListening, database
  <2>3. Connecting(k) \in ChainState /\ Connecting(k).at = k
    BY DEF ChainState, Connecting
  <2>4. chain' \in [Chains -> ChainState]
    BY <2>1, <2>3 DEF ChainsInv
  <2>5. ASSUME NEW i \in Chains, chain'[i].pc = "connect"
        PROVE  connection'[chain'[i].at] # "gone"
    <3>1. CASE i = h
      BY <2>1, <2>3, <3>1 DEF ChainsInv, IInv, Typed
    <3>2. CASE i # h
      BY <2>1, <2>5, <3>2 DEF ChainsInv, IInv, Typed
    <3> QED
      BY <3>1, <3>2
  <2> QED
    BY <2>1, <2>2, <2>4, <2>5 DEF ChainsInv
<1>5. ASSUME NEW h \in Chains, Listen(h) PROVE ChainsInv'
  <2>1. Idle \in ChainState /\ Idle.pc # "connect"
    BY DEF ChainState, Idle
  <2> QED
    BY <1>5, <2>1 DEF Listen, ChainsInv, database, IInv, Typed
<1>6. ASSUME NEW h \in Chains, Retry(h) PROVE ChainsInv'
  <2>1. PICK settles \in BOOLEAN :
          /\ Sever(Current)
          /\ chain' = [Rejected(Current, settles) EXCEPT ![h] = At("ending")]
    BY <1>6 DEF Retry, BeginReconnect
  <2>2. UNCHANGED <<silent, listener>>
    BY <1>6 DEF Retry, database
  <2>3. At("ending") \in ChainState /\ At("ending").pc # "connect"
    BY DEF ChainState, At
  <2>4. /\ Rejected(Current, settles) \in [Chains -> ChainState]
        /\ \A i \in Chains : Rejected(Current, settles)[i].pc = "connect" =>
             Rejected(Current, settles)[i] = chain[i] /\ chain[i].at \notin Current
    BY RejectedIs
  <2>5. /\ chain' \in [Chains -> ChainState]
        /\ \A i \in Chains : chain'[i].pc = "connect" =>
             chain'[i] = chain[i] /\ chain[i].at \notin Current
    BY <2>1, <2>3, <2>4
  <2> QED
    BY <2>1, <2>2, <2>5, SeveredChains
<1>7. CASE Shutdown
  <2>1. /\ Sever(Current) /\ chain' = Rejected(Current, TRUE)
        /\ UNCHANGED <<silent, listener>>
    BY <1>7 DEF Shutdown, database
  <2> QED
    BY <2>1, RejectionKeepsChains
<1> QED
  BY <1>1, <1>2, <1>3, <1>4, <1>5, <1>6, <1>7 DEF Connect, Reconnect

LEMMA NextChainsInv == IInv /\ ChainsInv /\ [Next]_vars => ChainsInv'
<1> SUFFICES ASSUME IInv, ChainsInv, [Next]_vars PROVE ChainsInv'
  OBVIOUS
<1>1. CASE Connection
  BY <1>1, ConnectKeepsChains DEF Connection
<1>2. CASE Publication
  <2>1. silent' \subseteq Rounds
    BY <1>2 DEF Publication, Publish, UpdateRound, CommitUpdate, AbortUpdate, OpenRound,
         PublishOpening, DieOpening, BeginPayment, CommitPayment, AbortPayment, ChainsInv
  <2>2. UNCHANGED clients
    BY <1>2 DEF Publication, Publish, UpdateRound, CommitUpdate, AbortUpdate, OpenRound,
         PublishOpening, DieOpening, BeginPayment, CommitPayment, AbortPayment
  <2> QED
    BY <2>1, <2>2 DEF ChainsInv, clients
<1>3. CASE Serve
  <2>1. UNCHANGED <<silent, listener, chain, connection>>
    BY <1>3 DEF Serve, HandleConnection, Disconnect, Dispatch, QueryCurrent, QueryRound,
         FailRead, Emit, bus, database, clients
  <2> QED
    BY <2>1 DEF ChainsInv
<1>4. CASE UNCHANGED vars
  BY <1>4 DEF vars, bus, ChainsInv
<1> QED
  BY <1>1, <1>2, <1>3, <1>4 DEF Next

\* Whatever is lost and however chains overlap, no chain waits for a connection
\* that somebody else has ended; nobody who has left waits for an answer.
THEOREM TypeCorrect == Spec => []TypeOK
<1>1. Init => ChainsInv
  BY DEF Init, BusInit, ChainsInv, ChainState, Idle
<1>2. IInv /\ ChainsInv => TypeOK
  BY DEF IInv, Typed, OnlyOnlineAreTold, ChainsInv, TypeOK
<1> QED
  BY <1>1, <1>2, NextChainsInv, Invariance, PTL DEF Spec

-----------------------------------------------------------------------------
(* up to date *)

\* The news of a round is on its way: an event that will be dispatched, or a
\* query for everyone that will tell how it stands, or excuse whom it tells.
Coming(r) ==
  \/ \E k \in Connections : RoundState(r) \in ToSet(inbox[k])
  \/ \E read \in reads : /\ read.to = Everyone /\ read.round = r
                         /\ read.overtaken \/ ~ read.asked \/ read.seen = round[r]

Knows(c, r) == shown[c][r] = RoundView(round[r])

\* A round that is not open yet is nobody's news, so every opening is published,
\* or lost, of a round all sockets are excused from.
NewsInv ==
  /\ \A r \in silent : round[r] # "NONE"
  /\ excused \in [Sockets -> SUBSET (Rounds \cup {0})]
  /\ \A c \in Sockets : \A r \in Rounds : round[r] = "NONE" => r \in excused[c]
  /\ \A c \in online : \A r \in Rounds \ excused[c] : Coming(r) \/ Knows(c, r)

\* Who has seen as much as somebody who has seen as much has seen the same.
LEMMA BehindBothWays ==
  ASSUME NEW s \in Statuses, NEW t \in Statuses, Behind(s, t), Behind(t, s)
  PROVE  s = t
BY DEF Behind, Rank, Statuses, Live

\* An event that is delivered joins what an inbox has.
LEMMA DeliveredTo ==
  ASSUME IInv, NEW e \in Event, Deliver(e), NEW k \in Connections
  PROVE  /\ ToSet(inbox[k]) \subseteq ToSet(inbox'[k])
         /\ k \in Listening => e \in ToSet(inbox'[k])
         /\ inbox'[k] # inbox[k] => k \in Listening
<1>1. inbox[k] \in Seq(Event)
  BY DEF IInv, Typed
<1>2. CASE k \in Listening
  <2>1. inbox'[k] = Append(inbox[k], e)
    BY <1>2 DEF Deliver
  <2>2. /\ Len(inbox'[k]) = Len(inbox[k]) + 1 /\ Len(inbox[k]) \in Nat
        /\ inbox'[k][Len(inbox[k]) + 1] = e
        /\ \A i \in 1..Len(inbox[k]) : inbox'[k][i] = inbox[k][i]
        /\ DOMAIN inbox'[k] = 1..Len(inbox'[k]) /\ DOMAIN inbox[k] = 1..Len(inbox[k])
    BY <1>1, <2>1
  <2>3. \A i \in DOMAIN inbox[k] : i \in DOMAIN inbox'[k] /\ inbox'[k][i] = inbox[k][i]
    BY <2>2
  <2>4. Len(inbox[k]) + 1 \in DOMAIN inbox'[k]
    BY <2>2
  <2> QED
    BY <1>2, <2>2, <2>3, <2>4 DEF ToSet
<1>3. CASE k \notin Listening
  <2>1. inbox'[k] = inbox[k]
    BY <1>3 DEF Deliver
  <2> QED
    BY <1>3, <2>1
<1> QED
  BY <1>2, <1>3

\* What is coming, or known, stays so while its round stays as it is and nothing
\* is taken from the queries and the inboxes.
LEMMA StillComing ==
  ASSUME NEW r \in Rounds, round'[r] = round[r], reads \subseteq reads',
         \A k \in Connections : RoundState(r) \in ToSet(inbox[k]) =>
           RoundState(r) \in ToSet(inbox'[k]),
         Coming(r)
  PROVE  Coming(r)'
<1>1. CASE \E k \in Connections : RoundState(r) \in ToSet(inbox[k])
  BY <1>1 DEF Coming, RoundState
<1>2. CASE \E read \in reads : /\ read.to = Everyone /\ read.round = r
                               /\ read.overtaken \/ ~ read.asked \/ read.seen = round[r]
  BY <1>2 DEF Coming
<1> QED
  BY <1>1, <1>2 DEF Coming

\* A round that has moved is on its way to whoever listens; who does not, or is
\* not connected, is excused.
LEMMA PublicationKeeps ==
  ASSUME IInv, NewsInv, Publication
  PROVE  NewsInv'
<1> DEFINE moved == {r \in Rounds : round[r] # "NONE" /\ round'[r] # round[r]}
                      \cup {r \in silent \ silent' : inbox' # inbox}
<1>1. /\ Publish /\ UNCHANGED <<online, reads, shown, purse>>
      /\ excused' = [c \in Sockets |->
                       IF Listening = {} \/ c \notin online
                         THEN excused[c] \cup moved ELSE excused[c] \ moved]
  BY DEF Publication
<1> HIDE DEF moved
<1> DEFINE Announced ==
        /\ \A r \in silent' : round'[r] # "NONE"
        /\ moved \subseteq Rounds
        /\ \A r \in Rounds : round'[r] = "NONE" => round[r] = "NONE" /\ r \notin moved
        /\ \A r \in Rounds \ moved : round'[r] = round[r] \/ round[r] = "NONE"
        /\ \A k \in Connections : ToSet(inbox[k]) \subseteq ToSet(inbox'[k])
        /\ \A r \in moved : \A k \in Listening : RoundState(r) \in ToSet(inbox'[k])
<1>2. SUFFICES Announced
  <2>1. excused' \in [Sockets -> SUBSET (Rounds \cup {0})]
    BY <1>1, <1>2 DEF NewsInv
  <2>2. ASSUME NEW c \in Sockets, NEW r \in Rounds, round'[r] = "NONE" PROVE r \in excused'[c]
    BY <1>1, <1>2, <2>2 DEF NewsInv
  <2>3. ASSUME NEW c \in online, NEW r \in Rounds \ excused'[c]
        PROVE  Coming(r)' \/ Knows(c, r)'
    <3>1. c \in Sockets
      BY DEF IInv, Typed
    <3>2. CASE r \in moved
      <4>1. Listening # {}
        BY <1>1, <3>1, <3>2
      <4>2. PICK k \in Listening : RoundState(r) \in ToSet(inbox'[k])
        BY <1>2, <3>2, <4>1
      <4> QED
        BY <4>2 DEF Coming, Listening, RoundState
    <3>3. CASE r \notin moved
      <4>1. r \notin excused[c]
        BY <1>1, <3>1, <3>3
      <4>2. round'[r] = round[r]
        BY <1>2, <3>1, <3>3, <4>1 DEF NewsInv
      <4>3. Coming(r) \/ Knows(c, r)
        BY <4>1 DEF NewsInv
      <4>4. Coming(r) => Coming(r)'
        BY <1>1, <1>2, <4>2, StillComing
      <4>5. Knows(c, r) => Knows(c, r)'
        BY <1>1, <4>2 DEF Knows
      <4> QED
        BY <4>3, <4>4, <4>5
    <3> QED
      BY <3>2, <3>3
  <2> QED
    BY <1>1, <1>2, <2>1, <2>2, <2>3 DEF NewsInv
<1>3. round \in [Rounds -> Statuses] /\ \A r \in Rounds : RoundState(r) \in Event
  BY DEF IInv, Typed, RoundState, Event
<1>4. ASSUME NEW r \in Rounds, CommitUpdate(r)
      PROVE  /\ \A q \in silent' : round'[q] # "NONE"
             /\ moved = {r} /\ Deliver(RoundState(r))
             /\ \A q \in Rounds \ {r} : round'[q] = round[q]
             /\ round'[r] # "NONE"
  <2>1. /\ updating[r] # "NONE" /\ round' = [round EXCEPT ![r] = updating[r]]
        /\ silent' = silent /\ Deliver(RoundState(r))
    BY <1>4 DEF CommitUpdate
  <2>2. updating[r] \in Moves(round[r])
    BY <2>1 DEF IInv, UpdatesAreMoves
  <2>3. round[r] # "NONE" /\ updating[r] # round[r]
    BY <1>3, <2>2 DEF Moves, Statuses, Live
  <2>4. moved = {r}
    BY <1>3, <2>1, <2>3 DEF moved
  <2> QED
    BY <1>3, <2>1, <2>4 DEF NewsInv
<1>5. ASSUME NEW r \in Rounds, PublishOpening(r)
      PROVE  /\ \A q \in silent' : round'[q] # "NONE"
             /\ moved \subseteq {r} /\ round[r] # "NONE" /\ Deliver(RoundState(r))
             /\ round' = round
  <2>1. r \in silent /\ silent' = silent \ {r} /\ Deliver(RoundState(r)) /\ round' = round
    BY <1>5 DEF PublishOpening
  <2> QED
    BY <2>1 DEF NewsInv, moved
<1>6. ASSUME NEW r \in Rounds, OpenRound(r)
      PROVE  /\ \A q \in silent' : round'[q] # "NONE"
             /\ moved = {} /\ inbox' = inbox
             /\ \A q \in Rounds \ {r} : round'[q] = round[q]
             /\ round[r] = "NONE" /\ round'[r] # "NONE"
  <2>1. /\ round[r] = "NONE" /\ round' = [round EXCEPT ![r] = "OPEN"]
        /\ silent' = silent \cup {r} /\ inbox' = inbox
    BY <1>6 DEF OpenRound
  <2> QED
    BY <1>3, <2>1 DEF NewsInv, moved
<1>7. ASSUME round' = round, silent' \subseteq silent, inbox' = inbox \/ silent' = silent
      PROVE  moved = {} /\ \A q \in silent' : round'[q] # "NONE"
  BY <1>7 DEF NewsInv, moved
<1>8. ASSUME NEW e \in Event, Deliver(e)
      PROVE  \A k \in Connections : /\ ToSet(inbox[k]) \subseteq ToSet(inbox'[k])
                                    /\ k \in Listening => e \in ToSet(inbox'[k])
  BY <1>8, DeliveredTo
<1>9. ASSUME NEW r \in Rounds, CommitUpdate(r) \/ PublishOpening(r) PROVE Announced
  <2>1. /\ Deliver(RoundState(r)) /\ moved \subseteq {r} /\ round[r] # "NONE"
        /\ round'[r] # "NONE" /\ \A q \in Rounds \ {r} : round'[q] = round[q]
        /\ round'[r] = round[r] \/ r \in moved
        /\ \A q \in silent' : round'[q] # "NONE"
    <3>1. CASE CommitUpdate(r)
      <4>1. round[r] # "NONE"
        BY <3>1 DEF CommitUpdate, IInv, UpdatesAreMoves, Moves, Typed
      <4> QED
        BY <1>4, <3>1, <4>1
    <3>2. CASE PublishOpening(r)
      BY <1>5, <3>2
    <3> QED
      BY <1>9, <3>1, <3>2
  <2>2. \A k \in Connections : /\ ToSet(inbox[k]) \subseteq ToSet(inbox'[k])
                               /\ k \in Listening => RoundState(r) \in ToSet(inbox'[k])
    BY <1>3, <1>8, <2>1
  <2> QED
    BY <2>1, <2>2 DEF Listening
<1>10. ASSUME NEW r \in Rounds, OpenRound(r) PROVE Announced
  BY <1>6, <1>10
<1>11. ASSUME NEW r \in Rounds, UpdateRound(r) \/ AbortUpdate(r) \/ DieOpening(r)
       PROVE  Announced
  BY <1>7, <1>11 DEF UpdateRound, AbortUpdate, DieOpening
<1>12. CASE BeginPayment \/ AbortPayment
  BY <1>7, <1>12 DEF BeginPayment, AbortPayment
<1>13. CASE CommitPayment
  <2>1. WalletUpdated(wallet + 1) \in Event
    BY DEF IInv, Typed, WalletUpdated, Event
  <2>2. Deliver(WalletUpdated(wallet + 1)) /\ round' = round /\ silent' = silent
    BY <1>13 DEF CommitPayment
  <2> QED
    BY <1>7, <1>8, <2>1, <2>2
<1> QED
  BY <1>1, <1>9, <1>10, <1>11, <1>12, <1>13 DEF Publish

\* What a connection takes with it excuses everybody.
LEMMA ConnectionKeeps ==
  ASSUME IInv, NewsInv, Connection
  PROVE  NewsInv'
<1> DEFINE lost == {r \in Rounds : \E k \in Connections : /\ inbox'[k] = <<>>
                                                        /\ RoundState(r) \in ToSet(inbox[k])}
<1>1. /\ Connect /\ UNCHANGED <<online, reads, shown, purse>>
      /\ excused' = [c \in Sockets |-> excused[c] \cup lost]
  BY DEF Connection
<1>2. round' = round /\ silent' = silent
  BY <1>1 DEF Connect, Lose, Refuse, Reconnect, ForgetListener, StartListening, Listen, Retry,
     Shutdown, database
<1>3. \A k \in Connections : inbox'[k] = inbox[k] \/ inbox'[k] = <<>>
  <2>1. (\E gone : Sever(gone)) \/ inbox' = inbox
    <3>1. ASSUME NEW k \in Connections, Lose(k) PROVE \E gone : Sever(gone)
      BY <3>1 DEF Lose, HandleError
    <3>2. ASSUME NEW h \in Chains, Refuse(h) \/ Reconnect(h)
          PROVE  (\E gone : Sever(gone)) \/ inbox' = inbox
      BY <3>2 DEF Refuse, Reconnect, ForgetListener, StartListening, Listen, Retry, BeginReconnect
    <3>3. Shutdown => \E gone : Sever(gone)
      BY DEF Shutdown
    <3> QED
      BY <1>1, <3>1, <3>2, <3>3 DEF Connect
  <2> QED
    BY <2>1 DEF Sever
<1>4. excused' \in [Sockets -> SUBSET (Rounds \cup {0})]
  BY <1>1 DEF NewsInv
<1>5. ASSUME NEW c \in online, NEW r \in Rounds \ excused'[c]
      PROVE  Coming(r)' \/ Knows(c, r)'
  <2>1. c \in Sockets
    BY DEF IInv, Typed
  <2>2. r \notin excused[c] /\ r \notin lost
    BY <1>1, <2>1
  <2>3. \A k \in Connections : RoundState(r) \in ToSet(inbox[k]) =>
          RoundState(r) \in ToSet(inbox'[k])
    BY <1>3, <2>2
  <2>4. Coming(r) => Coming(r)'
    BY <1>1, <1>2, <2>3, StillComing
  <2>5. Knows(c, r) => Knows(c, r)'
    BY <1>1, <1>2 DEF Knows
  <2> QED
    BY <2>2, <2>4, <2>5 DEF NewsInv
<1> HIDE DEF lost
<1> QED
  BY <1>1, <1>2, <1>4, <1>5 DEF NewsInv

\* A step that takes no query for everyone, and tells nobody anything.
LEMMA ServingKeeps ==
  ASSUME IInv, NewsInv, UNCHANGED <<round, silent, excused>>, online' \subseteq online,
         \A c \in online' : shown'[c] = shown[c],
         \A r \in Rounds : Coming(r) => Coming(r)'
  PROVE  NewsInv'
BY DEF NewsInv, Knows

\* A query goes on: it is one of those that will tell how the round stands.
LEMMA AskedKeeps ==
  ASSUME IInv, NewsInv, NEW read \in reads, NEW q \in Rounds,
         reads' = Asked(read, q) \/ reads' = reads \ {read},
         read.round = 0 \/ (reads' = Asked(read, q) /\ read.round = q),
         UNCHANGED <<bus, online, shown, purse, excused>>
  PROVE  NewsInv'
<1> DEFINE answer == [read EXCEPT !.round = q, !.asked = TRUE, !.seen = round[q]]
<1>1. read \in Read /\ \A r \in Rounds : r # 0
  BY BusAssumption DEF IInv, Typed
<1>2. /\ answer.round = q /\ answer.to = read.to /\ answer.seen = round[q]
      /\ reads' = Asked(read, q) => reads' = (reads \ {read}) \cup {answer}
  BY <1>1 DEF Read, Asked
<1>3. UNCHANGED <<round, silent, inbox>>
  BY DEF bus
<1>4. ASSUME NEW r \in Rounds, Coming(r) PROVE Coming(r)'
  <2>1. CASE \E k \in Connections : RoundState(r) \in ToSet(inbox[k])
    BY <1>3, <2>1 DEF Coming, RoundState
  <2>2. CASE \E other \in reads : /\ other.to = Everyone /\ other.round = r
                                  /\ other.overtaken \/ ~ other.asked \/ other.seen = round[r]
    <3>1. PICK other \in reads : /\ other.to = Everyone /\ other.round = r
                                 /\ other.overtaken \/ ~ other.asked \/ other.seen = round[r]
      BY <2>2
    <3>2. CASE other = read
      <4>1. read.round = q /\ reads' = Asked(read, q)
        BY <1>1, <3>1, <3>2
      <4>2. answer \in reads' /\ answer.to = Everyone /\ answer.round = r
            /\ answer.seen = round'[r]
        BY <1>2, <1>3, <3>1, <3>2, <4>1
      <4> HIDE DEF answer
      <4> QED
        BY <4>2 DEF Coming
    <3>3. CASE other # read
      <4>1. other \in reads'
        BY <1>2, <3>1, <3>3
      <4> QED
        BY <1>3, <3>1, <4>1 DEF Coming
    <3> QED
      BY <3>2, <3>3
  <2> QED
    BY <1>4, <2>1, <2>2 DEF Coming
<1> QED
  BY <1>3, <1>4, ServingKeeps

\* An event that is dispatched becomes a query for everyone.
LEMMA DispatchKeeps ==
  ASSUME IInv, NewsInv, NEW k \in Connections, Dispatch(k)
  PROVE  NewsInv'
<1> DEFINE event == Head(inbox[k])
<1>1. /\ inbox[k] \in Seq(Event) /\ inbox[k] # <<>> /\ inbox \in [Connections -> Seq(Event)]
      /\ inbox' = [inbox EXCEPT ![k] = Tail(@)]
      /\ UNCHANGED <<round, silent, online, shown, excused>>
  BY DEF Dispatch, IInv, Typed, database, clients
<1>2. inbox'[k] = Tail(inbox[k]) /\ \A l \in Connections \ {k} : inbox'[l] = inbox[l]
  BY <1>1
<1>3. \A e \in ToSet(inbox[k]) : e = event \/ e \in ToSet(Tail(inbox[k]))
  <2> SUFFICES ASSUME NEW i \in DOMAIN inbox[k]
               PROVE  inbox[k][i] = event \/ \E j \in DOMAIN Tail(inbox[k]) :
                                               Tail(inbox[k])[j] = inbox[k][i]
    BY DEF ToSet
  <2>1. i \in 1..Len(inbox[k]) /\ event = inbox[k][1]
    BY <1>1
  <2>2. CASE i # 1
    <3>1. i - 1 \in DOMAIN Tail(inbox[k]) /\ Tail(inbox[k])[i - 1] = inbox[k][i]
      BY <1>1, <2>1, <2>2
    <3> QED
      BY <3>1
  <2> QED
    BY <2>1, <2>2
<1>4. \/ /\ reads \subseteq reads' /\ event.type = "round.state"
         /\ Issue(Everyone, event.round)
      \/ event.type = "wallet.updated" /\ reads' = reads
  BY DEF Dispatch, DispatchRound, Issue
<1> HIDE DEF event
<1>5. ASSUME NEW r \in Rounds, Coming(r) PROVE Coming(r)'
  <2>1. CASE RoundState(r) = event
    <3>1. event.round = r /\ event.type = "round.state"
      BY <2>1 DEF RoundState
    <3>2. Issue(Everyone, r)
      BY <1>4, <3>1
    <3> DEFINE new == [slot |-> Min(FreeSlots), to |-> Everyone, round |-> r,
                       asked |-> FALSE, seen |-> "NONE", overtaken |-> FALSE]
    <3>3. new \in reads'
      BY <3>2 DEF Issue
    <3>4. new.to = Everyone /\ new.round = r /\ ~ new.asked
      OBVIOUS
    <3> HIDE DEF new
    <3> QED
      BY <3>3, <3>4 DEF Coming
  <2>2. CASE RoundState(r) # event
    <3>1. \A l \in Connections : RoundState(r) \in ToSet(inbox[l]) =>
            RoundState(r) \in ToSet(inbox'[l])
      BY <1>2, <1>3, <2>2
    <3>2. reads \subseteq reads' /\ round'[r] = round[r]
      BY <1>1, <1>4
    <3> QED
      BY <1>5, <3>1, <3>2, StillComing
  <2> QED
    BY <2>1, <2>2
<1> QED
  BY <1>1, <1>5, ServingKeeps

\* A newcomer is excused from everything.
LEMMA HandleConnectionKeeps ==
  ASSUME IInv, NewsInv, NEW c \in Sockets, HandleConnection(c)
  PROVE  NewsInv'
<1>1. /\ online' = online \cup {c} /\ excused' = [excused EXCEPT ![c] = Rounds]
      /\ reads \subseteq reads' /\ UNCHANGED <<round, silent, inbox, shown>>
  BY DEF HandleConnection, Issue, bus
<1>2. /\ excused' \in [Sockets -> SUBSET (Rounds \cup {0})] /\ excused'[c] = Rounds
      /\ \A d \in Sockets \ {c} : excused'[d] = excused[d]
  BY <1>1 DEF NewsInv
<1>3. \A r \in Rounds : Coming(r) => Coming(r)'
  BY <1>1 DEF Coming, RoundState
<1>4. ASSUME NEW d \in online', NEW r \in Rounds \ excused'[d]
      PROVE  Coming(r)' \/ Knows(d, r)'
  <2>1. d # c /\ d \in online /\ r \in Rounds \ excused[d]
    BY <1>1, <1>2 DEF IInv, Typed
  <2>2. Coming(r) \/ Knows(d, r)
    BY <2>1 DEF NewsInv
  <2> QED
    BY <1>1, <1>3, <2>2 DEF Knows
<1>5. \A d \in Sockets : \A r \in Rounds : round'[r] = "NONE" => r \in excused'[d]
  BY <1>1, <1>2 DEF NewsInv
<1> QED
  BY <1>1, <1>2, <1>4, <1>5 DEF NewsInv

\* Nobody but the socket that leaves was waiting for its answers.
LEMMA DisconnectKeeps ==
  ASSUME IInv, NewsInv, NEW c \in Sockets, Disconnect(c)
  PROVE  NewsInv'
<1>1. /\ online' = online \ {c} /\ shown' = [shown EXCEPT ![c] = Unseen]
      /\ reads' = {read \in reads : read.to # c}
      /\ UNCHANGED <<round, silent, inbox, excused>>
  BY DEF Disconnect, bus
<1>2. c # Everyone
  BY GatewayAssumption DEF Everyone
<1>3. \A r \in Rounds : Coming(r) => Coming(r)'
  BY <1>1, <1>2 DEF Coming, RoundState
<1>4. online' \subseteq online /\ \A d \in online' : shown'[d] = shown[d]
  BY <1>1 DEF IInv, Typed
<1> QED
  BY <1>1, <1>3, <1>4, ServingKeeps

\* Who is told by a query that was not overtaken knows at least as much as
\* before; who is told by one that was is excused.
LEMMA EmitKeeps ==
  ASSUME IInv, NewsInv, NEW read \in reads, Emit(read)
  PROVE  NewsInv'
<1> DEFINE told == IF read.to = Everyone THEN online ELSE {read.to}
           q == read.round
<1>1. /\ read \in Read /\ read.asked /\ q \in Rounds /\ read.seen \in Statuses
      /\ Behind(read.seen, round[q])
  BY DEF Emit, IInv, AnswersAreTrue, Typed, Read
<1>2. /\ shown' = [c \in Sockets |-> IF c \in told
                     THEN [shown[c] EXCEPT ![q] = RoundView(read.seen)] ELSE shown[c]]
      /\ excused' = [c \in Sockets |-> IF read.overtaken /\ c \in told
                       THEN excused[c] \cup {q} ELSE excused[c]]
      /\ reads' = {[other EXCEPT !.overtaken = @ \/ other.round = q] : other \in reads \ {read}}
      /\ UNCHANGED <<round, silent, inbox, online>>
  BY DEF Emit, bus
<1>3. told \subseteq online
  BY DEF IInv, OnlyOnlineAreTold
<1>4. shown \in [Sockets -> [Rounds -> View]] /\ excused \in [Sockets -> SUBSET (Rounds \cup {0})]
      /\ online \subseteq Sockets
  BY DEF IInv, Typed, NewsInv
<1>5. ASSUME NEW c \in Sockets, NEW r \in Rounds
      PROVE  \/ shown'[c][r] = shown[c][r]
             \/ c \in told /\ r = q /\ shown'[c][r] = RoundView(read.seen)
  BY <1>2, <1>4
<1>6. ASSUME NEW c \in Sockets PROVE excused[c] \subseteq excused'[c] /\ excused'[c] \in SUBSET (Rounds \cup {0})
  BY <1>1, <1>2, <1>4
<1>7. excused' \in [Sockets -> SUBSET (Rounds \cup {0})]
  BY <1>1, <1>2, <1>4
<1>8. ASSUME NEW other \in reads \ {read}
      PROVE  \E new \in reads' : /\ new.to = other.to /\ new.round = other.round
                                 /\ new.asked = other.asked /\ new.seen = other.seen
                                 /\ new.overtaken = (other.overtaken \/ other.round = q)
  <2> DEFINE new == [other EXCEPT !.overtaken = @ \/ other.round = q]
  <2>1. other \in Read /\ new \in reads'
    BY <1>2 DEF IInv, Typed
  <2>2. /\ new.to = other.to /\ new.round = other.round
        /\ new.asked = other.asked /\ new.seen = other.seen
        /\ new.overtaken = (other.overtaken \/ other.round = q)
    BY <2>1 DEF Read
  <2> HIDE DEF new
  <2> QED
    BY <2>1, <2>2
<1> HIDE DEF told
<1>9. ASSUME NEW r \in Rounds, Coming(r)
      PROVE  \/ Coming(r)'
             \/ r = q /\ read.to = Everyone /\ (read.overtaken \/ read.seen = round[r])
  <2>1. CASE \E k \in Connections : RoundState(r) \in ToSet(inbox[k])
    BY <1>2, <2>1 DEF Coming, RoundState
  <2>2. CASE \E other \in reads : /\ other.to = Everyone /\ other.round = r
                                  /\ other.overtaken \/ ~ other.asked \/ other.seen = round[r]
    <3>1. PICK other \in reads : /\ other.to = Everyone /\ other.round = r
                                 /\ other.overtaken \/ ~ other.asked \/ other.seen = round[r]
      BY <2>2
    <3>2. CASE other = read
      BY <1>1, <3>1, <3>2
    <3>3. CASE other # read
      <4>1. PICK new \in reads' :
              /\ new.to = other.to /\ new.round = other.round
              /\ new.asked = other.asked /\ new.seen = other.seen
              /\ new.overtaken = (other.overtaken \/ other.round = q)
        BY <1>8, <3>3
      <4> QED
        BY <1>2, <3>1, <4>1 DEF Coming
    <3> QED
      BY <3>2, <3>3
  <2> QED
    BY <1>9, <2>1, <2>2 DEF Coming
<1>10. ASSUME NEW c \in online, NEW r \in Rounds \ excused'[c]
       PROVE  Coming(r)' \/ Knows(c, r)'
  <2>1. c \in Sockets /\ r \notin excused[c] /\ (Coming(r) \/ Knows(c, r))
    BY <1>4, <1>6 DEF NewsInv
  <2>2. CASE Knows(c, r)
    <3>1. CASE shown'[c][r] = shown[c][r]
      BY <1>2, <2>2, <3>1 DEF Knows
    <3>2. CASE c \in told /\ r = q /\ shown'[c][r] = RoundView(read.seen)
      <4>1. ~ read.overtaken
        BY <1>2, <2>1, <3>2
      <4>2. Behind(shown[c][r].status, read.seen)
        BY <1>1, <2>1, <3>2, <4>1 DEF IInv, AnswersAreInOrder
      <4>3. shown[c][r].status = round[r] /\ round[r] \in Statuses
        BY <2>2 DEF Knows, RoundView, IInv, Typed
      <4>4. read.seen = round[r]
        BY <1>1, <3>2, <4>2, <4>3, BehindBothWays
      <4> QED
        BY <1>2, <3>2, <4>4 DEF Knows
    <3> QED
      BY <1>5, <2>1, <3>1, <3>2
  <2>3. CASE Coming(r) /\ ~ Coming(r)'
    <3>1. r = q /\ read.to = Everyone /\ (read.overtaken \/ read.seen = round[r])
      BY <1>9, <2>3
    <3>2. c \in told
      BY <3>1 DEF told
    <3>3. read.seen = round[r]
      BY <1>2, <2>1, <3>1, <3>2
    <3>4. shown'[c][r] = RoundView(read.seen)
      BY <1>1, <1>2, <1>4, <2>1, <3>1, <3>2
    <3> QED
      BY <1>2, <3>3, <3>4 DEF Knows
  <2> QED
    BY <2>1, <2>2, <2>3
<1>11. \A c \in Sockets : \A r \in Rounds : round'[r] = "NONE" => r \in excused'[c]
  BY <1>2, <1>6 DEF NewsInv
<1> QED
  BY <1>2, <1>7, <1>10, <1>11 DEF NewsInv

\* A query for everyone that fails excuses everyone who is there to be told; one
\* for a newcomer was no news to anybody else.
LEMMA FailReadKeeps ==
  ASSUME IInv, NewsInv, NEW read \in reads, FailRead(read)
  PROVE  NewsInv'
<1> DEFINE Lost(c) == IF read.to = Everyone /\ c \in online THEN {read.round} ELSE {}
<1>1. /\ reads' = reads \ {read}
      /\ UNCHANGED <<round, silent, inbox, online, shown>>
  BY DEF FailRead, bus
<1>2. /\ read.round \in Rounds \cup {0} /\ online \subseteq Sockets
      /\ excused \in [Sockets -> SUBSET (Rounds \cup {0})]
  BY DEF IInv, Typed, Read, NewsInv
<1>3. excused' = [c \in Sockets |-> excused[c] \cup Lost(c)]
  BY <1>2 DEF FailRead
<1>4. excused' \in [Sockets -> SUBSET (Rounds \cup {0})]
  BY <1>2, <1>3
<1>5. \A c \in Sockets : excused[c] \subseteq excused'[c]
  BY <1>3
<1>6. ASSUME NEW c \in online, NEW r \in Rounds \ excused'[c]
      PROVE  Coming(r)' \/ Knows(c, r)'
  <2>1. c \in Sockets /\ r \notin excused[c] /\ r \notin Lost(c)
    BY <1>2, <1>3
  <2>2. Coming(r) \/ Knows(c, r)
    BY <2>1 DEF NewsInv
  <2>3. CASE Knows(c, r)
    BY <1>1, <2>3 DEF Knows
  <2>4. CASE \E k \in Connections : RoundState(r) \in ToSet(inbox[k])
    BY <1>1, <2>4 DEF Coming, RoundState
  <2>5. CASE \E other \in reads : /\ other.to = Everyone /\ other.round = r
                                  /\ other.overtaken \/ ~ other.asked \/ other.seen = round[r]
    <3>1. PICK other \in reads : /\ other.to = Everyone /\ other.round = r
                                 /\ other.overtaken \/ ~ other.asked \/ other.seen = round[r]
      BY <2>5
    <3>2. other # read
      BY <2>1, <3>1
    <3>3. other \in reads'
      BY <1>1, <3>2
    <3> QED
      BY <1>1, <3>1, <3>3 DEF Coming
  <2> QED
    BY <2>2, <2>3, <2>4, <2>5 DEF Coming
<1>7. \A c \in Sockets : \A r \in Rounds : round'[r] = "NONE" => r \in excused'[c]
  BY <1>1, <1>5 DEF NewsInv
<1> QED
  BY <1>1, <1>4, <1>6, <1>7 DEF NewsInv

LEMMA NextNewsInv == IInv /\ NewsInv /\ [Next]_vars => NewsInv'
<1> SUFFICES ASSUME IInv, NewsInv, [Next]_vars PROVE NewsInv'
  OBVIOUS
<1>1. ASSUME NEW read \in reads, QueryCurrent(read) PROVE NewsInv'
  <2>1. read.round = 0 /\ UNCHANGED <<bus, online, shown, purse, excused>>
    BY <1>1 DEF QueryCurrent
  <2>2. CASE reads' = reads \ {read}
    <3>1. read \in Read
      BY DEF IInv, Typed
    <3>2. \A r \in Rounds : Coming(r) => Coming(r)'
      BY <2>1, <2>2, BusAssumption DEF Coming, RoundState, bus
    <3> QED
      BY <2>1, <3>2, ServingKeeps DEF bus
  <2>3. ASSUME NEW q \in Rounds, reads' = Asked(read, q) PROVE NewsInv'
    <3>1. /\ reads' = Asked(read, q) \/ reads' = reads \ {read}
          /\ read.round = 0 \/ (reads' = Asked(read, q) /\ read.round = q)
      BY <2>1, <2>3
    <3> QED
      BY <2>1, <3>1, AskedKeeps
  <2> QED
    BY <1>1, <2>2, <2>3 DEF QueryCurrent, LiveRounds
<1>2. ASSUME NEW read \in reads, QueryRound(read) PROVE NewsInv'
  <2>1. read.round \in Rounds
    BY <1>2 DEF QueryRound, IInv, Typed, Read
  <2>2. /\ reads' = Asked(read, read.round)
        /\ UNCHANGED <<bus, online, shown, purse, excused>>
    BY <1>2 DEF QueryRound
  <2> QED
    BY <2>1, <2>2, AskedKeeps
<1>3. CASE Serve
  BY <1>1, <1>2, <1>3, HandleConnectionKeeps, DisconnectKeeps, DispatchKeeps, FailReadKeeps,
     EmitKeeps DEF Serve
<1>4. CASE UNCHANGED vars
  BY <1>4 DEF vars, gateway, bus, NewsInv, Coming, Knows
<1> QED
  BY <1>3, <1>4, PublicationKeeps, ConnectionKeeps DEF Next

\* Once its news has gone through, a round is known as it stands to every socket
\* that was connected when it last moved, unless since then its event was lost or
\* never published, or a query of it failed or was overtaken.
THEOREM SocketsCatchUp == Spec => []SocketsAreUpToDate
<1>1. Init => NewsInv
  BY DEF Init, BusInit, NewsInv
<1>2. NewsInv => SocketsAreUpToDate
  BY DEF NewsInv, SocketsAreUpToDate, AtRest, Coming, Knows
<1> QED
  BY <1>1, <1>2, NextNewsInv, Invariance, PTL DEF Spec

=============================================================================
