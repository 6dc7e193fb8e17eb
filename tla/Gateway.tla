------------------------------ MODULE Gateway -------------------------------
(***************************************************************************)
(* The live gateway of one process: it hears the events of EventBus and    *)
(* tells the sockets connected to it.  A balance is passed on as the event *)
(* carries it; for a round the gateway reads the row, in a query of its    *)
(* own that nothing keeps in order with the others.                        *)
(***************************************************************************)
EXTENDS EventBus, FiniteSetsExt

CONSTANTS
  Sockets,    \* browsers that may be connected; all of the watching player
  MaxReads    \* bound: queries of the gateway in flight

ASSUME GatewayAssumption == MaxReads \in Nat /\ "everyone" \notin Sockets

VARIABLES
  online,   \* the sockets that are connected
  reads,    \* queries in flight
  shown,    \* what each socket was last told of each round
  purse,    \* the balance each socket was last told
  excused   \* per socket, the rounds it need not be up to date on: history

gateway == <<online, reads, shown, purse, excused>>
vars == <<bus, gateway>>

\* toRoundView: the outcome is disclosed when it was used, the seed when the
\* round is over.
RoundView(status) ==
  [status |-> status, seed |-> status \notin Live \cup {"NONE"},
   outcome |-> status \in {"RESOLVED", "SETTLED"}]

Unseen == [r \in Rounds |-> RoundView("NONE")]

\* How far a round has come; a voided one is as closed as a settled one.
Rank(status) ==
  CASE status = "NONE" -> 0
    [] status = "OPEN" -> 1
    [] status = "LOCKED" -> 2
    [] status = "RUNNING" -> 3
    [] status = "RESOLVED" -> 4
    [] status \in {"SETTLED", "VOIDED"} -> 5

-----------------------------------------------------------------------------
(* sockets come and go *)

Everyone == "everyone"
FreeSlots == (1..MaxReads) \ {read.slot : read \in reads}

\* A query is issued for a socket or for everyone; round 0 asks for the current.
Issue(to, r) ==
  /\ FreeSlots # {}
  /\ reads' = reads \cup {[slot |-> Min(FreeSlots), to |-> to, round |-> r,
                           asked |-> FALSE, seen |-> "NONE", overtaken |-> FALSE]}

\* handleConnection: the newcomer is answered with the current round.
HandleConnection(c) ==
  /\ c \notin online
  /\ online' = online \cup {c}
  /\ Issue(c, 0)
  /\ excused' = [excused EXCEPT ![c] = Rounds]
  /\ UNCHANGED <<bus, shown, purse>>

\* Mutation of Disconnect: the answer is kept for whoever comes next.
DisconnectAnswered(c) ==
  /\ c \in online
  /\ online' = online \ {c}
  /\ shown' = [shown EXCEPT ![c] = Unseen]
  /\ purse' = [purse EXCEPT ![c] = 0]
  /\ UNCHANGED <<bus, reads, excused>>

\* What is answered to a socket that is gone reaches nobody.
Disconnect(c) ==
  /\ c \in online
  /\ online' = online \ {c}
  /\ reads' = {read \in reads : read.to # c}
  /\ shown' = [shown EXCEPT ![c] = Unseen]
  /\ purse' = [purse EXCEPT ![c] = 0]
  /\ UNCHANGED <<bus, excused>>

-----------------------------------------------------------------------------
(* dispatch *)

DispatchRound(r) == Issue(Everyone, r)

\* A notification is handed over: each starts its work at once, and only the
\* balance is passed on before the next one is looked at.
Dispatch(k) ==
  /\ inbox[k] # <<>>
  /\ inbox' = [inbox EXCEPT ![k] = Tail(@)]
  /\ LET event == Head(inbox[k])
     IN \/ /\ event.type = "round.state"
           /\ DispatchRound(event.round)
           /\ UNCHANGED purse
        \/ /\ event.type = "wallet.updated"
           /\ purse' = [c \in Sockets |-> IF c \in online THEN event.balance ELSE purse[c]]
           /\ UNCHANGED reads
  /\ UNCHANGED <<database, clients, online, shown, excused>>

LiveRounds == {r \in Rounds : round[r] \in Live}

Asked(read, r) ==
  (reads \ {read}) \cup {[read EXCEPT !.round = r, !.asked = TRUE, !.seen = round[r]]}

\* getCurrentRound: the newest round that is live, of either game.
QueryCurrent(read) ==
  /\ read.round = 0
  /\ \/ LiveRounds = {} /\ reads' = reads \ {read}
     \/ \E r \in LiveRounds : (\A q \in LiveRounds : q =< r) /\ reads' = Asked(read, r)
  /\ UNCHANGED <<bus, online, shown, purse, excused>>

\* getRound.
QueryRound(read) ==
  /\ read.round # 0
  /\ ~ read.asked
  /\ reads' = Asked(read, read.round)
  /\ UNCHANGED <<bus, online, shown, purse, excused>>

\* The query throws, whether or not it saw the row: that is logged, and nobody
\* is told or asked again; those it was for are behind until the round moves.
FailRead(read) ==
  /\ reads' = reads \ {read}
  /\ excused' = [c \in Sockets |-> IF read.to = Everyone /\ c \in online
                   THEN excused[c] \cup {read.round} ELSE excused[c]]
  /\ UNCHANGED <<bus, online, shown, purse>>

\* The rows come back, in whatever order, and are emitted.
Emit(read) ==
  LET told == IF read.to = Everyone THEN online ELSE {read.to}
  IN /\ read.asked
     /\ shown' = [c \in Sockets |-> IF c \in told
                    THEN [shown[c] EXCEPT ![read.round] = RoundView(read.seen)]
                    ELSE shown[c]]
     /\ reads' = {[other EXCEPT !.overtaken = @ \/ other.round = read.round] :
                    other \in reads \ {read}}
     /\ excused' = [c \in Sockets |-> IF read.overtaken /\ c \in told
                      THEN excused[c] \cup {read.round} ELSE excused[c]]
     /\ UNCHANGED <<bus, online, purse>>

-----------------------------------------------------------------------------

\* A transition excuses the sockets that are not connected, and those of a
\* process that does not listen; an opening counts when it is published.
Publication ==
  /\ Publish
  /\ LET moved == {r \in Rounds : round[r] # "NONE" /\ round'[r] # round[r]}
                    \cup {r \in silent \ silent' : inbox' # inbox}
     IN excused' = [c \in Sockets |->
                      IF Listening = {} \/ c \notin online
                        THEN excused[c] \cup moved ELSE excused[c] \ moved]
  /\ UNCHANGED <<online, reads, shown, purse>>

\* What a severed connection had not handed over excuses everybody.
Connection ==
  /\ Connect
  /\ LET lost == {r \in Rounds : \E k \in Connections :
                    /\ inbox'[k] = <<>>
                    /\ RoundState(r) \in ToSet(inbox[k])}
     IN excused' = [c \in Sockets |-> excused[c] \cup lost]
  /\ UNCHANGED <<online, reads, shown, purse>>

Init ==
  /\ BusInit
  /\ online = {}
  /\ reads = {}
  /\ shown = [c \in Sockets |-> Unseen]
  /\ purse = [c \in Sockets |-> 0]
  /\ excused = [c \in Sockets |-> Rounds]

Serve ==
  \/ \E c \in Sockets : HandleConnection(c) \/ Disconnect(c)
  \/ \E k \in Connections : Dispatch(k)
  \/ \E read \in reads :
       QueryCurrent(read) \/ QueryRound(read) \/ FailRead(read) \/ Emit(read)

\* After onModuleDestroy the subject is complete: only the chains go on.
Next == Connection \/ (~ closing /\ (Publication \/ Serve))

Spec == Init /\ [][Next]_vars

\* Timers fire and what was ended ends.  Two chains can cut each other's attempt
\* to connect short, but not for ever: they come seconds apart, and an attempt
\* is a matter of milliseconds.
FairSpec ==
  /\ Spec
  /\ \A h \in Chains :
       /\ WF_vars(Connection /\ Reconnect(h))
       /\ SF_vars(Connection /\ Listen(h))

-----------------------------------------------------------------------------
(* properties *)

TypeOK ==
  /\ round \in [Rounds -> Statuses]
  /\ updating \in [Rounds -> Statuses]
  /\ silent \subseteq Rounds
  /\ connection \in [Connections -> {"gone", "connecting", "listening"}]
  /\ listener \in Connections \cup {NoConnection}
  /\ \A h \in Chains : chain[h].pc = "connect" => connection[chain[h].at] # "gone"
  /\ online \subseteq Sockets
  /\ \A read \in reads : read.to \in online \cup {Everyone}

\* Nothing a socket is told was rolled back: the balance it was told was
\* committed, and a round it was told of has come at least that far; a secret
\* it was told is no longer one.
NewsIsTrue ==
  \A c \in Sockets :
    /\ purse[c] =< wallet
    /\ \A r \in Rounds :
         /\ Rank(shown[c][r].status) =< Rank(round[r])
         /\ shown[c][r].seed => round[r] \notin Live
         /\ shown[c][r].outcome => round[r] \in {"RESOLVED", "SETTLED"}

\* A socket that stays connected is never told an older balance after a newer
\* one, unless the process has listened on two connections at once; nor that a
\* round has gone back, unless two queries of the round overlapped.
NewsInOrder ==
  [][\A c \in online \cap online' :
       /\ purse'[c] < purse[c] => doubled
       /\ \A r \in Rounds :
            Rank(shown'[c][r].status) < Rank(shown[c][r].status) =>
              \E read \in reads : read.round = r /\ read.overtaken]_vars

AtRest(r) ==
  /\ r \notin silent
  /\ \A k \in Connections : RoundState(r) \notin ToSet(inbox[k])
  /\ \A read \in reads : read.round # r

\* Once the news of a round has gone through, every socket that was connected
\* when the round last moved knows its status, unless the event was not published
\* or was lost with its connection, or a query of the round has failed or been
\* overtaken since - the next transition makes good what any of these left wrong.
SocketsAreUpToDate ==
  \A c \in online : \A r \in Rounds \ excused[c] :
    AtRest(r) => shown[c][r] = RoundView(round[r])

\* However connections are lost and reconnect chains overlap, the process ends
\* up listening again.
ListenerSettles == <>[](closing \/ Listening # {})

=============================================================================
