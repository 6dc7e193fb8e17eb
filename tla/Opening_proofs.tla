--------------------------- MODULE Opening_proofs ---------------------------
(***************************************************************************)
(* What holds of the election, for any number of processes, and of opening *)
(* rounds, for any length of the chains and any number of nonces: the      *)
(* timer runs only where the lock is, or where the process has been cut    *)
(* off from it; no two rounds draw from one position of a chain.           *)
(***************************************************************************)
EXTENDS Opening, Data_proofs

-----------------------------------------------------------------------------
(* the election *)

\* A process with a running timer holds the lock or was cut off; one in the
\* middle of a tick may have been stopped since.  Only a process that is up, and
\* is not shutting down, has a timer.
IInv ==
  /\ TypeOK
  /\ \A p \in Processes :
       /\ proc[p].timer => lock = p \/ proc[p].cut
       /\ Ticking(p) => proc[p].timer \/ proc[p].stopped
       /\ proc[p].timer => proc[p].pc = "up"

\* No process runs a tick, and the lock is free, before anything starts.
LEMMA InitIInv == Init => IInv
  BY ProcessesAssumption DEF Init, IInv, TypeOK, Down, Process, Ticking, LastGame, Free, Ghost

\* Every action keeps the invariant.
LEMMA NextIInv == IInv /\ [Next]_vars => IInv'
<1> SUFFICES ASSUME IInv, [Next]_vars PROVE IInv'
  OBVIOUS
<1> USE ProcessesAssumption DEF IInv, TypeOK, Down, Process, Ticking, LastGame, Free, Ghost
<1>1. ASSUME NEW p \in Processes, Boot(p) PROVE IInv'
  BY <1>1 DEF Boot
<1>2. ASSUME NEW p \in Processes, TryAcquire(p) PROVE IInv'
  BY <1>2 DEF TryAcquire
<1>3. ASSUME NEW p \in Processes, SafeTick(p) PROVE IInv'
  BY <1>3 DEF SafeTick
<1>4. ASSUME NEW p \in Processes, TickGame(p) PROVE IInv'
  BY <1>4 DEF TickGame
<1>5. ASSUME NEW p \in Processes, TickFails(p) PROVE IInv'
  BY <1>5 DEF TickFails
<1>6. ASSUME NEW p \in Processes, Close(p) PROVE IInv'
  <2>1. proc[p] \in Process /\ proc'[p] \in Process
    <3>1. proc[p] \in Process
      BY Zenon
    <3>2. proc'[p] = [proc[p] EXCEPT !.pc = "releasing", !.stopped = TRUE, !.timer = FALSE]
      BY <1>6 DEF Close
    <3> QED
      BY <3>1, <3>2
  <2>2. \A q \in Processes \ {p} : proc'[q] = proc[q]
    BY <1>6 DEF Close
  <2>3. TypeOK'
    BY <1>6, <2>1, <2>2 DEF Close
  <2>4. ASSUME NEW q \in Processes
        PROVE  /\ proc'[q].timer => lock' = q \/ proc'[q].cut
               /\ proc'[q].game # 0 => proc'[q].timer \/ proc'[q].stopped
               /\ proc'[q].timer => proc'[q].pc = "up"
    <3>1. CASE q = p
      BY <1>6, <3>1 DEF Close
    <3>2. CASE q # p
      BY <1>6, <2>2, <3>2 DEF Close
    <3> QED
      BY <3>1, <3>2
  <2> QED
    BY <2>3, <2>4
<1>7. ASSUME NEW p \in Processes, Release(p) PROVE IInv'
  <2>1. proc[p] \in Process /\ proc'[p] \in Process
    <3>1. proc[p] \in Process
      BY Zenon
    <3>2. proc'[p] = [proc[p] EXCEPT !.pc = "closed", !.leader = FALSE]
      BY <1>7 DEF Release
    <3> QED
      BY <3>1, <3>2
  <2>2. \A q \in Processes \ {p} : proc'[q] = proc[q]
    BY <1>7 DEF Release
  <2>3. TypeOK'
    BY <1>7, <2>1, <2>2 DEF Release
  <2>4. ASSUME NEW q \in Processes
        PROVE  /\ proc'[q].timer => lock' = q \/ proc'[q].cut
               /\ proc'[q].game # 0 => proc'[q].timer \/ proc'[q].stopped
               /\ proc'[q].timer => proc'[q].pc = "up"
    <3>1. CASE q = p
      BY <1>7, <3>1 DEF Release
    <3>2. CASE q # p
      BY <1>7, <2>2, <3>2 DEF Release
    <3> QED
      BY <3>1, <3>2
  <2> QED
    BY <2>3, <2>4
<1>8. ASSUME NEW p \in Processes, Die(p) PROVE IInv'
  <2>1. proc[p] \in Process /\ proc'[p] \in Process
    <3>1. proc[p] \in Process
      BY Zenon
    <3>2. proc'[p] = Down
      BY <1>8 DEF Die
    <3>3. Down \in Process
      OBVIOUS
    <3> QED
      BY <3>1, <3>2, <3>3, Zenon
  <2>2. \A q \in Processes \ {p} : proc'[q] = proc[q]
    BY <1>8 DEF Die
  <2>3. TypeOK'
    BY <1>8, <2>1, <2>2 DEF Die
  <2>4. ASSUME NEW q \in Processes
        PROVE  /\ proc'[q].timer => lock' = q \/ proc'[q].cut
               /\ proc'[q].game # 0 => proc'[q].timer \/ proc'[q].stopped
               /\ proc'[q].timer => proc'[q].pc = "up"
    <3>1. CASE q = p
      BY <1>8, <3>1 DEF Die
    <3>2. CASE q # p
      BY <1>8, <2>2, <3>2 DEF Die
    <3> QED
      BY <3>1, <3>2
  <2> QED
    BY <2>3, <2>4
<1>9. ASSUME NEW p \in Processes, CutSession(p) PROVE IInv'
  <2>1. proc[p] \in Process /\ proc'[p] \in Process
    <3>1. proc[p] \in Process
      BY Zenon
    <3>2. proc'[p] = [proc[p] EXCEPT !.cut = TRUE]
      BY <1>9 DEF CutSession
    <3> QED
      BY <3>1, <3>2
  <2>2. \A q \in Processes \ {p} : proc'[q] = proc[q]
    BY <1>9 DEF CutSession
  <2>3. TypeOK'
    BY <1>9, <2>1, <2>2 DEF CutSession
  <2>4. ASSUME NEW q \in Processes
        PROVE  /\ proc'[q].timer => lock' = q \/ proc'[q].cut
               /\ proc'[q].game # 0 => proc'[q].timer \/ proc'[q].stopped
               /\ proc'[q].timer => proc'[q].pc = "up"
    <3>1. CASE q = p
      BY <1>9, <3>1 DEF CutSession
    <3>2. CASE q # p
      BY <1>9, <2>2, <3>2 DEF CutSession
    <3> QED
      BY <3>1, <3>2
  <2> QED
    BY <2>3, <2>4
<1>10. ASSUME NoticeGhost PROVE IInv'
  BY <1>10 DEF NoticeGhost
<1>11. ASSUME UNCHANGED vars PROVE IInv'
  BY <1>11 DEF vars
<1> QED
  BY <1>1, <1>2, <1>3, <1>4, <1>5, <1>6, <1>7, <1>8, <1>9, <1>10, <1>11 DEF Next, RunTick

\* The invariant holds in every state the processes reach.
LEMMA Invariance == Spec => []IInv
  BY InitIInv, NextIInv, PTL DEF Spec

\* A process's record stays a record of the shape its service has, and the lock
\* has one holder at most.
THEOREM TypeCorrect == Spec => []TypeOK
<1>1. IInv => TypeOK
  BY DEF IInv
<1> QED
  BY <1>1, Invariance, PTL

\* Overlapping ticks of two processes are confined to a shutdown or a lost
\* session (leader-election.service.ts:9, "only the process holding this lock").
THEOREM OneEngineAtATime == Spec => []OneEngine
<1>1. IInv => OneEngine
  <2> SUFFICES ASSUME IInv, NEW p \in Processes, NEW q \in Processes,
                      p # q, Ticking(p), Ticking(q),
                      ~ proc[p].stopped, ~ proc[p].cut,
                      ~ proc[q].stopped, ~ proc[q].cut
               PROVE FALSE
    BY DEF OneEngine
  <2>1. lock = p
    BY DEF IInv
  <2>2. lock = q
    BY DEF IInv
  <2> QED
    BY <2>1, <2>2
<1> QED
  BY <1>1, Invariance, PTL

\* Every tick starts under the lock, or on a session the server has ended.
THEOREM TicksAlwaysStartUnderTheLock == Spec => TicksStartUnderTheLock
<1>1. IInv /\ [Next]_vars =>
        [\A p \in Processes : ~ Ticking(p) /\ Ticking(p)' => lock = p \/ proc[p].cut]_vars
  <2> SUFFICES ASSUME IInv, Next, NEW p \in Processes, ~ Ticking(p), Ticking(p)'
               PROVE lock = p \/ proc[p].cut
    BY DEF vars
  <2> USE DEF IInv, TypeOK, Process, Ticking, LastGame
  <2>1. CASE \E q \in Processes : SafeTick(q)
    <3>1. PICK q \in Processes : SafeTick(q)
      BY <2>1
    <3>2. q = p
      BY <3>1 DEF SafeTick
    <3> QED
      BY <3>1, <3>2 DEF SafeTick
  <2>2. CASE ~ \E q \in Processes : SafeTick(q)
    <3>1. ASSUME NEW q \in Processes, RunTick(q) PROVE proc'[p].game = 0
      <4>1. q # p \/ proc[p].game # 0
        BY <3>1 DEF RunTick, TickGame, TickFails
      <4>2. q # p => proc'[p] = proc[p]
        BY <3>1 DEF RunTick, TickGame, TickFails
      <4> QED
        BY <4>1, <4>2
    <3>2. ASSUME NEW q \in Processes, Boot(q) \/ TryAcquire(q) PROVE proc'[p].game = 0
      BY <3>2 DEF Boot, TryAcquire
    <3>3. ASSUME NEW q \in Processes, Close(q) \/ Release(q) PROVE proc'[p].game = 0
      BY <3>3 DEF Close, Release
    <3>4. ASSUME NEW q \in Processes, Die(q) \/ CutSession(q) PROVE proc'[p].game = 0
      BY <3>4 DEF Die, CutSession, Down
    <3>5. ASSUME NoticeGhost PROVE proc'[p].game = 0
      BY <3>5 DEF NoticeGhost
    <3> QED
      BY <2>2, <3>1, <3>2, <3>3, <3>4, <3>5 DEF Next
  <2> QED
    BY <2>1, <2>2
<1> QED
  BY <1>1, Invariance, PTL DEF Spec, TicksStartUnderTheLock

-----------------------------------------------------------------------------
(* opening rounds: the election goes on as it did *)

\* Whatever a tick does to the rounds, the election goes as Leadership has it.
LEMMA StepImplements == [OpeningNext]_allVars => [Next]_vars
<1> SUFFICES ASSUME OpeningNext PROVE [Next]_vars
  BY DEF allVars, vars
<1>1. ASSUME NEW p \in Processes, Election(p) PROVE Next
  BY <1>1 DEF Election, Next
<1>2. ASSUME NEW p \in Processes, TickBody(p) PROVE [Next]_vars
  <2>1. CASE FindNone(p) \/ PeekNextNonce(p) \/ FindChain(p) \/ CreateChain(p)
    BY <2>1 DEF FindNone, PeekNextNonce, FindChain, CreateChain, vars
  <2>2. CASE Conclude(p) \/ PassGame(p) \/ InsertRound(p) \/ InsertLoses(p)
    BY <2>2 DEF Conclude, PassGame, InsertRound, InsertLoses, Next, RunTick
  <2>3. CASE TickThrows(p)
    BY <2>3 DEF TickThrows, Next, RunTick
  <2> QED
    BY <1>2, <2>1, <2>2, <2>3 DEF TickBody
<1>3. ASSUME NEW p \in Processes, DieOpening(p) PROVE Next
  BY <1>3 DEF DieOpening, Next
<1>4. ASSUME NoticeGhost PROVE Next
  BY <1>4 DEF Next
<1> QED
  BY <1>1, <1>2, <1>3, <1>4 DEF OpeningNext

\* The processes that open rounds are the processes of Leadership.
THEOREM OpeningImplementsLeadership == OpeningSpec => Spec
<1>1. OpeningInit => Init
  BY DEF OpeningInit
<1> QED
  BY <1>1, StepImplements, PTL DEF OpeningSpec, Spec

\* So no two processes are in the middle of a tick, opening rounds or not, but
\* for one that is shutting down or was cut off.
THEOREM OneEngineOpens == OpeningSpec => []OneEngine
  BY OpeningImplementsLeadership, OneEngineAtATime, PTL

-----------------------------------------------------------------------------
(* stale drafts *)

\* The newest round's nonce, and the nonces a chain covers.
Newest == Max(Opened \cup {0})
Spans(c, n) == c =< n /\ n < c + ChainLength

TablesOK ==
  /\ rounds \in [Nonces -> Round \cup {NoRound}]
  /\ chains \subseteq Nonces
  /\ sequence \in 0..MaxNonce

Draft == [pc : {"none", "peek", "chain", "create", "insert"}, nonce : Nat, chain : Nat]

DraftsOK ==
  /\ draft \in [Processes -> Draft]
  /\ \A p \in Processes : /\ draft[p].pc = "none" <=> draft[p] = NoDraft
                          /\ draft[p] # NoDraft => Ticking(p)

\* There is a nonce for every draft.
Room ==
  /\ IsFiniteSet(Drafting)
  /\ sequence + Cardinality(Drafting) =< MaxNonce

\* A row holds the position, in a chain that is there, of the nonce it was drawn
\* for, which is its own or an earlier one; later rows were drawn for later nonces.
RowHolds(n) ==
  /\ n =< sequence
  /\ rounds[n].drawnFor =< n
  /\ rounds[n].chain \in chains
  /\ Spans(rounds[n].chain, rounds[n].drawnFor)
  /\ rounds[n].index = rounds[n].drawnFor - rounds[n].chain + 1
  /\ \A m \in Opened : m < n => rounds[m].drawnFor < rounds[n].drawnFor

\* No chain starts later than the next nonce.
ChainsHold ==
  /\ \A c \in chains : c =< Newest + 1
  /\ ChainsDoNotOverlap

\* A draft that has been overtaken is for a nonce another round was drawn for; a
\* draft about to make a chain, or to insert, has found what it found.
DraftHolds(p) ==
  LET d == draft[p]
  IN /\ d.pc \in {"chain", "create", "insert"} =>
          /\ d.nonce \in 1..(Newest + 1)
          /\ d.nonce =< Newest => \E n \in Opened : rounds[n].drawnFor = d.nonce
     /\ d.pc = "create" => \A c \in chains : c < d.nonce => c + ChainLength =< d.nonce
     /\ d.pc = "insert" => d.chain \in chains /\ Spans(d.chain, d.nonce)

OInv ==
  /\ TablesOK
  /\ DraftsOK
  /\ Room
  /\ \A n \in Opened : RowHolds(n)
  /\ ChainsHold
  /\ \A p \in Processes : DraftHolds(p)

\* The newest round is one of them, or there is none.
LEMMA NewestIs ==
  ASSUME TablesOK, \A n \in Opened : n =< sequence
  PROVE  /\ Newest \in Opened \cup {0}
         /\ Newest \in 0..sequence
         /\ \A n \in Opened : n =< Newest
<1>1. sequence \in Nat /\ Opened \cup {0} \subseteq 0..sequence /\ Opened \cup {0} # {}
  BY OpeningAssumption DEF TablesOK, Opened, Nonces
<1>2. /\ Newest \in Opened \cup {0}
      /\ \A n \in Opened \cup {0} : Newest >= n
  BY <1>1, MaxIsGreatest DEF Newest
<1> QED
  BY <1>1, <1>2

\* In a state of the invariant.
LEMMA NewestHolds ==
  ASSUME OInv
  PROVE  /\ Newest \in Opened \cup {0}
         /\ Newest \in 0..sequence
         /\ \A n \in Opened : n =< Newest
  BY NewestIs DEF OInv, RowHolds

\* A nonce is covered by one chain at most.
LEMMA OneChain ==
  ASSUME TablesOK, ChainsDoNotOverlap, NEW c \in chains, NEW d \in chains,
         NEW n \in Nat, Spans(c, n), Spans(d, n)
  PROVE  c = d
<1>1. c \in Nat /\ d \in Nat /\ ChainLength \in Nat
  BY OpeningAssumption DEF TablesOK, Nonces
<1>2. ~ (c < d) /\ ~ (d < c)
  BY <1>1 DEF ChainsDoNotOverlap, Spans
<1> QED
  BY <1>1, <1>2

\* Rows have the fields of a round.
LEMMA RowsAreRounds ==
  ASSUME TablesOK, NEW n \in Opened
  PROVE  /\ n \in Nonces /\ rounds[n] \in Round /\ rounds[n].drawnFor \in Nonces
         /\ rounds[n].chain \in Nonces /\ rounds[n].index \in Nat
  BY OpeningAssumption DEF TablesOK, Opened, Round, Nonces

\* An overtaken draft is refused by rounds_chain_position: the round that overtook
\* it was drawn for the same nonce, so from the same position.
LEMMA StaleIsTaken ==
  ASSUME OInv, NEW p \in Processes, draft[p].pc = "insert", draft[p].nonce =< Newest
  PROVE  PositionTaken(p)
<1>1. PICK n \in Opened : rounds[n].drawnFor = draft[p].nonce
  BY DEF OInv, DraftHolds
<1>2. draft[p].nonce \in Nat /\ draft[p].chain \in chains /\ Spans(draft[p].chain, draft[p].nonce)
  BY DEF OInv, DraftHolds, DraftsOK, Draft
<1>3. /\ rounds[n].chain \in chains /\ Spans(rounds[n].chain, draft[p].nonce)
      /\ rounds[n].index = draft[p].nonce - rounds[n].chain + 1
  BY <1>1 DEF OInv, RowHolds
<1>4. rounds[n].chain = draft[p].chain
  BY <1>2, <1>3, OneChain DEF OInv, ChainsHold
<1> QED
  BY <1>3, <1>4 DEF PositionTaken, IndexOf

\* An overtaken draft about to make a chain finds that it is there.
LEMMA StaleIsMade ==
  ASSUME OInv, NEW p \in Processes, draft[p].pc = "create", draft[p].nonce =< Newest
  PROVE  draft[p].nonce \in chains
<1>1. PICK n \in Opened : rounds[n].drawnFor = draft[p].nonce
  BY DEF OInv, DraftHolds
<1>2. draft[p].nonce \in Nat
  BY DEF OInv, DraftsOK, Draft
<1>3. rounds[n].chain \in chains /\ Spans(rounds[n].chain, draft[p].nonce)
  BY <1>1 DEF OInv, RowHolds
<1>4. rounds[n].chain \in Nat /\ ChainLength \in Nat
  BY RowsAreRounds, OpeningAssumption DEF OInv, Nonces
<1>5. ~ (rounds[n].chain < draft[p].nonce)
  BY <1>2, <1>3, <1>4 DEF OInv, DraftHolds, Spans
<1>6. rounds[n].chain = draft[p].nonce
  BY <1>2, <1>3, <1>4, <1>5 DEF Spans
<1> QED
  BY <1>3, <1>6

-----------------------------------------------------------------------------
(* opening rounds: the steps *)

\* Nothing a draft or a row is held to changes with the sequence alone.
LEMMA SameTables ==
  ASSUME OInv, UNCHANGED <<rounds, chains>>, sequence' \in sequence..MaxNonce
  PROVE  /\ TablesOK' /\ ChainsHold' /\ (\A n \in Opened : RowHolds(n))'
         /\ \A p \in Processes : draft'[p] \in {draft[p], NoDraft} => DraftHolds(p)'
<1>1. Opened' = Opened /\ Newest' = Newest
  BY DEF Opened, Newest
<1>2. sequence \in 0..MaxNonce /\ sequence =< sequence' /\ MaxNonce \in Nat
  BY OpeningAssumption DEF OInv, TablesOK
<1>3. TablesOK'
  BY <1>2 DEF OInv, TablesOK
<1>4. ChainsHold'
  BY <1>1 DEF OInv, ChainsHold, ChainsDoNotOverlap
<1>5. ASSUME NEW n \in Opened PROVE RowHolds(n)'
  <2>1. n \in Nat
    BY DEF Opened, Nonces
  <2>2. RowHolds(n)
    BY DEF OInv
  <2>3. sequence' \in Nat /\ sequence \in Nat /\ n =< sequence'
    BY <1>2, <2>1, <2>2 DEF RowHolds
  <2> QED
    BY <1>1, <2>2, <2>3 DEF RowHolds, Spans
<1>6. ASSUME NEW p \in Processes, draft'[p] \in {draft[p], NoDraft} PROVE DraftHolds(p)'
  <2>1. CASE draft'[p] = draft[p]
    BY <1>1, <2>1 DEF OInv, DraftHolds, Spans
  <2>2. CASE draft'[p] = NoDraft
    BY <2>2 DEF DraftHolds, NoDraft
  <2> QED
    BY <1>6, <2>1, <2>2
<1> QED
  BY <1>1, <1>3, <1>4, <1>5, <1>6

\* A process that gives up its draft, or has none, leaves room: at most one nonce
\* goes with the draft.
LEMMA RoomKept ==
  ASSUME OInv, NEW p \in Processes, draft' = [draft EXCEPT ![p] = NoDraft],
         \/ sequence' = sequence
         \/ sequence' = sequence + 1 /\ draft[p] # NoDraft
  PROVE  Room' /\ sequence' \in sequence..MaxNonce
<1>1. Drafting' = Drafting \ {p}
  BY DEF OInv, DraftsOK, Drafting
<1>2. IsFiniteSet(Drafting) /\ Cardinality(Drafting) \in Nat
  BY FS_CardinalityType DEF OInv, Room
<1>3. IsFiniteSet(Drafting') /\ Cardinality(Drafting') \in Nat
  BY <1>1, <1>2, FS_RemoveElement, FS_CardinalityType
<1>4. Cardinality(Drafting') = IF draft[p] # NoDraft THEN Cardinality(Drafting) - 1
                                                     ELSE Cardinality(Drafting)
  BY <1>1, <1>2, FS_RemoveElement DEF Drafting
<1>5. sequence \in Nat /\ MaxNonce \in Nat /\ sequence + Cardinality(Drafting) =< MaxNonce
  BY OpeningAssumption DEF OInv, TablesOK, Room
<1>6. sequence' + Cardinality(Drafting') =< MaxNonce
  BY <1>2, <1>4, <1>5
<1> QED
  BY <1>2, <1>3, <1>5, <1>6 DEF Room

\* A draft goes on: there is as much room as before.
LEMMA RoomSame ==
  ASSUME OInv, sequence' = sequence, Drafting' = Drafting
  PROVE  Room' /\ sequence' \in sequence..MaxNonce
<1>1. sequence \in 0..MaxNonce /\ MaxNonce \in Nat
  BY OpeningAssumption DEF OInv, TablesOK
<1> QED
  BY <1>1 DEF OInv, Room

\* A step of the election, or one that looks at a game and passes on.
LEMMA ElectionStep ==
  ASSUME OInv, UNCHANGED <<tables, draft>>,
         \A p \in Processes : draft[p] # NoDraft => Ticking(p)'
  PROVE  OInv'
<1>1. rounds' = rounds /\ chains' = chains /\ sequence' = sequence /\ draft' = draft
  BY DEF tables
<1>2. Drafting' = Drafting
  BY <1>1 DEF Drafting
<1>3. Room' /\ sequence' \in sequence..MaxNonce
  BY <1>1, <1>2, RoomSame
<1>4. DraftsOK'
  BY <1>1 DEF OInv, DraftsOK
<1>5. /\ TablesOK' /\ ChainsHold' /\ (\A n \in Opened : RowHolds(n))'
      /\ \A p \in Processes : draft'[p] \in {draft[p], NoDraft} => DraftHolds(p)'
  BY <1>1, <1>3, SameTables
<1> QED
  BY <1>1, <1>3, <1>4, <1>5 DEF OInv

\* A draft is given up: by an insert that loses, an error, or the end of the
\* process.
LEMMA GiveUpStep ==
  ASSUME OInv, UNCHANGED <<rounds, chains>>, NEW p \in Processes,
         draft' = [draft EXCEPT ![p] = NoDraft],
         \/ sequence' = sequence
         \/ sequence' = sequence + 1 /\ draft[p] # NoDraft,
         \A q \in Processes \ {p} : proc'[q] = proc[q]
  PROVE  OInv'
<1>1. Room' /\ sequence' \in sequence..MaxNonce
  BY RoomKept
<1>2. draft'[p] = NoDraft /\ \A q \in Processes \ {p} : draft'[q] = draft[q]
  BY DEF OInv, DraftsOK
<1>3. DraftsOK'
  <2>1. NoDraft \in Draft
    BY DEF NoDraft, Draft
  <2>2. draft' \in [Processes -> Draft]
    BY <2>1 DEF OInv, DraftsOK
  <2>3. \A q \in Processes \ {p} : Ticking(q)' = Ticking(q)
    BY DEF Ticking
  <2>4. NoDraft.pc = "none"
    BY DEF NoDraft
  <2> QED
    BY <1>2, <2>2, <2>3, <2>4 DEF OInv, DraftsOK
<1>4. /\ TablesOK' /\ ChainsHold' /\ (\A n \in Opened : RowHolds(n))'
      /\ \A q \in Processes : draft'[q] \in {draft[q], NoDraft} => DraftHolds(q)'
  BY <1>1, SameTables
<1> QED
  BY <1>1, <1>2, <1>3, <1>4 DEF OInv

\* A draft goes on to what it will do next; nothing else happens.
LEMMA DraftStep ==
  ASSUME OInv, UNCHANGED <<proc, tables>>, NEW p \in Processes, NEW d \in Draft,
         draft' = [draft EXCEPT ![p] = d],
         d.pc # "none", DraftHolds(p)', Room', Ticking(p)
  PROVE  OInv'
<1>1. rounds' = rounds /\ chains' = chains /\ sequence' = sequence /\ proc' = proc
  BY DEF tables
<1>2. sequence' \in sequence..MaxNonce
  <2>1. sequence \in 0..MaxNonce /\ MaxNonce \in Nat
    BY OpeningAssumption DEF OInv, TablesOK
  <2> QED
    BY <1>1, <2>1
<1>3. draft'[p] = d /\ \A q \in Processes \ {p} : draft'[q] = draft[q]
  BY DEF OInv, DraftsOK
<1>4. DraftsOK'
  <2>1. draft' \in [Processes -> Draft]
    BY DEF OInv, DraftsOK
  <2>2. \A q \in Processes : Ticking(q)' = Ticking(q)
    BY <1>1 DEF Ticking
  <2>3. d # NoDraft
    BY DEF NoDraft
  <2> QED
    BY <1>3, <2>1, <2>2, <2>3 DEF OInv, DraftsOK
<1>5. /\ TablesOK' /\ ChainsHold' /\ (\A n \in Opened : RowHolds(n))'
      /\ \A q \in Processes : draft'[q] \in {draft[q], NoDraft} => DraftHolds(q)'
  BY <1>1, <1>2, SameTables
<1> QED
  BY <1>3, <1>4, <1>5 DEF OInv

\* There is a nonce left for a draft that begins.
LEMMA BeginStep ==
  ASSUME OInv, NEW p \in Processes, FindNone(p)
  PROVE  OInv'
<1> DEFINE d == [draft[p] EXCEPT !.pc = "peek"]
<1>1. draft[p] = NoDraft /\ Ticking(p) /\ NonceLeft
  BY DEF FindNone
<1>2. d \in Draft /\ d.pc = "peek" /\ draft' = [draft EXCEPT ![p] = d]
  BY DEF FindNone, OInv, DraftsOK, Draft
<1>3. UNCHANGED <<proc, tables>>
  BY DEF FindNone
<1>4. DraftHolds(p)'
  <2>1. draft'[p].pc = "peek"
    BY <1>2 DEF OInv, DraftsOK
  <2> QED
    BY <2>1 DEF DraftHolds
<1>5. Room'
  <2> HIDE DEF d
  <2>1. d # NoDraft
    BY <1>2 DEF NoDraft
  <2>2. Drafting' = Drafting \cup {p} /\ p \notin Drafting
    BY <1>1, <1>2, <2>1 DEF Drafting, OInv, DraftsOK
  <2>3. IsFiniteSet(Drafting) /\ Cardinality(Drafting) \in Nat
    BY FS_CardinalityType DEF OInv, Room
  <2>4. IsFiniteSet(Drafting') /\ Cardinality(Drafting') = Cardinality(Drafting) + 1
    BY <2>2, <2>3, FS_AddElement
  <2>5. sequence' = sequence /\ sequence \in Nat /\ MaxNonce \in Nat
    BY <1>3, OpeningAssumption DEF OInv, TablesOK, tables
  <2>6. sequence' + Cardinality(Drafting') =< MaxNonce
    BY <1>1, <2>3, <2>4, <2>5 DEF NonceLeft
  <2> QED
    BY <2>4, <2>6 DEF Room
<1> HIDE DEF d
<1> QED
  BY <1>1, <1>2, <1>3, <1>4, <1>5, DraftStep

\* A draft that goes on is one of the drafts as before.
LEMMA GoingOn ==
  ASSUME OInv, NEW p \in Processes, draft[p] # NoDraft, NEW d \in Draft, d.pc # "none",
         draft' = [draft EXCEPT ![p] = d], sequence' = sequence
  PROVE  Room' /\ Ticking(p) /\ draft'[p] = d
<1>1. d # NoDraft
  BY DEF NoDraft
<1>2. Drafting' = Drafting
  BY <1>1 DEF Drafting, OInv, DraftsOK
<1> QED
  BY <1>2, RoomSame DEF OInv, DraftsOK

\* The nonce peeked at is the next one after the newest round's, and no later
\* one than the sequence will hand out.
LEMMA PeekStep ==
  ASSUME OInv, NEW p \in Processes, PeekNextNonce(p)
  PROVE  OInv'
<1> DEFINE d == [draft[p] EXCEPT !.pc = "chain", !.nonce = Newest + 1]
<1>1. /\ draft[p].pc = "peek" /\ UNCHANGED <<proc, tables>>
      /\ draft' = [draft EXCEPT ![p].pc = "chain", ![p].nonce = Newest + 1]
  BY DEF PeekNextNonce, Newest
<1>2. Newest \in Nat
  BY NewestHolds DEF OInv, TablesOK
<1>3. d \in Draft /\ d.pc = "chain" /\ d.nonce = Newest + 1 /\ draft' = [draft EXCEPT ![p] = d]
  <2>1. draft[p] \in Draft /\ draft \in [Processes -> Draft] /\ Newest + 1 \in Nat
    BY <1>2 DEF OInv, DraftsOK
  <2>2. d \in Draft /\ d.pc = "chain" /\ d.nonce = Newest + 1
    BY <2>1 DEF Draft
  <2>3. draft' = [draft EXCEPT ![p] = d]
    BY <1>1, <2>1 DEF Draft
  <2> QED
    BY <2>2, <2>3
<1> HIDE DEF d
<1>4. draft[p] # NoDraft
  BY <1>1 DEF NoDraft
<1>5. rounds' = rounds /\ chains' = chains /\ sequence' = sequence /\ Newest' = Newest
  BY <1>1 DEF tables, Newest, Opened
<1>6. Room' /\ Ticking(p) /\ draft'[p] = d
  BY <1>3, <1>4, <1>5, GoingOn
<1>7. DraftHolds(p)'
  BY <1>2, <1>3, <1>5, <1>6 DEF DraftHolds
<1> QED
  BY <1>1, <1>3, <1>6, <1>7, DraftStep

\* The chain that starts last, of those that do not start after n.
LEMMA ChainBelowIs ==
  ASSUME TablesOK, NEW n \in Nat
  PROVE  /\ ChainBelow(n) \in chains \cup {0}
         /\ ChainBelow(n) =< n
         /\ \A c \in chains : c =< n => c =< ChainBelow(n)
<1> DEFINE S == {c \in chains : c =< n} \cup {0}
<1>1. S \subseteq 0..n /\ S # {}
  <2>1. chains \subseteq Nat
    BY DEF TablesOK, Nonces
  <2>2. ASSUME NEW c \in S PROVE c \in 0..n
    BY <2>1
  <2> QED
    BY <2>2
<1>2. Max(S) \in S /\ \A x \in S : Max(S) >= x
  BY <1>1, MaxIsGreatest
<1>3. ChainBelow(n) = Max(S)
  BY DEF ChainBelow
<1>4. /\ ChainBelow(n) \in S
      /\ \A x \in S : ChainBelow(n) >= x
  BY <1>2, <1>3
<1>5. ChainBelow(n) =< n
  BY <1>1, <1>4
<1>6. \A c \in chains : c =< n => c =< ChainBelow(n)
  BY <1>1, <1>4
<1> QED
  BY <1>4, <1>5, <1>6

\* If the newest chain below does not cover a nonce, no chain does: the ones that
\* start earlier end before it.
LEMMA NoneCovers ==
  ASSUME TablesOK, ChainsDoNotOverlap, NEW n \in Nat, ~ Covers(ChainBelow(n), n),
         NEW c \in chains, c < n
  PROVE  c + ChainLength =< n
<1> DEFINE b == ChainBelow(n)
<1>1. b \in chains \cup {0} /\ b =< n /\ c =< b
  BY ChainBelowIs DEF TablesOK, Nonces
<1>2. c \in Nat /\ c > 0 /\ ChainLength \in Nat /\ chains \subseteq Nat
  BY OpeningAssumption DEF TablesOK, Nonces
<1>3. ~ (b # 0 /\ n < b + ChainLength)
  BY DEF Covers
<1> HIDE DEF b
<1>4. b \in chains /\ b + ChainLength =< n
  BY <1>1, <1>2, <1>3
<1>5. c = b \/ c + ChainLength =< b
  BY <1>1, <1>2, <1>4 DEF ChainsDoNotOverlap
<1> QED
  BY <1>1, <1>2, <1>4, <1>5

\* The chain found covers the draft's nonce; if there is none, no chain does.
LEMMA FindStep ==
  ASSUME OInv, NEW p \in Processes, FindChain(p)
  PROVE  OInv'
<1> DEFINE n == draft[p].nonce
           c == ChainBelow(n)
<1>1. draft[p].pc = "chain" /\ UNCHANGED <<proc, tables>>
  BY DEF FindChain
<1>2. rounds' = rounds /\ chains' = chains /\ sequence' = sequence /\ Newest' = Newest
      /\ Opened' = Opened
  BY <1>1 DEF tables, Newest, Opened
<1>3. draft[p] \in Draft /\ draft[p] # NoDraft /\ n \in Nat
  BY <1>1 DEF OInv, DraftsOK, Draft, NoDraft
<1>4. c \in chains \cup {0} /\ c =< n /\ chains \subseteq Nat
  BY <1>3, ChainBelowIs DEF OInv, TablesOK, Nonces
<1>5. CASE Covers(c, n)
  <2> DEFINE d == [draft[p] EXCEPT !.pc = "insert", !.chain = c]
  <2>1. draft' = [draft EXCEPT ![p].pc = "insert", ![p].chain = c]
    BY <1>5 DEF FindChain
  <2>2. c \in chains /\ Spans(c, n)
    BY <1>4, <1>5 DEF Covers, Spans
  <2> HIDE DEF c
  <2>3. /\ d \in Draft /\ d.pc = "insert" /\ d.nonce = n /\ d.chain = c
        /\ draft' = [draft EXCEPT ![p] = d]
    BY <1>3, <1>4, <2>1, <2>2 DEF OInv, DraftsOK, Draft
  <2> HIDE DEF d
  <2>4. Room' /\ Ticking(p) /\ draft'[p] = d
    BY <1>2, <1>3, <2>3, GoingOn
  <2>5. DraftHolds(p)'
    BY <1>1, <1>2, <2>2, <2>3, <2>4 DEF OInv, DraftHolds, Spans
  <2> QED
    BY <1>1, <2>3, <2>4, <2>5, DraftStep
<1>6. CASE ~ Covers(c, n)
  <2> DEFINE d == [draft[p] EXCEPT !.pc = "create"]
  <2>1. draft' = [draft EXCEPT ![p].pc = "create"]
    BY <1>6 DEF FindChain
  <2>2. \A x \in chains : x < n => x + ChainLength =< n
    BY <1>3, <1>6, NoneCovers DEF OInv, ChainsHold
  <2> HIDE DEF c
  <2>3. /\ d \in Draft /\ d.pc = "create" /\ d.nonce = n
        /\ draft' = [draft EXCEPT ![p] = d]
    BY <1>3, <2>1 DEF OInv, DraftsOK, Draft
  <2> HIDE DEF d
  <2>4. Room' /\ Ticking(p) /\ draft'[p] = d
    BY <1>2, <1>3, <2>3, GoingOn
  <2>5. DraftHolds(p)'
    BY <1>1, <1>2, <2>2, <2>3, <2>4 DEF OInv, DraftHolds
  <2> QED
    BY <1>1, <2>3, <2>4, <2>5, DraftStep
<1> QED
  BY <1>5, <1>6

\* A chain is made by a draft that has not been overtaken, so after all others,
\* and where none reaches to.
LEMMA CreateStep ==
  ASSUME OInv, NEW p \in Processes, CreateChain(p)
  PROVE  OInv'
<1> DEFINE k == draft[p].nonce
           d == [draft[p] EXCEPT !.pc = "insert", !.chain = k]
<1>1. /\ draft[p].pc = "create" /\ k \notin chains
      /\ chains' = chains \cup {k}
      /\ draft' = [draft EXCEPT ![p].pc = "insert", ![p].chain = k]
      /\ UNCHANGED <<proc, lock, rounds, sequence>>
  BY DEF CreateChain
<1>2. Newest' = Newest /\ Opened' = Opened
  BY <1>1 DEF Newest, Opened
<1>3. Newest \in Nat /\ Newest =< sequence /\ sequence \in Nat
  BY NewestHolds DEF OInv, TablesOK
<1>4. draft[p] \in Draft /\ draft[p] # NoDraft /\ k \in Nat
  BY <1>1 DEF OInv, DraftsOK, Draft, NoDraft
<1>5. /\ d \in Draft /\ d.pc = "insert" /\ d.nonce = k /\ d.chain = k
      /\ draft' = [draft EXCEPT ![p] = d]
  BY <1>1, <1>4 DEF OInv, DraftsOK, Draft
<1> HIDE DEF d
<1>6. Room' /\ Ticking(p) /\ draft'[p] = d
  BY <1>1, <1>4, <1>5, GoingOn
<1>7. k = Newest + 1
  <2>1. k \in 1..(Newest + 1)
    BY <1>1 DEF OInv, DraftHolds
  <2>2. ~ (k =< Newest)
    BY <1>1, StaleIsMade
  <2> QED
    BY <1>3, <2>1, <2>2
<1>8. \A c \in chains : c \in Nat /\ c < k /\ c + ChainLength =< k
  <2> SUFFICES ASSUME NEW c \in chains PROVE c \in Nat /\ c < k /\ c + ChainLength =< k
    OBVIOUS
  <2>1. c \in Nat /\ c =< Newest + 1 /\ c # k
    BY <1>1 DEF OInv, ChainsHold, TablesOK, Nonces
  <2>2. c < k
    BY <1>3, <1>7, <2>1
  <2> QED
    BY <1>1, <2>1, <2>2 DEF OInv, DraftHolds
<1>9. k \in Nonces
  <2>1. p \in Drafting
    BY <1>4 DEF Drafting
  <2>2. IsFiniteSet(Drafting) /\ Cardinality(Drafting) \in Nat /\ Cardinality(Drafting) # 0
    BY <2>1, FS_CardinalityType, FS_EmptySet DEF OInv, Room
  <2>3. sequence + 1 =< MaxNonce /\ MaxNonce \in Nat
    BY <1>3, <2>2, OpeningAssumption DEF OInv, Room
  <2> QED
    BY <1>3, <1>7, <2>3 DEF Nonces
<1>10. TablesOK'
  BY <1>1, <1>9 DEF OInv, TablesOK
<1>11. ChainLength \in Nat /\ ChainLength > 0
  BY OpeningAssumption
<1>12. ChainsHold'
  <2>1. \A c \in chains' : c =< Newest' + 1
    BY <1>1, <1>2, <1>3, <1>7 DEF OInv, ChainsHold
  <2>2. ASSUME NEW c \in chains', NEW e \in chains', c < e PROVE c + ChainLength =< e
    <3>1. CASE c \in chains /\ e \in chains
      BY <2>2, <3>1 DEF OInv, ChainsHold, ChainsDoNotOverlap
    <3>2. CASE c \in chains /\ e = k
      BY <1>8, <3>2
    <3>3. c = k => ~ (e \in chains)
      BY <1>4, <1>8, <2>2
    <3>4. ~ (c = k /\ e = k)
      BY <1>4, <2>2
    <3> QED
      BY <1>1, <3>1, <3>2, <3>3, <3>4
  <2> QED
    BY <2>1, <2>2 DEF ChainsHold, ChainsDoNotOverlap
<1>13. (\A m \in Opened : RowHolds(m))'
  BY <1>1, <1>2 DEF OInv, RowHolds, Spans
<1>14. DraftsOK'
  <2>1. draft' \in [Processes -> Draft] /\ \A q \in Processes \ {p} : draft'[q] = draft[q]
    BY <1>5 DEF OInv, DraftsOK
  <2>2. \A q \in Processes : Ticking(q)' = Ticking(q)
    BY <1>1 DEF Ticking
  <2>3. d # NoDraft
    BY <1>5 DEF NoDraft
  <2> QED
    BY <1>4, <1>5, <1>6, <2>1, <2>2, <2>3 DEF OInv, DraftsOK
<1>15. ASSUME NEW q \in Processes PROVE DraftHolds(q)'
  <2>1. CASE q = p
    <3>1. k \in 1..(Newest + 1) /\ ~ (k =< Newest)
      BY <1>3, <1>7
    <3>2. k \in chains' /\ Spans(k, k)
      BY <1>1, <1>4, <1>11 DEF Spans
    <3> QED
      BY <1>2, <1>5, <1>6, <2>1, <3>1, <3>2 DEF DraftHolds, Spans
  <2>2. CASE q # p
    <3>1. draft'[q] = draft[q]
      BY <1>5, <2>2 DEF OInv, DraftsOK
    <3>2. DraftHolds(q)
      BY DEF OInv
    <3>3. draft[q].pc = "create" => ~ (k < draft[q].nonce)
      BY <1>3, <1>7, <3>2 DEF DraftHolds
    <3>4. /\ draft'[q].pc \in {"chain", "create", "insert"} =>
               /\ draft'[q].nonce \in 1..(Newest' + 1)
               /\ draft'[q].nonce =< Newest' =>
                    \E m \in Opened' : rounds'[m].drawnFor = draft'[q].nonce
          /\ draft'[q].pc = "insert" => draft'[q].chain \in chains'
                                        /\ Spans(draft'[q].chain, draft'[q].nonce)
      <4>1. rounds' = rounds /\ chains \subseteq chains'
        BY <1>1
      <4> QED
        BY <1>2, <3>1, <3>2, <4>1 DEF DraftHolds
    <3>5. draft'[q].pc = "create" =>
            \A c \in chains' : c < draft'[q].nonce => c + ChainLength =< draft'[q].nonce
      BY <1>1, <3>1, <3>2, <3>3 DEF DraftHolds
    <3> QED
      BY <3>4, <3>5 DEF DraftHolds, Spans
  <2> QED
    BY <2>1, <2>2
<1> QED
  BY <1>6, <1>10, <1>12, <1>13, <1>14, <1>15 DEF OInv

\* A round comes to its end: its place in the table stays as it was.
LEMMA ConcludeStep ==
  ASSUME OInv, UNCHANGED <<chains, sequence, draft>>, NEW k \in Opened,
         rounds' = [rounds EXCEPT ![k].live = FALSE],
         \A p \in Processes : draft[p] # NoDraft => Ticking(p)'
  PROVE  OInv'
<1>1. /\ k \in Nonces /\ rounds[k] \in Round
  BY RowsAreRounds DEF OInv
<1>2. /\ rounds'[k] \in Round
      /\ rounds'[k].chain = rounds[k].chain /\ rounds'[k].index = rounds[k].index
      /\ rounds'[k].drawnFor = rounds[k].drawnFor
      /\ \A n \in Nonces \ {k} : rounds'[n] = rounds[n]
  <2>1. /\ [rounds[k] EXCEPT !.live = FALSE] \in Round
        /\ [rounds[k] EXCEPT !.live = FALSE].chain = rounds[k].chain
        /\ [rounds[k] EXCEPT !.live = FALSE].index = rounds[k].index
        /\ [rounds[k] EXCEPT !.live = FALSE].drawnFor = rounds[k].drawnFor
    BY <1>1 DEF Round
  <2>2. rounds'[k] = [rounds[k] EXCEPT !.live = FALSE]
        /\ \A n \in Nonces \ {k} : rounds'[n] = rounds[n]
    BY <1>1 DEF OInv, TablesOK
  <2> QED
    BY <2>1, <2>2
<1>3. rounds' \in [Nonces -> Round \cup {NoRound}]
  BY <1>1, <1>2 DEF OInv, TablesOK
<1>4. NoRound \notin Round
  BY DEF NoRound, Round
<1>5. Opened' = Opened
  BY <1>1, <1>2, <1>4 DEF Opened
<1>6. Newest' = Newest
  BY <1>5 DEF Newest
<1>7. \A n \in Opened : /\ rounds'[n].chain = rounds[n].chain
                        /\ rounds'[n].index = rounds[n].index
                        /\ rounds'[n].drawnFor = rounds[n].drawnFor
  BY <1>2 DEF Opened
<1>8. TablesOK' /\ ChainsHold'
  BY <1>3, <1>6 DEF OInv, TablesOK, ChainsHold, ChainsDoNotOverlap
<1>9. (\A n \in Opened : RowHolds(n))'
  BY <1>5, <1>7 DEF OInv, RowHolds, Spans
<1>10. DraftsOK' /\ Room'
  BY DEF OInv, DraftsOK, Room, Drafting
<1>11. \A p \in Processes : DraftHolds(p)'
  BY <1>5, <1>6, <1>7 DEF OInv, DraftHolds, Spans
<1> QED
  BY <1>8, <1>9, <1>10, <1>11 DEF OInv

\* Only a draft that has not been overtaken is inserted, so the new round was
\* drawn for a later nonce than any, and every other draft has now been overtaken.
LEMMA InsertStep ==
  ASSUME OInv, NEW p \in Processes, InsertRound(p), Ticking(p), proc[p].game \in 1..LastGame
  PROVE  OInv'
<1> DEFINE k == draft[p].nonce
           c == draft[p].chain
           new == sequence + 1
           row == [game |-> proc[p].game, live |-> TRUE, drawnFor |-> k, chain |-> c,
                   index |-> k - c + 1]
<1>1. /\ draft[p].pc = "insert" /\ ~ PositionTaken(p) /\ sequence' = new
      /\ rounds' = [rounds EXCEPT ![new] = row]
      /\ draft' = [draft EXCEPT ![p] = NoDraft] /\ chains' = chains /\ TickGame(p)
  BY DEF InsertRound, IndexOf
<1>2. draft[p] # NoDraft /\ k \in Nat /\ c \in Nat
  BY <1>1 DEF OInv, DraftsOK, Draft, NoDraft
<1>3. Room' /\ new \in sequence..MaxNonce
  BY <1>1, <1>2, RoomKept
<1>4. /\ sequence \in Nat /\ new \in Nonces
      /\ \A n \in Opened : n \in Nat /\ n =< sequence
  <2>1. sequence \in Nat /\ MaxNonce \in Nat
    BY OpeningAssumption DEF OInv, TablesOK
  <2>2. \A n \in Opened : n \in Nat /\ n =< sequence
    BY DEF OInv, RowHolds, Opened, Nonces
  <2> QED
    BY <1>3, <2>1, <2>2 DEF Nonces
<1>5. /\ Newest \in Nat /\ Newest =< sequence
      /\ \A n \in Opened : n =< Newest
  BY <1>4, NewestHolds
<1>6. k = Newest + 1
  <2>1. k \in 1..(Newest + 1)
    BY <1>1 DEF OInv, DraftHolds
  <2>2. ~ (k =< Newest)
    BY <1>1, StaleIsTaken
  <2> QED
    BY <1>5, <2>1, <2>2
<1>7. c \in chains /\ Spans(c, k) /\ c \in Nonces /\ k - c + 1 \in 1..ChainLength
  <2>1. c \in chains /\ Spans(c, k)
    BY <1>1 DEF OInv, DraftHolds
  <2>2. k - c + 1 \in 1..ChainLength
    BY <1>2, <2>1, OpeningAssumption DEF Spans
  <2> QED
    BY <2>1, <2>2 DEF OInv, TablesOK
<1>8. k \in Nonces /\ k =< new
  <2>1. k =< new /\ new \in 1..MaxNonce /\ MaxNonce \in Nat
    BY <1>4, <1>5, <1>6, OpeningAssumption DEF Nonces
  <2> QED
    BY <1>5, <1>6, <2>1 DEF Nonces
<1>9. row \in Round
  BY <1>7, <1>8 DEF Round
<1>10. /\ row.drawnFor = k /\ row.chain = c /\ row.index = k - c + 1
       /\ row # NoRound
  <2>1. NoRound \notin Round
    BY DEF NoRound, Round
  <2> QED
    BY <1>9, <2>1
<1> HIDE DEF row
<1>11. /\ rounds'[new] = row /\ \A n \in Nonces \ {new} : rounds'[n] = rounds[n]
       /\ rounds' \in [Nonces -> Round \cup {NoRound}]
  <2>1. rounds \in [Nonces -> Round \cup {NoRound}]
    BY DEF OInv, TablesOK
  <2> QED
    BY <1>1, <1>4, <1>9, <2>1
<1>12. /\ Opened' = Opened \cup {new} /\ new \notin Opened
       /\ \A n \in Opened : rounds'[n] = rounds[n]
  <2>1. new \notin Opened
    BY <1>4
  <2>2. Opened' = Opened \cup {new}
    BY <1>4, <1>10, <1>11 DEF Opened
  <2>3. \A n \in Opened : rounds'[n] = rounds[n]
    BY <1>11, <2>1 DEF Opened
  <2> QED
    BY <2>1, <2>2, <2>3
<1>13. TablesOK'
  <2>1. sequence' \in 0..MaxNonce
    BY <1>1, <1>3, <1>4
  <2> QED
    BY <1>1, <1>11, <2>1 DEF OInv, TablesOK
<1>14. (\A n \in Opened : RowHolds(n))'
  <2> SUFFICES ASSUME NEW n \in Opened' PROVE RowHolds(n)'
    OBVIOUS
  <2>1. CASE n = new
    <3>1. rounds'[n] = row
      BY <1>11, <2>1
    <3>2. \A m \in Opened : rounds'[m].drawnFor < k
      <4> SUFFICES ASSUME NEW m \in Opened PROVE rounds[m].drawnFor < k
        BY <1>12
      <4>1. rounds[m].drawnFor \in Nat /\ rounds[m].drawnFor =< m
        BY RowsAreRounds DEF OInv, RowHolds, Nonces
      <4> QED
        BY <1>4, <1>5, <1>6, <4>1
    <3>3. \A m \in Opened' : m < n => rounds'[m].drawnFor < rounds'[n].drawnFor
      <4>1. \A m \in Opened' : m < n => m \in Opened
        BY <1>4, <1>12, <2>1
      <4> QED
        BY <1>10, <3>1, <3>2, <4>1
    <3>4. n =< sequence'
      BY <1>1, <1>4, <2>1
    <3> QED
      BY <1>1, <1>7, <1>8, <1>10, <2>1, <3>1, <3>3, <3>4 DEF RowHolds, Spans
  <2>2. CASE n # new
    <3>1. n \in Opened /\ rounds'[n] = rounds[n] /\ RowHolds(n)
      BY <1>12, <2>2 DEF OInv
    <3>2. \A m \in Opened' : m < n => m \in Opened
      BY <1>4, <1>12, <3>1
    <3>3. \A m \in Opened' : m < n => rounds'[m].drawnFor < rounds'[n].drawnFor
      BY <1>12, <3>1, <3>2 DEF RowHolds
    <3>4. n =< sequence'
      BY <1>1, <1>4, <3>1
    <3> QED
      BY <1>1, <3>1, <3>3, <3>4 DEF RowHolds, Spans
  <2> QED
    BY <2>1, <2>2
<1>15. Newest' = new
  <2> DEFINE S == Opened' \cup {0}
  <2>1. new \in S /\ S \subseteq 0..new /\ S # {} /\ new \in Nat
    BY <1>4, <1>12
  <2>2. Max(S) \in S /\ \A x \in S : Max(S) >= x
    BY <2>1, MaxIsGreatest
  <2>3. Newest' = Max(S)
    BY DEF Newest
  <2> HIDE DEF S
  <2>4. Newest' \in 0..new /\ Newest' >= new
    BY <2>1, <2>2, <2>3
  <2> QED
    BY <2>1, <2>4
<1>16. ChainsHold'
  <2>1. \A x \in chains' : x =< Newest' + 1
    <3> SUFFICES ASSUME NEW x \in chains PROVE x =< new + 1
      BY <1>1, <1>15
    <3>1. x \in Nat /\ x =< Newest + 1
      BY DEF OInv, ChainsHold, TablesOK, Nonces
    <3> QED
      BY <1>4, <1>5, <3>1
  <2> QED
    BY <1>1, <2>1 DEF OInv, ChainsHold, ChainsDoNotOverlap
<1>17. DraftsOK'
  <2>1. \A q \in Processes \ {p} : Ticking(q)' = Ticking(q)
    BY <1>1 DEF TickGame, Ticking
  <2>2. /\ draft'[p] = NoDraft /\ \A q \in Processes \ {p} : draft'[q] = draft[q]
        /\ draft' \in [Processes -> Draft]
    BY <1>1 DEF OInv, DraftsOK, NoDraft, Draft
  <2>3. NoDraft.pc = "none"
    BY DEF NoDraft
  <2> QED
    BY <2>1, <2>2, <2>3 DEF OInv, DraftsOK
<1>18. ASSUME NEW q \in Processes PROVE DraftHolds(q)'
  <2>1. CASE q = p
    <3>1. draft'[q].pc = "none"
      BY <1>1, <2>1 DEF OInv, DraftsOK, NoDraft
    <3> QED
      BY <3>1 DEF DraftHolds
  <2>2. CASE q # p
    <3>1. draft'[q] = draft[q] /\ DraftHolds(q)
      BY <1>1, <2>2 DEF OInv, DraftsOK
    <3>2. ASSUME draft[q].pc \in {"chain", "create", "insert"}
          PROVE  /\ draft[q].nonce \in 1..(new + 1)
                 /\ \E n \in Opened' : rounds'[n].drawnFor = draft[q].nonce
      <4>1. draft[q].nonce \in 1..(Newest + 1)
        BY <3>1, <3>2 DEF DraftHolds
      <4>2. CASE draft[q].nonce =< Newest
        <5>1. PICK n \in Opened : rounds[n].drawnFor = draft[q].nonce
          BY <3>1, <3>2, <4>2 DEF DraftHolds
        <5> QED
          BY <1>4, <1>5, <1>12, <4>1, <5>1
      <4>3. CASE draft[q].nonce = k
        <5>1. new \in Opened' /\ rounds'[new].drawnFor = draft[q].nonce
          BY <1>10, <1>11, <1>12, <4>3
        <5>2. draft[q].nonce \in 1..(new + 1)
          BY <1>4, <1>5, <4>1
        <5> QED
          BY <5>1, <5>2
      <4> QED
        BY <1>5, <1>6, <4>1, <4>2, <4>3
    <3> QED
      BY <1>1, <1>15, <3>1, <3>2 DEF DraftHolds, Spans
  <2> QED
    BY <2>1, <2>2
<1> QED
  BY <1>3, <1>13, <1>14, <1>16, <1>17, <1>18 DEF OInv

\* The election ends no tick in flight.
LEMMA ElectionKeepsTicks ==
  ASSUME IInv, NEW p \in Processes, Election(p), NEW q \in Processes, Ticking(q)
  PROVE  Ticking(q)'
<1> USE DEF IInv, TypeOK, Ticking, Process
<1>1. CASE Boot(p) \/ TryAcquire(p) \/ SafeTick(p)
  BY <1>1 DEF Boot, TryAcquire, SafeTick
<1>2. CASE Close(p) \/ Release(p) \/ CutSession(p)
  BY <1>2 DEF Close, Release, CutSession
<1> QED
  BY <1>1, <1>2 DEF Election

\* A tick that goes to its next game is the only one that changes.
LEMMA OthersTick ==
  ASSUME IInv, NEW p \in Processes, TickGame(p) \/ TickFails(p) \/ Die(p)
  PROVE  \A q \in Processes \ {p} : proc'[q] = proc[q]
BY DEF IInv, TypeOK, TickGame, TickFails, Die

\* Nothing is open before anything starts.
LEMMA InitOInv == OpeningInit => OInv
<1> SUFFICES ASSUME OpeningInit PROVE OInv
  OBVIOUS
<1>1. Opened = {} /\ chains = {} /\ sequence = 0 /\ MaxNonce \in Nat
  BY OpeningAssumption DEF OpeningInit, Opened
<1>2. Drafting = {}
  BY DEF OpeningInit, Drafting
<1>3. Room
  BY <1>1, <1>2, FS_EmptySet DEF Room
<1>4. TablesOK
  BY <1>1 DEF OpeningInit, TablesOK
<1>5. DraftsOK
  BY DEF OpeningInit, DraftsOK, Draft, NoDraft
<1>6. \A p \in Processes : DraftHolds(p)
  BY DEF OpeningInit, DraftHolds, NoDraft
<1>7. ChainsHold
  BY <1>1 DEF ChainsHold, ChainsDoNotOverlap
<1> QED
  BY <1>1, <1>3, <1>4, <1>5, <1>6, <1>7 DEF OInv

\* Every step of a tick keeps the invariant.
LEMMA TickBodyKeeps ==
  ASSUME IInv, OInv, NEW p \in Processes, TickBody(p)
  PROVE  OInv'
<1>1. CASE FindNone(p) \/ PeekNextNonce(p) \/ FindChain(p) \/ CreateChain(p)
  BY <1>1, BeginStep, PeekStep, FindStep, CreateStep
<1>2. CASE Conclude(p)
  <2>1. PICK n \in LiveOf(proc[p].game) : rounds' = [rounds EXCEPT ![n].live = FALSE]
    BY <1>2 DEF Conclude
  <2>2. n \in Opened
    BY DEF LiveOf
  <2>3. draft[p] = NoDraft /\ TickGame(p) /\ UNCHANGED <<chains, sequence, draft>>
    BY <1>2 DEF Conclude
  <2>4. \A q \in Processes : draft[q] # NoDraft => Ticking(q)'
    BY <2>3, OthersTick DEF OInv, DraftsOK, Ticking
  <2> QED
    BY <2>1, <2>2, <2>3, <2>4, ConcludeStep
<1>3. CASE PassGame(p)
  <2>1. draft[p] = NoDraft /\ TickGame(p) /\ UNCHANGED <<tables, draft>>
    BY <1>3 DEF PassGame
  <2>2. \A q \in Processes : draft[q] # NoDraft => Ticking(q)'
    BY <2>1, OthersTick DEF OInv, DraftsOK, Ticking
  <2> QED
    BY <2>1, <2>2, ElectionStep
<1>4. CASE InsertRound(p)
  <2>1. Ticking(p) /\ proc[p].game \in 1..LastGame
    <3>1. proc[p].game \in 0..LastGame
      BY DEF IInv, TypeOK, Process
    <3>2. proc[p].game # 0
      BY <1>4 DEF InsertRound, TickGame
    <3> QED
      BY <3>1, <3>2 DEF Ticking, LastGame
  <2> QED
    BY <1>4, <2>1, InsertStep
<1>5. CASE InsertLoses(p)
  <2>1. /\ draft[p].pc = "insert" /\ sequence' = sequence + 1 /\ TickGame(p)
        /\ draft' = [draft EXCEPT ![p] = NoDraft] /\ UNCHANGED <<rounds, chains>>
    BY <1>5 DEF InsertLoses
  <2>2. draft[p] # NoDraft
    BY <2>1 DEF NoDraft
  <2> QED
    BY <2>1, <2>2, OthersTick, GiveUpStep
<1>6. CASE TickThrows(p)
  <2>1. /\ sequence' \in Drawn(p) /\ TickFails(p)
        /\ draft' = [draft EXCEPT ![p] = NoDraft] /\ UNCHANGED <<rounds, chains>>
    BY <1>6 DEF TickThrows
  <2>2. \/ sequence' = sequence
        \/ sequence' = sequence + 1 /\ draft[p] # NoDraft
    BY <2>1 DEF Drawn, NoDraft
  <2> QED
    BY <2>1, <2>2, OthersTick, GiveUpStep
<1> QED
  BY <1>1, <1>2, <1>3, <1>4, <1>5, <1>6 DEF TickBody

\* Every step keeps the invariant.
LEMMA NextOInv == IInv /\ OInv /\ [OpeningNext]_allVars => OInv'
<1> SUFFICES ASSUME IInv, OInv, [OpeningNext]_allVars PROVE OInv'
  OBVIOUS
<1>1. ASSUME NEW p \in Processes, Election(p) PROVE OInv'
  <2>1. UNCHANGED <<tables, draft>>
    BY <1>1 DEF Election
  <2>2. \A q \in Processes : draft[q] # NoDraft => Ticking(q)'
    BY <1>1, ElectionKeepsTicks DEF OInv, DraftsOK
  <2> QED
    BY <2>1, <2>2, ElectionStep
<1>2. ASSUME NEW p \in Processes, TickBody(p) PROVE OInv'
  BY <1>2, TickBodyKeeps
<1>3. ASSUME NEW p \in Processes, DieOpening(p) PROVE OInv'
  <2>1. /\ sequence' \in Drawn(p) /\ Die(p)
        /\ draft' = [draft EXCEPT ![p] = NoDraft] /\ UNCHANGED <<rounds, chains>>
    BY <1>3 DEF DieOpening
  <2>2. \/ sequence' = sequence
        \/ sequence' = sequence + 1 /\ draft[p] # NoDraft
    BY <2>1 DEF Drawn, NoDraft
  <2> QED
    BY <2>1, <2>2, OthersTick, GiveUpStep
<1>4. CASE NoticeGhost /\ UNCHANGED <<tables, draft>>
  <2>1. \A q \in Processes : draft[q] # NoDraft => Ticking(q)'
    BY <1>4 DEF NoticeGhost, OInv, DraftsOK, Ticking
  <2> QED
    BY <1>4, <2>1, ElectionStep
<1>5. CASE UNCHANGED allVars
  <2>1. UNCHANGED <<tables, draft>> /\ proc' = proc
    BY <1>5 DEF allVars, tables
  <2>2. \A q \in Processes : draft[q] # NoDraft => Ticking(q)'
    BY <2>1 DEF OInv, DraftsOK, Ticking
  <2> QED
    BY <2>1, <2>2, ElectionStep
<1> QED
  BY <1>1, <1>2, <1>3, <1>4, <1>5 DEF OpeningNext

\* So the invariant holds in every state.
LEMMA OpeningInvariance == OpeningSpec => [](IInv /\ OInv)
<1>1. OpeningInit => IInv /\ OInv
  BY InitIInv, InitOInv DEF OpeningInit
<1>2. (IInv /\ OInv) /\ [OpeningNext]_allVars => (IInv /\ OInv)'
  BY StepImplements, NextIInv, NextOInv
<1> QED
  BY <1>1, <1>2, PTL DEF OpeningSpec

-----------------------------------------------------------------------------
(* what players rely on *)

\* The tables keep their shape, the sequence never runs out of the nonces the
\* drafts were promised, and only a tick in flight has a draft.
THEOREM OpeningTypeCorrect == OpeningSpec => []OpeningTypeOK
<1>1. IInv /\ OInv => OpeningTypeOK
  BY DEF IInv, OInv, TablesOK, DraftsOK, OpeningTypeOK
<1> QED
  BY <1>1, OpeningInvariance, PTL

\* Every nonce belongs to one chain at most, whoever makes the chains
\* (migration 1757900005000, line 44): an overtaken process makes none.
THEOREM ChainsNeverOverlap == OpeningSpec => []ChainsDoNotOverlap
<1>1. OInv => ChainsDoNotOverlap
  BY DEF OInv, ChainsHold
<1> QED
  BY <1>1, OpeningInvariance, PTL

\* Later rounds take later positions: an overtaken process never falls back to a
\* seed that has been revealed (hash-chain-fairness.provider.ts, drawOutcome).
THEOREM PositionsAlwaysAdvance == OpeningSpec => []PositionsAdvance
<1>1. OInv => PositionsAdvance
  <2> SUFFICES ASSUME OInv, NEW m \in Opened, NEW n \in Opened, m < n
               PROVE  \/ rounds[m].chain < rounds[n].chain
                      \/ /\ rounds[m].chain = rounds[n].chain
                         /\ rounds[m].index < rounds[n].index
    BY DEF PositionsAdvance
  <2>1. /\ rounds[m].chain \in Nat /\ rounds[n].chain \in Nat /\ ChainLength \in Nat
        /\ rounds[m].drawnFor \in Nat /\ rounds[n].drawnFor \in Nat
    BY RowsAreRounds, OpeningAssumption DEF OInv, Nonces
  <2>2. /\ RowHolds(m) /\ RowHolds(n)
        /\ rounds[m].drawnFor < rounds[n].drawnFor
    BY DEF OInv, RowHolds
  <2>3. ~ (rounds[n].chain < rounds[m].chain)
    <3>1. ASSUME rounds[n].chain + ChainLength =< rounds[m].chain PROVE FALSE
      BY <2>1, <2>2, <3>1 DEF RowHolds, Spans
    <3>2. rounds[n].chain < rounds[m].chain =>
            rounds[n].chain + ChainLength =< rounds[m].chain
      BY <2>2 DEF OInv, ChainsHold, ChainsDoNotOverlap, RowHolds
    <3> QED
      BY <3>1, <3>2
  <2>4. rounds[m].chain = rounds[n].chain => rounds[m].index < rounds[n].index
    BY <2>1, <2>2 DEF RowHolds
  <2> QED
    BY <2>1, <2>3, <2>4
<1> QED
  BY <1>1, OpeningInvariance, PTL

=============================================================================
