------------------------------ MODULE Opening -------------------------------
(***************************************************************************)
(* Opening rounds: what the ticks of Leadership's processes do to the      *)
(* rounds, the fairness chains and the nonce sequence.  A tick that finds  *)
(* no live round of a game looks up the highest nonce, derives the seed    *)
(* for the next one from the chain that covers it, making a chain if none  *)
(* does, and inserts a row whose own nonce the sequence hands out.         *)
(*                                                                         *)
(* Every statement commits on its own.  Between opening and conclusion a   *)
(* round is as RoundBook has it; here it is only live or not.              *)
(***************************************************************************)
EXTENDS Leadership, FiniteSetsExt

CONSTANTS
  ChainLength,   \* FAIRNESS_CHAIN_LENGTH
  MaxNonce       \* bound: values the nonce sequence hands out

ASSUME OpeningAssumption ==
  /\ ChainLength \in Nat \ {0}
  /\ MaxNonce \in Nat

VARIABLES
  rounds,     \* the round of each nonce, NoRound if there is none
  chains,     \* the first nonce of every chain, which is unique
  sequence,   \* the last nonce handed out
  draft       \* how far each process is with opening a round

tables == <<rounds, chains, sequence>>
allVars == <<proc, lock, rounds, chains, sequence, draft>>

Nonces == 1..MaxNonce
NoRound == [live |-> FALSE, chain |-> 0]

\* drawnFor is the nonce the outcome was derived from; it is not stored.
Round == [game : 1..LastGame, live : BOOLEAN, drawnFor : Nonces,
          chain : Nonces, index : 1..ChainLength]

NoDraft == [pc |-> "none", nonce |-> 0, chain |-> 0]

Opened == {n \in Nonces : rounds[n] # NoRound}
LiveOf(game) == {n \in Opened : rounds[n].game = game /\ rounds[n].live}

\* The model has a nonce left for every round about to be inserted.
Drafting == {p \in Processes : draft[p] # NoDraft}
NonceLeft == Cardinality(Drafting) < MaxNonce - sequence

-----------------------------------------------------------------------------
(* tickGame *)

\* No live round: open one, unless the intermission has not passed.
FindNone(p) ==
  /\ Ticking(p)
  /\ draft[p] = NoDraft
  /\ LiveOf(proc[p].game) = {}
  /\ NonceLeft
  /\ draft' = [draft EXCEPT ![p].pc = "peek"]
  /\ UNCHANGED <<proc, lock, tables>>

\* The tick brings its live round to its end.
Conclude(p) ==
  /\ Ticking(p)
  /\ draft[p] = NoDraft
  /\ \E n \in LiveOf(proc[p].game) :
       rounds' = [rounds EXCEPT ![n].live = FALSE]
  /\ TickGame(p)
  /\ UNCHANGED <<chains, sequence, draft>>

\* Nothing is due for this game.
PassGame(p) ==
  /\ draft[p] = NoDraft
  /\ TickGame(p)
  /\ UNCHANGED <<tables, draft>>

-----------------------------------------------------------------------------
(* openRoundIfDue *)

PeekNextNonce(p) ==
  /\ draft[p].pc = "peek"
  /\ draft' = [draft EXCEPT ![p].pc = "chain", ![p].nonce = Max(Opened \cup {0}) + 1]
  /\ UNCHANGED <<proc, lock, tables>>

\* Mutation of ChainBelow: the chains are read in ascending order.
OldestChain(n) ==
  LET below == {c \in chains : c =< n} IN IF below = {} THEN 0 ELSE Min(below)

\* The newest chain that starts at n or before, 0 if there is none.
ChainBelow(n) == Max({c \in chains : c =< n} \cup {0})

\* Mutation of Covers: the first nonce after the chain counts as its own.
CoversOneMore(c, n) == c # 0 /\ n =< c + ChainLength

Covers(c, n) == c # 0 /\ n < c + ChainLength

FindChain(p) ==
  LET c == ChainBelow(draft[p].nonce)
  IN /\ draft[p].pc = "chain"
     /\ draft' = IF Covers(c, draft[p].nonce)
                   THEN [draft EXCEPT ![p].pc = "insert", ![p].chain = c]
                   ELSE [draft EXCEPT ![p].pc = "create"]
     /\ UNCHANGED <<proc, lock, tables>>

CreateChain(p) ==
  /\ draft[p].pc = "create"
  /\ draft[p].nonce \notin chains
  /\ chains' = chains \cup {draft[p].nonce}
  /\ draft' = [draft EXCEPT ![p].pc = "insert", ![p].chain = draft[p].nonce]
  /\ UNCHANGED <<proc, lock, rounds, sequence>>

\* The position the draft of p takes in its chain.
IndexOf(p) == draft[p].nonce - draft[p].chain + 1

\* Mutation of PositionTaken: the index rounds_chain_position is not there.
NeverTaken(p) == p \notin Processes

PositionTaken(p) ==
  \E n \in Opened : rounds[n].chain = draft[p].chain /\ rounds[n].index = IndexOf(p)

\* The insert draws the row's nonce, and succeeds if both unique indexes let it.
InsertRound(p) ==
  /\ draft[p].pc = "insert"
  /\ ~ PositionTaken(p)
  /\ LiveOf(proc[p].game) = {}
  /\ sequence' = sequence + 1
  /\ rounds' = [rounds EXCEPT ![sequence + 1] =
                  [game |-> proc[p].game, live |-> TRUE,
                   drawnFor |-> draft[p].nonce, chain |-> draft[p].chain,
                   index |-> IndexOf(p)]]
  /\ draft' = [draft EXCEPT ![p] = NoDraft]
  /\ TickGame(p)
  /\ UNCHANGED chains

\* A live round of this game is there already: the tick goes on.  The nonce the
\* insert drew is gone.
InsertLoses(p) ==
  /\ draft[p].pc = "insert"
  /\ ~ PositionTaken(p)
  /\ LiveOf(proc[p].game) # {}
  /\ sequence' = sequence + 1
  /\ draft' = [draft EXCEPT ![p] = NoDraft]
  /\ TickGame(p)
  /\ UNCHANGED <<rounds, chains>>

\* What the sequence may have come to when a statement of p fails: the nonce an
\* insert has drawn is not given back.
Drawn(p) ==
  IF draft[p].pc = "insert" THEN {sequence, sequence + 1} ELSE {sequence}

\* An error the engine does not expect ends the tick: the position or the chain
\* is taken, or a statement fails.
TickThrows(p) ==
  /\ sequence' \in Drawn(p)
  /\ draft[p].pc = "insert" /\ PositionTaken(p) => sequence' = sequence + 1
  /\ draft' = [draft EXCEPT ![p] = NoDraft]
  /\ TickFails(p)
  /\ UNCHANGED <<rounds, chains>>

\* The process dies, whatever its tick was doing.
DieOpening(p) ==
  /\ Die(p)
  /\ sequence' \in Drawn(p)
  /\ draft' = [draft EXCEPT ![p] = NoDraft]
  /\ UNCHANGED <<rounds, chains>>

-----------------------------------------------------------------------------
OpeningInit ==
  /\ Init
  /\ rounds = [n \in Nonces |-> NoRound]
  /\ chains = {}
  /\ sequence = 0
  /\ draft = [p \in Processes |-> NoDraft]

\* The election does not touch what the ticks work on.
Election(p) ==
  /\ \/ Boot(p) \/ TryAcquire(p) \/ SafeTick(p)
     \/ Close(p) \/ Release(p) \/ CutSession(p)
  /\ UNCHANGED <<tables, draft>>

TickBody(p) ==
  \/ FindNone(p) \/ Conclude(p) \/ PassGame(p)
  \/ PeekNextNonce(p) \/ FindChain(p) \/ CreateChain(p)
  \/ InsertRound(p) \/ InsertLoses(p) \/ TickThrows(p)

OpeningNext ==
  \/ \E p \in Processes : Election(p) \/ TickBody(p) \/ DieOpening(p)
  \/ NoticeGhost /\ UNCHANGED <<tables, draft>>

OpeningSpec == OpeningInit /\ [][OpeningNext]_allVars

-----------------------------------------------------------------------------
(* properties *)

OpeningTypeOK ==
  /\ TypeOK
  /\ rounds \in [Nonces -> Round \cup {NoRound}]
  /\ chains \subseteq Nonces
  /\ sequence \in 0..MaxNonce
  /\ \A p \in Processes : draft[p] # NoDraft => Ticking(p)

\* A nonce belongs to exactly one chain (migration 1757900005000, line 44):
\* only the chains' first nonces are kept apart by an index.
ChainsDoNotOverlap ==
  \A c, d \in chains : c < d => c + ChainLength =< d

\* Later rounds take later positions: no stale draft falls behind, and no position
\* of a chain, hence no seed, is drawn for two rounds.
PositionsAdvance ==
  \A m, n \in Opened :
    m < n => \/ rounds[m].chain < rounds[n].chain
             \/ rounds[m].chain = rounds[n].chain /\ rounds[m].index < rounds[n].index

\* What fairness.service.ts tells a player of a round's outcome hash:
\* "hmac_sha256(key = seed, message = nonce)", with the nonce of the row.
ProofsVerify == \A n \in Opened : rounds[n].drawnFor = n

=============================================================================
