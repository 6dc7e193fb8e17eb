------------------------------ MODULE Sessions ------------------------------
(***************************************************************************)
(* Sessions: refresh tokens, their rotation and the revocation of a whole  *)
(* family of them, statement by statement, as Postgres runs them at READ   *)
(* COMMITTED.  Every login starts a family; each refresh spends a token    *)
(* and issues its successor; a spent token that is presented again revokes *)
(* the family, and so does a logout.                                       *)
(*                                                                         *)
(* As in Betting, a transaction's writes are applied by its commit action. *)
(***************************************************************************)
EXTENDS Integers, FiniteSets, SequencesExt

CONSTANTS
  Users,      \* accounts that log in
  Clients,    \* requests that can be in flight at once
  MaxTokens   \* bound: refresh tokens issued

ASSUME TokensAssumption == MaxTokens \in Nat

VARIABLES
  tokens,     \* the refresh_tokens table
  active,     \* whose account is not suspended
  trx,        \* the transaction of each request
  issued      \* the tokens that were issued when a request set out to revoke: history

sessions == <<tokens, active, trx>>
vars == <<sessions, issued>>
tables == <<tokens, active>>

INSTANCE RowLocks WITH Workers <- Clients

TokenIds == 1..MaxTokens
NoToken == [family |-> 0]

\* A family is known by its first token.
Token == [user : Users, family : TokenIds, used : BOOLEAN, revoked : BOOLEAN,
          expired : BOOLEAN]

\* Mutation of NewToken: the family of the token is not stored.
NewTokenOrphan(user, family) ==
  [user |-> user, family |-> 0, used |-> FALSE, revoked |-> FALSE,
   expired |-> FALSE]

NewToken(user, family) ==
  [user |-> user, family |-> family, used |-> FALSE, revoked |-> FALSE,
   expired |-> FALSE]

Unissued == {t \in TokenIds : tokens[t] = NoToken}
Family(f) == {t \in TokenIds : tokens[t].family = f}
Unrevoked(f) == {t \in Family(f) : ~ tokens[t].revoked}
Live(t) == tokens[t] # NoToken /\ ~ tokens[t].used /\ ~ tokens[t].revoked

Idle == [pc |-> "idle", user |-> {}, token |-> 0, family |-> 0,
         victims |-> {}, need |-> <<>>, held |-> {}]

End(c) == trx' = [trx EXCEPT ![c] = Idle]

\* The model has a token left for every request that may issue one, and one more.
Issuing ==
  {c \in Clients : \/ trx[c].pc \in {"issue", "spent", "rotate"}
                   \/ trx[c].pc = "token read" /\ ~ tokens[trx[c].token].used}
RoomToIssue == Cardinality(Issuing) < Cardinality(Unissued)

-----------------------------------------------------------------------------
(* login *)

\* The password is right and the account is not suspended when it is read.
BeginLogin(c, u) ==
  /\ trx[c].pc = "idle"
  /\ u \in active
  /\ RoomToIssue
  /\ trx' = [trx EXCEPT ![c] = [Idle EXCEPT !.pc = "issue", !.user = {u}]]
  /\ UNCHANGED tables

CommitLogin(c) ==
  /\ Ready(c, "issue")
  /\ \E t \in Unissued, u \in trx[c].user :
       /\ \A s \in Unissued : t =< s
       /\ tokens' = [tokens EXCEPT ![t] = NewToken(u, t)]
  /\ End(c)
  /\ UNCHANGED active

-----------------------------------------------------------------------------
(* refresh *)

\* Mutation of BeginRefresh: the token is read without FOR UPDATE.
BeginRefreshUnlocked(c, t) ==
  /\ trx[c].pc = "idle"
  /\ tokens[t] # NoToken
  /\ ~ tokens[t].expired
  /\ tokens[t].used \/ RoomToIssue
  /\ trx' = [trx EXCEPT ![c] =
               [Idle EXCEPT !.pc = "token read", !.token = t,
                            !.family = tokens[t].family]]
  /\ UNCHANGED tables

\* The signature and the expiry are checked before the row is read FOR UPDATE.
BeginRefresh(c, t) ==
  /\ trx[c].pc = "idle"
  /\ tokens[t] # NoToken
  /\ ~ tokens[t].expired
  /\ tokens[t].used \/ RoomToIssue
  /\ trx' = [trx EXCEPT ![c] =
               [Idle EXCEPT !.pc = "token read", !.token = t,
                            !.family = tokens[t].family,
                            !.need = <<Exclusive(t)>>]]
  /\ UNCHANGED tables

RefuseToken(c) ==
  /\ Ready(c, "token read")
  /\ tokens[trx[c].token].revoked \/ tokens[trx[c].token].expired
  /\ End(c)
  /\ UNCHANGED tables

\* revokeFamily: the update sees the rows committed by now, and locks those that
\* its transaction has not locked yet in whatever order its scan meets them.
Revoke(c) ==
  LET victims == Unrevoked(trx[c].family)
  IN \E locks \in SetToSeqs({Exclusive(t) : t \in victims} \ trx[c].held) :
       trx' = [trx EXCEPT ![c].pc = "revoking", ![c].victims = victims,
                          ![c].need = locks]

DetectReuse(c) ==
  LET stored == tokens[trx[c].token]
  IN /\ Ready(c, "token read")
     /\ ~ stored.revoked /\ ~ stored.expired /\ stored.used
     /\ Revoke(c)
     /\ UNCHANGED tables

SpendToken(c) ==
  LET stored == tokens[trx[c].token]
  IN /\ Ready(c, "token read")
     /\ ~ stored.revoked /\ ~ stored.expired /\ ~ stored.used
     /\ GoOn(c, "spent", <<>>)
     /\ UNCHANGED tables

\* The account is read after the token was spent.  The refusal is returned, not
\* thrown: the spent token stays spent.
RefuseSuspended(c) ==
  LET t == trx[c].token
  IN /\ Ready(c, "spent")
     /\ tokens[t].user \notin active
     /\ tokens' = [tokens EXCEPT ![t].used = TRUE]
     /\ End(c)
     /\ UNCHANGED active

AcceptUser(c) ==
  /\ Ready(c, "spent")
  /\ tokens[trx[c].token].user \in active
  /\ GoOn(c, "rotate", <<>>)
  /\ UNCHANGED tables

CommitRotation(c) ==
  LET t == trx[c].token
  IN /\ Ready(c, "rotate")
     /\ \E child \in Unissued :
          /\ \A s \in Unissued : child =< s
          /\ tokens' = [tokens EXCEPT
                          ![t].used = TRUE,
                          ![child] = NewToken(tokens[t].user, tokens[t].family)]
     /\ End(c)
     /\ UNCHANGED active

-----------------------------------------------------------------------------
(* logout *)

BeginLogout(c, t) ==
  /\ trx[c].pc = "idle"
  /\ tokens[t] # NoToken
  /\ trx' = [trx EXCEPT ![c] = [Idle EXCEPT !.pc = "family read",
                                            !.family = tokens[t].family]]
  /\ UNCHANGED tables

Logout(c) ==
  /\ Ready(c, "family read")
  /\ Revoke(c)
  /\ UNCHANGED tables

\* Mutation of CommitRevocation: the reuse is reported by an error thrown inside
\* the transaction.
ThrowReuse(c) ==
  /\ Ready(c, "revoking")
  /\ tokens' = IF trx[c].token # 0 THEN tokens
               ELSE [t \in TokenIds |->
                       IF t \in trx[c].victims
                         THEN [tokens[t] EXCEPT !.revoked = TRUE] ELSE tokens[t]]
  /\ End(c)
  /\ UNCHANGED active

\* The revocation commits before the reuse is reported.
CommitRevocation(c) ==
  /\ Ready(c, "revoking")
  /\ tokens' = [t \in TokenIds |->
                  IF t \in trx[c].victims
                    THEN [tokens[t] EXCEPT !.revoked = TRUE] ELSE tokens[t]]
  /\ End(c)
  /\ UNCHANGED active

-----------------------------------------------------------------------------
AcquireLock(c) == Granted(c) /\ UNCHANGED tables

\* Mutation of AbortDeadlock: wait cycles are never broken.
AbortNobody(c) == c \notin Clients /\ UNCHANGED sessions

\* Two revocations of one family can wait for each other; one is rolled back.
AbortDeadlock(c) ==
  /\ trx[c].need # <<>>
  /\ InWaitCycle(c)
  /\ End(c)
  /\ UNCHANGED tables

\* Every token lives equally long: they expire in the order of their issue.
Expire(t) ==
  /\ tokens[t] # NoToken
  /\ ~ tokens[t].expired
  /\ \A s \in TokenIds : s < t => tokens[s].expired
  /\ tokens' = [tokens EXCEPT ![t].expired = TRUE]
  /\ UNCHANGED <<active, trx>>

\* Accounts are suspended, and restored, by hand in the database.
SetStatus(u) ==
  /\ active' = IF u \in active THEN active \ {u} ELSE active \cup {u}
  /\ UNCHANGED <<tokens, trx>>

-----------------------------------------------------------------------------
Init ==
  /\ tokens = [t \in TokenIds |-> NoToken]
  /\ active = Users
  /\ trx = [c \in Clients |-> Idle]
  /\ issued = [c \in Clients |-> {}]

BeginRequest(c) ==
  \/ \E u \in Users : BeginLogin(c, u)
  \/ \E t \in TokenIds : BeginRefresh(c, t) \/ BeginLogout(c, t)

Serve(c) ==
  \/ CommitLogin(c)
  \/ RefuseToken(c) \/ DetectReuse(c) \/ SpendToken(c)
  \/ RefuseSuspended(c) \/ AcceptUser(c) \/ CommitRotation(c)
  \/ Logout(c) \/ CommitRevocation(c)

Step ==
  \/ \E c \in Clients :
       BeginRequest(c) \/ Serve(c) \/ AcquireLock(c) \/ AbortDeadlock(c)
  \/ \E t \in TokenIds : Expire(t)
  \/ \E u \in Users : SetStatus(u)

Revoking(c) == trx[c].pc = "revoking"

\* What the clients hold when a reuse is detected, or a logout asked for, is
\* noted until its transaction has ended; no request looks at the note.
Note ==
  issued' = [c \in Clients |-> IF ~ Revoking(c)' THEN {}
                               ELSE IF Revoking(c) THEN issued[c]
                               ELSE TokenIds \ Unissued]

Next == Step /\ Note

\* A statement that was sent runs; a lock that is free again and again is
\* granted; a wait cycle is found.
Fairness ==
  /\ \A c \in Clients : WF_sessions(Serve(c)) /\ SF_sessions(AcquireLock(c))
  /\ WF_sessions(\E c \in Clients : AbortDeadlock(c))

Spec == Init /\ [][Next]_vars
FairSpec == Spec /\ Fairness

-----------------------------------------------------------------------------
(* properties *)

PCs == {"idle", "issue", "token read", "spent", "rotate", "family read", "revoking"}

Lock == {Exclusive(t) : t \in TokenIds}

Transaction ==
  [pc : PCs, user : SUBSET Users, token : TokenIds \cup {0},
   family : TokenIds \cup {0}, victims : SUBSET TokenIds,
   need : Seq(Lock), held : SUBSET Lock]

TypeOK ==
  /\ tokens \in [TokenIds -> Token \cup {NoToken}]
  /\ active \subseteq Users
  /\ trx \in [Clients -> Transaction]
  /\ issued \in [Clients -> SUBSET TokenIds]

\* Rotation is linear: a family never has two tokens that could both still be
\* spent, however many requests present the same one at once.
OneLiveTokenPerFamily ==
  \A s, t \in TokenIds :
    Live(s) /\ Live(t) /\ tokens[s].family = tokens[t].family => s = t

\* A family whose tokens are all revoked is over: no request that was in flight
\* when they were revoked adds a token to it.
DeadFamiliesStayDead ==
  [][\A f \in TokenIds :
       Family(f) # {} /\ Unrevoked(f) = {} =>
         Family(f)' = Family(f) /\ Unrevoked(f)' = {}]_vars

\* A detected reuse is punished for good: unless its transaction is rolled back
\* to break a wait cycle, every token that had been issued to the login of the
\* presented one when the reuse was detected is revoked when it ends, although
\* the caller gets an error; and no token is ever spent or revoked less than it
\* was.  (A rotation under way may still issue a later one: ReuseKillsFamily.)
ReuseIsPunished ==
  [][/\ \A c \in Clients :
          Revoking(c) /\ trx[c].token # 0 /\ ~ Revoking(c)' =>
            \/ InWaitCycle(c)
            \/ \A t \in issued[c] :
                 tokens[t].family = tokens[trx[c].token].family => tokens'[t].revoked
     /\ \A t \in TokenIds \ Unissued :
          /\ tokens[t].used => tokens'[t].used
          /\ tokens[t].revoked => tokens'[t].revoked]_vars

\* Every request gets an answer.
RequestsEnd == \A c \in Clients : trx[c].pc # "idle" ~> trx[c].pc = "idle"

\* What auth.service.ts says of revoking under the row lock: "a concurrent
\* refresh on the same family cannot slip between detection and revocation".
\* When the revocation commits, the family has no live token left.
ReuseKillsFamily ==
  [][\A c \in Clients :
       trx[c].token # 0 /\ CommitRevocation(c) =>
         \A t \in TokenIds : tokens'[t].family = trx[c].family => ~ Live(t)']_vars

=============================================================================
