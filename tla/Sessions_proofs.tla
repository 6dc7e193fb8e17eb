--------------------------- MODULE Sessions_proofs ---------------------------
(***************************************************************************)
(* What holds of the sessions for any number of accounts, of requests at   *)
(* once and of tokens.  The argument is the row lock: a request that has   *)
(* found its token unspent holds the token's row, so the token stays       *)
(* unspent and unrevoked until the request commits.                        *)
(***************************************************************************)
EXTENDS Sessions, Data_proofs

Issued == TokenIds \ Unissued
Asked(c) == {trx[c].need[i] : i \in 1..Len(trx[c].need)}

Typed ==
  /\ tokens \in [TokenIds -> Token \cup {NoToken}]
  /\ active \subseteq Users
  /\ trx \in [Clients -> Transaction]

\* A lock has one holder.
LocksExclude ==
  \A c, d \in Clients : trx[c].held \cap trx[d].held # {} => c = d

\* What a request knows and holds where it stands.
Standing(c) ==
  /\ trx[c].pc \in {"token read", "spent", "rotate"} =>
       /\ trx[c].token \in Issued
       /\ trx[c].family = tokens[trx[c].token].family
       /\ Exclusive(trx[c].token) \in trx[c].held \cup Asked(c)
  /\ trx[c].pc \in {"spent", "rotate"} =>
       trx[c].need = <<>> /\ Live(trx[c].token)
  /\ trx[c].pc = "family read" => trx[c].family \in TokenIds /\ trx[c].token = 0
  /\ trx[c].pc = "revoking" =>
       /\ trx[c].victims \subseteq Issued
       /\ trx[c].token # 0 => trx[c].token \in trx[c].victims
       /\ \A t \in trx[c].victims : Exclusive(t) \in trx[c].held \cup Asked(c)

\* The invariant; the first token of a family has been issued.
IInv ==
  /\ Typed
  /\ LocksExclude
  /\ \A c \in Clients : Standing(c)
  /\ \A t \in Issued : tokens[t].family \in Issued
  /\ OneLiveTokenPerFamily

-----------------------------------------------------------------------------
(* locks *)

\* Locks on tokens are the same if their tokens are, and finitely many.
LEMMA LocksAreFinite ==
  ASSUME NEW T \in SUBSET TokenIds, NEW H
  PROVE  IsFiniteSet({Exclusive(t) : t \in T} \ H)
<1> DEFINE S == {Exclusive(t) : t \in T} \ H
           f == [l \in S |-> l.row]
<1>1. f \in [S -> TokenIds]
  BY DEF Exclusive
<1>2. \A l, m \in S : f[l] = f[m] => l = m
  BY DEF Exclusive
<1>3. f \in Injection(S, TokenIds)
  BY <1>1, <1>2 DEF Injection, IsInjective
<1>4. IsFiniteSet(TokenIds)
  BY FS_Interval, TokensAssumption DEF TokenIds
<1> QED
  BY <1>3, <1>4, FS_Injection

-----------------------------------------------------------------------------
(* the invariant *)

\* What a request has been granted it does not wait for.
LEMMA NothingAsked == ASSUME NEW c, trx[c].need = <<>> PROVE Asked(c) = {}
  BY DEF Asked

LEMMA SingletonSeq == ASSUME NEW x PROVE 1 \in 1..Len(<<x>>) /\ <<x>>[1] = x
  OBVIOUS

LEMMA NoLocks == <<>> \in Seq(Lock)
  OBVIOUS

LEMMA IdleIsTyped == Idle \in Transaction
  BY NoLocks DEF Idle, Transaction, PCs

LEMMA InitIInv == Init => IInv
<1> SUFFICES ASSUME Init PROVE IInv
  OBVIOUS
<1>1. Issued = {}
  BY DEF Init, Issued, Unissued
<1>2. Typed
  BY IdleIsTyped DEF Init, Typed
<1>3. LocksExclude /\ \A c \in Clients : Standing(c)
  BY DEF Init, LocksExclude, Standing, Idle
<1>4. OneLiveTokenPerFamily
  BY DEF Init, OneLiveTokenPerFamily, Live
<1> QED
  BY <1>1, <1>2, <1>3, <1>4 DEF IInv

LEMMA ZeroIsNoToken == 0 \notin TokenIds
  BY TokensAssumption DEF TokenIds

\* A row that is not there is in no family.
LEMMA FamiliesAreNumbered == NoToken.family \notin TokenIds
<1>1. NoToken.family = 0
  BY DEF NoToken
<1> QED
  BY <1>1, ZeroIsNoToken

LEMMA FamiliesAreIssued ==
  ASSUME IInv, NEW t \in TokenIds, tokens[t].family \in TokenIds
  PROVE  t \in Issued
  BY FamiliesAreNumbered DEF Issued, Unissued

\* A step of one request that leaves the tokens alone.
LEMMA LocalStep ==
  ASSUME IInv, UNCHANGED tokens, NEW c \in Clients, Typed',
         \A d \in Clients \ {c} : trx'[d] = trx[d],
         trx'[c].held \subseteq trx[c].held,
         Standing(c)'
  PROVE  IInv'
<1>1. LocksExclude'
  BY DEF IInv, LocksExclude
<1>2. \A d \in Clients : Standing(d)'
  <2> SUFFICES ASSUME NEW d \in Clients, d # c PROVE Standing(d)'
    OBVIOUS
  <2>1. Standing(d) /\ trx'[d] = trx[d] /\ Asked(d)' = Asked(d)
    BY DEF IInv, Asked
  <2>2. Issued' = Issued /\ \A t : Live(t)' <=> Live(t)
    BY DEF Issued, Unissued, Live
  <2> QED
    BY <2>1, <2>2 DEF Standing
<1>3. Issued' = Issued
  BY DEF Issued, Unissued
<1>4. OneLiveTokenPerFamily'
  BY DEF IInv, OneLiveTokenPerFamily, Live
<1> QED
  BY <1>1, <1>2, <1>3, <1>4 DEF IInv

\* A request that ends lets go of everything.
LEMMA EndStep ==
  ASSUME IInv, UNCHANGED tables, NEW c \in Clients, End(c)
  PROVE  IInv'
<1>1. Typed'
  BY IdleIsTyped DEF IInv, Typed, End, tables
<1>2. \A d \in Clients \ {c} : trx'[d] = trx[d]
  BY DEF End
<1>3. trx'[c] = Idle
  BY DEF End, IInv, Typed
<1>4. Standing(c)'
  BY <1>3 DEF Standing, Idle
<1> QED
  BY <1>1, <1>2, <1>3, <1>4, LocalStep DEF Idle, tables

\* The request that commits holds the token it spends; nobody else is past
\* reading that token.
LEMMA HeldAlone ==
  ASSUME IInv, NEW c \in Clients, NEW d \in Clients, d # c,
         trx[d].pc \in {"spent", "rotate"},
         NEW t \in TokenIds, Exclusive(t) \in trx[c].held
  PROVE  trx[d].token # t
  BY NothingAsked DEF IInv, LocksExclude, Standing

\* A commit that spends or revokes only rows it has locked.
LEMMA CommitStep ==
  ASSUME IInv, NEW c \in Clients, End(c), UNCHANGED active,
         tokens' \in [TokenIds -> Token \cup {NoToken}],
         \A t \in Issued :
           /\ t \in Issued'
           /\ tokens'[t].family = tokens[t].family
           /\ tokens'[t] # tokens[t] => Exclusive(t) \in trx[c].held,
         \A t \in Issued' : tokens'[t].family \in Issued',
         OneLiveTokenPerFamily'
  PROVE  IInv'
<1>1. Typed'
  BY IdleIsTyped DEF IInv, Typed, End
<1>2. \A d \in Clients \ {c} : trx'[d] = trx[d]
  BY DEF End
<1>3. trx'[c] = Idle
  BY DEF End, IInv, Typed
<1>4. LocksExclude'
  BY <1>2, <1>3 DEF IInv, LocksExclude, Idle
<1>5. ASSUME NEW d \in Clients, d # c PROVE Standing(d)'
  <2>1. Standing(d) /\ trx'[d] = trx[d] /\ Asked(d)' = Asked(d)
    BY <1>2, <1>5 DEF IInv, Asked
  <2>2. ASSUME trx[d].pc \in {"spent", "rotate"} PROVE Live(trx[d].token)'
    <3>1. trx[d].token \in Issued /\ Live(trx[d].token)
      BY <2>1, <2>2 DEF Standing
    <3>2. tokens'[trx[d].token] = tokens[trx[d].token]
      BY <1>5, <2>2, <3>1, HeldAlone DEF Issued
    <3> QED
      BY <2>1, <3>1, <3>2 DEF Live
  <2> QED
    BY <2>1, <2>2 DEF Standing
<1>6. Standing(c)'
  BY <1>3 DEF Standing, Idle
<1> QED
  BY <1>1, <1>4, <1>5, <1>6 DEF IInv

\* A commit that also issues a token, to a family that has no live one left.
LEMMA IssueStep ==
  ASSUME IInv, NEW c \in Clients, End(c), UNCHANGED active, NEW child \in Unissued,
         tokens' \in [TokenIds -> Token \cup {NoToken}],
         Issued' = Issued \cup {child},
         \A t \in Issued :
           /\ tokens'[t].family = tokens[t].family
           /\ Live(t)' => Live(t)
           /\ tokens'[t] # tokens[t] => Exclusive(t) \in trx[c].held
           /\ Live(t)' => tokens[t].family # tokens'[child].family,
         tokens'[child].family \in Issued'
  PROVE  IInv'
<1>1. \A t \in Issued' : tokens'[t].family \in Issued'
  BY DEF IInv
<1>2. OneLiveTokenPerFamily'
  <2> SUFFICES ASSUME NEW s \in TokenIds, NEW t \in TokenIds, Live(s)', Live(t)',
                      tokens'[s].family = tokens'[t].family
               PROVE  s = t
    BY DEF OneLiveTokenPerFamily
  <2>1. s \in Issued' /\ t \in Issued'
    BY DEF Live, Issued, Unissued
  <2>2. CASE s \in Issued /\ t \in Issued
    BY <2>2 DEF IInv, OneLiveTokenPerFamily, Issued
  <2>3. CASE s = child \/ t = child
    BY <2>1, <2>3
  <2> QED
    BY <2>1, <2>2, <2>3
<1> QED
  BY <1>1, <1>2, CommitStep

-----------------------------------------------------------------------------
(* the actions *)

\* A request begins or goes on, and its record is well formed.
LEMMA RecordStep ==
  ASSUME IInv, UNCHANGED tables, NEW c \in Clients, NEW t \in Transaction,
         trx' = [trx EXCEPT ![c] = t],
         t.held \subseteq trx[c].held,
         Standing(c)'
  PROVE  IInv'
<1>1. Typed'
  BY DEF IInv, Typed, tables
<1>2. trx'[c] = t /\ \A d \in Clients \ {c} : trx'[d] = trx[d]
  BY DEF IInv, Typed
<1> QED
  BY <1>1, <1>2, LocalStep DEF tables

LEMMA BeginStep ==
  ASSUME IInv, NEW c \in Clients, BeginRequest(c)
  PROVE  IInv'
<1>1. ASSUME NEW u \in Users, BeginLogin(c, u) PROVE IInv'
  <2> DEFINE t == [Idle EXCEPT !.pc = "issue", !.user = {u}]
  <2>1. t \in Transaction /\ t.held = {}
    BY IdleIsTyped DEF Transaction, Idle, PCs
  <2>2. trx' = [trx EXCEPT ![c] = t] /\ trx'[c] = t
    BY <1>1 DEF BeginLogin, IInv, Typed
  <2>3. Standing(c)'
    <3>1. trx'[c].pc = "issue"
      BY <2>2 DEF Idle
    <3> QED
      BY <3>1 DEF Standing
  <2> QED
    BY <1>1, <2>1, <2>2, <2>3, RecordStep DEF BeginLogin
<1>2. ASSUME NEW s \in TokenIds, BeginRefresh(c, s) PROVE IInv'
  <2> DEFINE t == [Idle EXCEPT !.pc = "token read", !.token = s,
                            !.family = tokens[s].family,
                            !.need = <<Exclusive(s)>>]
  <2>1. s \in Issued /\ tokens[s] \in Token /\ Exclusive(s) \in Lock
    <3>1. s \in Issued /\ tokens[s] \in Token
      BY <1>2 DEF BeginRefresh, Issued, Unissued, IInv, Typed
    <3> QED
      BY <3>1 DEF Lock
  <2>2. /\ t \in Transaction /\ t.held = {} /\ t.pc = "token read" /\ t.token = s
        /\ t.family = tokens[s].family /\ t.need = <<Exclusive(s)>>
    <3>1. <<Exclusive(s)>> \in Seq(Lock)
      BY <2>1
    <3> QED
      BY <2>1, <3>1, IdleIsTyped DEF Transaction, Idle, PCs, Token
  <2>3. trx' = [trx EXCEPT ![c] = t] /\ trx'[c] = t
    BY <1>2 DEF BeginRefresh, IInv, Typed
  <2>4. Issued' = Issued /\ tokens' = tokens
    BY <1>2 DEF BeginRefresh, Issued, Unissued, tables
  <2>5. Standing(c)'
    <3>1. /\ trx'[c].pc = "token read" /\ trx'[c].token = s
          /\ trx'[c].family = tokens[s].family /\ trx'[c].need = <<Exclusive(s)>>
      BY <2>2, <2>3
    <3>2. 1 \in 1..Len(trx'[c].need) /\ trx'[c].need[1] = Exclusive(s)
      BY <3>1, SingletonSeq
    <3>3. Exclusive(s) \in Asked(c)'
      BY <3>2 DEF Asked
    <3> QED
      BY <2>1, <2>4, <3>1, <3>3 DEF Standing
  <2> QED
    BY <1>2, <2>2, <2>3, <2>5, RecordStep DEF BeginRefresh
<1>3. ASSUME NEW s \in TokenIds, BeginLogout(c, s) PROVE IInv'
  <2> DEFINE t == [Idle EXCEPT !.pc = "family read", !.family = tokens[s].family]
  <2>1. tokens[s] \in Token
    BY <1>3 DEF BeginLogout, IInv, Typed
  <2>2. t \in Transaction /\ t.held = {} /\ t.family \in TokenIds /\ t.token = 0
    BY <2>1, IdleIsTyped DEF Transaction, Idle, PCs, Token
  <2>3. trx' = [trx EXCEPT ![c] = t] /\ trx'[c] = t
    BY <1>3 DEF BeginLogout, IInv, Typed
  <2>4. trx'[c].pc = "family read" /\ trx'[c].family \in TokenIds /\ trx'[c].token = 0
    BY <2>2, <2>3 DEF Idle
  <2>5. Standing(c)'
    BY <2>4 DEF Standing
  <2> QED
    BY <1>3, <2>2, <2>3, <2>5, RecordStep DEF BeginLogout
<1> QED
  BY <1>1, <1>2, <1>3 DEF BeginRequest

\* A revocation that has listed its victims asks for the locks it does not hold.
LEMMA RevokeStep ==
  ASSUME IInv, UNCHANGED tables, NEW c \in Clients, Revoke(c),
         trx[c].pc \in {"token read", "family read"},
         trx[c].pc = "token read" => ~ tokens[trx[c].token].revoked
  PROVE  IInv'
<1> DEFINE victims == Unrevoked(trx[c].family)
           S == {Exclusive(t) : t \in victims} \ trx[c].held
<1>1. PICK locks \in SetToSeqs(S) :
        trx' = [trx EXCEPT ![c].pc = "revoking", ![c].victims = victims,
                           ![c].need = locks]
  BY DEF Revoke
<1> DEFINE t == [trx[c] EXCEPT !.pc = "revoking", !.victims = victims, !.need = locks]
<1>2. trx[c] \in Transaction /\ trx[c].family \in TokenIds
  BY DEF IInv, Typed, Standing, Issued, Token, Transaction
<1>3. victims \subseteq Issued /\ victims \in SUBSET TokenIds
  <2>1. \A v \in victims : v \in TokenIds /\ tokens[v].family \in TokenIds
    BY <1>2 DEF Unrevoked, Family
  <2> QED
    BY <2>1, FamiliesAreIssued
<1>4. IsFiniteSet(S)
  BY <1>3, LocksAreFinite
<1>5. S \in SUBSET Lock
  BY <1>3 DEF Lock
<1>6. \A v \in victims : Exclusive(v) \in trx[c].held \/ Exclusive(v) \in S
  OBVIOUS
<1> HIDE DEF S, victims, t
<1>7. locks \in Seq(Lock) /\ \A l \in S : \E i \in 1..Len(locks) : locks[i] = l
  <2>1. \A x \in S : \E i \in 1..Len(locks) : locks[i] = x
    BY <1>4, SeqsCover
  <2>2. locks \in Seq(Lock)
    BY <1>4, <1>5, SeqsAreTyped
  <2> QED
    BY <2>1, <2>2
<1>8. /\ t \in Transaction /\ t.held = trx[c].held /\ t.pc = "revoking"
      /\ t.victims = victims /\ t.need = locks /\ t.token = trx[c].token
  BY <1>2, <1>3, <1>7 DEF t, Transaction, PCs
<1>9. trx' = [trx EXCEPT ![c] = t] /\ trx'[c] = t
  BY <1>1, <1>2 DEF t, IInv, Typed, Transaction
<1>10. Issued' = Issued
  BY DEF Issued, Unissued, tables
<1>11. ASSUME NEW v \in victims PROVE Exclusive(v) \in trx'[c].held \cup Asked(c)'
  <2>1. trx'[c].need = locks /\ trx'[c].held = trx[c].held
    BY <1>8, <1>9
  <2>2. Exclusive(v) \in trx[c].held \/ \E i \in 1..Len(locks) : locks[i] = Exclusive(v)
    BY <1>6, <1>7
  <2> QED
    BY <2>1, <2>2 DEF Asked
<1>12. trx[c].token # 0 => trx[c].token \in victims
  BY DEF victims, Unrevoked, Family, IInv, Standing, Issued
<1>13. Standing(c)'
  BY <1>3, <1>8, <1>9, <1>10, <1>11, <1>12 DEF Standing
<1> QED
  BY <1>8, <1>9, <1>13, RecordStep

\* A request that goes on without a lock keeps what it holds.
LEMMA GoOnStep ==
  ASSUME IInv, UNCHANGED tables, NEW c \in Clients,
         NEW from, Ready(c, from), from \in {"token read", "spent"},
         NEW pc \in {"spent", "rotate"}, GoOn(c, pc, <<>>), Live(trx[c].token)
  PROVE  IInv'
<1> DEFINE t == [trx[c] EXCEPT !.pc = pc, !.need = <<>>]
<1>1. trx[c] \in Transaction
  BY DEF IInv, Typed
<1>2. t \in Transaction /\ t.held = trx[c].held /\ t.pc = pc /\ t.token = trx[c].token
      /\ t.family = trx[c].family /\ t.need = <<>>
  <2>1. pc \in PCs
    BY DEF PCs
  <2> QED
    BY <1>1, <2>1, NoLocks DEF Transaction
<1>3. trx' = [trx EXCEPT ![c] = t] /\ trx'[c] = t
  BY <1>1 DEF GoOn, IInv, Typed, Transaction
<1>4. /\ trx[c].token \in Issued /\ trx[c].family = tokens[trx[c].token].family
      /\ Exclusive(trx[c].token) \in trx[c].held
  BY NothingAsked DEF IInv, Standing, Ready
<1>5. Issued' = Issued /\ tokens' = tokens
  BY DEF Issued, Unissued, tables
<1> HIDE DEF t
<1>6. /\ trx'[c].pc = pc /\ trx'[c].need = <<>> /\ trx'[c].held = trx[c].held
      /\ trx'[c].token = trx[c].token /\ trx'[c].family = trx[c].family
  BY <1>2, <1>3
<1>7. Live(trx[c].token)'
  BY <1>5, <1>6 DEF Live
<1>8. Standing(c)'
  BY <1>4, <1>5, <1>6, <1>7 DEF Standing
<1> QED
  BY <1>2, <1>3, <1>8, RecordStep

\* A login starts a family of its own.
LEMMA CommitLoginStep ==
  ASSUME IInv, NEW c \in Clients, CommitLogin(c)
  PROVE  IInv'
<1>1. PICK t \in Unissued, u \in trx[c].user :
        tokens' = [tokens EXCEPT ![t] = NewToken(u, t)]
  BY DEF CommitLogin
<1>2. t \in TokenIds /\ tokens[t] = NoToken /\ u \in Users
  BY DEF IInv, Typed, Transaction, Unissued
<1>3. NewToken(u, t) \in Token /\ NewToken(u, t).family = t
  BY <1>2 DEF NewToken, Token
<1>4. tokens' \in [TokenIds -> Token \cup {NoToken}]
  BY <1>1, <1>2, <1>3 DEF IInv, Typed
<1>5. tokens'[t] = NewToken(u, t) /\ \A s \in TokenIds \ {t} : tokens'[s] = tokens[s]
  BY <1>1, <1>2 DEF IInv, Typed
<1>6. NewToken(u, t) # NoToken
  BY <1>3, FamiliesAreNumbered DEF Token
<1>7. Issued' = Issued \cup {t}
  BY <1>2, <1>6, <1>5 DEF Issued, Unissued
<1>8. \A s \in Issued : tokens'[s] = tokens[s] /\ tokens[s].family # t
  BY <1>2, <1>5 DEF IInv, Issued, Unissued
<1>9. ASSUME NEW s \in Issued
      PROVE  /\ tokens'[s].family = tokens[s].family
             /\ Live(s)' => Live(s)
             /\ tokens'[s] # tokens[s] => Exclusive(s) \in trx[c].held
             /\ Live(s)' => tokens[s].family # tokens'[t].family
  BY <1>3, <1>8, <1>5 DEF Live
<1>10. tokens'[t].family \in Issued'
  BY <1>3, <1>7, <1>5
<1> QED
  BY <1>4, <1>7, <1>9, <1>10, IssueStep DEF CommitLogin

\* A rotation replaces the one live token of its family by another.
LEMMA CommitRotationStep ==
  ASSUME IInv, NEW c \in Clients, CommitRotation(c)
  PROVE  IInv'
<1> DEFINE t == trx[c].token
           u == tokens[t].user
           f == tokens[t].family
<1>1. PICK child \in Unissued :
        tokens' = [tokens EXCEPT ![t].used = TRUE, ![child] = NewToken(u, f)]
  BY DEF CommitRotation
<1>2. /\ t \in Issued /\ Live(t) /\ Exclusive(t) \in trx[c].held
      /\ t \in TokenIds /\ tokens[t] \in Token
  <2>1. trx[c].pc = "rotate" /\ Asked(c) = {}
    BY NothingAsked DEF CommitRotation, Ready
  <2>2. Standing(c)
    BY DEF IInv
  <2>3. t \in Issued /\ Live(t) /\ Exclusive(t) \in trx[c].held
    BY <2>1, <2>2 DEF Standing
  <2>4. \A s \in Issued : s \in TokenIds /\ tokens[s] \in Token
    BY DEF IInv, Typed, Issued, Unissued
  <2> QED
    BY <2>3, <2>4
<1>3. child \in TokenIds /\ child # t /\ tokens[child] = NoToken
  BY <1>2 DEF Unissued, Issued
<1>4. f \in Issued /\ f \in TokenIds /\ u \in Users
  BY <1>2 DEF IInv, Token, Issued
<1>5. NewToken(u, f) \in Token /\ NewToken(u, f).family = f
  BY <1>4 DEF NewToken, Token
<1>6. /\ tokens'[child] = NewToken(u, f)
      /\ tokens'[t] = [tokens[t] EXCEPT !.used = TRUE]
      /\ \A s \in TokenIds \ {t, child} : tokens'[s] = tokens[s]
      /\ DOMAIN tokens' = TokenIds /\ tokens' = [s \in TokenIds |-> tokens'[s]]
  BY <1>1, <1>2, <1>3 DEF IInv, Typed
<1>7. tokens'[t] \in Token /\ tokens'[t].family = f /\ tokens'[t].used
  BY <1>2, <1>6 DEF Token
<1>8. tokens' \in [TokenIds -> Token \cup {NoToken}]
  BY <1>5, <1>6, <1>7 DEF IInv, Typed
<1>9. \A n \in Token : n # NoToken
  BY FamiliesAreNumbered DEF Token
<1>10. Issued' = Issued \cup {child}
  BY <1>2, <1>3, <1>5, <1>6, <1>7, <1>9 DEF Issued, Unissued
<1>11. ASSUME NEW s \in Issued
       PROVE  /\ tokens'[s].family = tokens[s].family
              /\ Live(s)' => Live(s)
              /\ tokens'[s] # tokens[s] => Exclusive(s) \in trx[c].held
              /\ Live(s)' => tokens[s].family # tokens'[child].family
  <2>1. s # child /\ s \in TokenIds
    BY <1>3 DEF Issued, Unissued
  <2>2. CASE s = t
    BY <1>2, <1>7, <2>2 DEF Live
  <2>3. CASE s # t
    <3>1. tokens'[s] = tokens[s]
      BY <1>6, <2>1, <2>3
    <3>2. Live(s)' => tokens[s].family # f
      BY <1>2, <2>1, <2>3, <3>1 DEF IInv, OneLiveTokenPerFamily, Live
    <3> QED
      BY <1>5, <1>6, <3>1, <3>2 DEF Live
  <2> QED
    BY <2>2, <2>3
<1>12. tokens'[child].family \in Issued'
  BY <1>4, <1>5, <1>6, <1>10
<1> QED
  BY <1>8, <1>10, <1>11, <1>12, IssueStep DEF CommitRotation

\* Spending a token whose account is suspended, or revoking a family, issues none.
LEMMA WithdrawStep ==
  ASSUME IInv, NEW c \in Clients, RefuseSuspended(c) \/ CommitRevocation(c)
  PROVE  IInv'
<1>1. /\ tokens' \in [TokenIds -> Token \cup {NoToken}]
      /\ \A t \in TokenIds : tokens'[t] = NoToken <=> tokens[t] = NoToken
      /\ \A t \in Issued :
           /\ tokens'[t].family = tokens[t].family
           /\ Live(t)' => Live(t)
           /\ tokens'[t] # tokens[t] => Exclusive(t) \in trx[c].held
  <2>1. \A n \in Token : n # NoToken
    BY FamiliesAreNumbered DEF Token
  <2>2. CASE RefuseSuspended(c)
    <3> DEFINE s == trx[c].token
               row == [tokens[s] EXCEPT !.used = TRUE]
    <3>1. s \in TokenIds /\ s \in Issued /\ Exclusive(s) \in trx[c].held /\ tokens[s] \in Token
      BY <2>2, NothingAsked DEF RefuseSuspended, Ready, IInv, Typed, Standing, Issued, Unissued
    <3>2. row \in Token /\ row.family = tokens[s].family /\ row.used
      BY <3>1 DEF Token
    <3>3. tokens' = [tokens EXCEPT ![s] = row]
      BY <2>2 DEF RefuseSuspended
    <3>4. tokens'[s] = row /\ \A t \in TokenIds \ {s} : tokens'[t] = tokens[t]
      BY <3>1, <3>3 DEF IInv, Typed
    <3> HIDE DEF row
    <3>5. tokens' \in [TokenIds -> Token \cup {NoToken}]
      BY <3>1, <3>2, <3>3 DEF IInv, Typed
    <3> QED
      BY <2>1, <3>1, <3>2, <3>4, <3>5 DEF Live, Issued
  <2>3. CASE CommitRevocation(c)
    <3> DEFINE row(t) == IF t \in trx[c].victims THEN [tokens[t] EXCEPT !.revoked = TRUE]
                                                 ELSE tokens[t]
    <3>1. tokens' = [t \in TokenIds |-> row(t)]
      BY <2>3 DEF CommitRevocation
    <3>2. trx[c].victims \subseteq Issued /\ \A t \in trx[c].victims : Exclusive(t) \in trx[c].held
      BY <2>3, NothingAsked DEF CommitRevocation, Ready, IInv, Standing
    <3>3. \A t \in trx[c].victims : tokens[t] \in Token /\ t \in TokenIds
      BY <3>2 DEF IInv, Typed, Issued, Unissued
    <3>4. \A t \in trx[c].victims : row(t) \in Token /\ row(t).family = tokens[t].family
                                    /\ row(t).revoked
      BY <3>3 DEF Token
    <3>5. \A t \in TokenIds : t \notin trx[c].victims => row(t) = tokens[t]
      OBVIOUS
    <3> HIDE DEF row
    <3>6. tokens' \in [TokenIds -> Token \cup {NoToken}]
      BY <3>1, <3>4, <3>5 DEF IInv, Typed
    <3>7. \A t \in TokenIds : tokens'[t] = row(t)
      BY <3>1
    <3> QED
      BY <2>1, <3>2, <3>3, <3>4, <3>5, <3>6, <3>7 DEF Live, Issued
  <2> QED
    BY <2>2, <2>3
<1>2. Issued' = Issued
  BY <1>1 DEF Issued, Unissued
<1>3. ASSUME NEW t \in Issued
      PROVE  /\ t \in Issued'
             /\ tokens'[t].family = tokens[t].family
             /\ Live(t)' => Live(t)
             /\ tokens'[t] # tokens[t] => Exclusive(t) \in trx[c].held
             /\ tokens'[t].family \in Issued'
  BY <1>1, <1>2 DEF IInv
<1>4. OneLiveTokenPerFamily'
  <2> SUFFICES ASSUME NEW s \in TokenIds, NEW t \in TokenIds, Live(s)', Live(t)',
                      tokens'[s].family = tokens'[t].family
               PROVE  s = t
    BY DEF OneLiveTokenPerFamily
  <2>1. s \in Issued /\ t \in Issued
    BY <1>2 DEF Live, Issued, Unissued
  <2> QED
    BY <1>3, <2>1 DEF IInv, OneLiveTokenPerFamily
<1>5. tokens' \in [TokenIds -> Token \cup {NoToken}] /\ End(c) /\ UNCHANGED active
  BY <1>1 DEF RefuseSuspended, CommitRevocation
<1> QED
  BY <1>2, <1>3, <1>4, <1>5, CommitStep

\* A lock is granted to one request at a time.
LEMMA AcquireStep ==
  ASSUME IInv, NEW c \in Clients, AcquireLock(c)
  PROVE  IInv'
<1> DEFINE l == Head(trx[c].need)
           t == [trx[c] EXCEPT !.need = Tail(@), !.held = @ \cup {l}]
<1>1. trx[c] \in Transaction /\ trx[c].need \in Seq(Lock) /\ trx[c].need # <<>>
  BY DEF AcquireLock, Granted, IInv, Typed, Transaction
<1>2. l \in Lock /\ Tail(trx[c].need) \in Seq(Lock)
  BY <1>1
<1>3. /\ t \in Transaction /\ t.held = trx[c].held \cup {l} /\ t.need = Tail(trx[c].need)
      /\ t.pc = trx[c].pc /\ t.token = trx[c].token /\ t.family = trx[c].family
      /\ t.victims = trx[c].victims
  BY <1>1, <1>2 DEF Transaction
<1>4. trx' = [trx EXCEPT ![c] = t]
  BY DEF AcquireLock, Granted
<1> HIDE DEF t
<1>5. trx'[c] = t /\ \A d \in Clients \ {c} : trx'[d] = trx[d]
  BY <1>4 DEF IInv, Typed
<1>6. Typed'
  BY <1>3, <1>4 DEF AcquireLock, tables, IInv, Typed
<1>7. \A d \in Clients \ {c} : l \notin trx[d].held
  BY <1>1, <1>2 DEF AcquireLock, Granted, Blockers, Conflict, Lock, Exclusive
<1>8. LocksExclude'
  BY <1>3, <1>5, <1>7 DEF IInv, LocksExclude
<1>9. Issued' = Issued /\ tokens' = tokens /\ \A s : Live(s)' <=> Live(s)
  BY DEF AcquireLock, tables, Issued, Unissued, Live
<1>10. ASSUME NEW d \in Clients, d # c PROVE Standing(d)'
  <2>1. Standing(d) /\ trx'[d] = trx[d] /\ Asked(d)' = Asked(d)
    BY <1>5, <1>10 DEF IInv, Asked
  <2> QED
    BY <1>9, <2>1 DEF Standing
<1>11. Asked(c) \subseteq {l} \cup Asked(c)'
  <2> DEFINE need == trx[c].need
  <2>1. trx'[c].need = Tail(need) /\ need \in Seq(Lock) /\ need # <<>>
    BY <1>1, <1>3, <1>5
  <2> HIDE DEF need
  <2>2. ASSUME NEW i \in 1..Len(need)
        PROVE  need[i] = Head(need) \/ \E j \in 1..Len(Tail(need)) : need[i] = Tail(need)[j]
    <3>1. CASE i = 1
      BY <2>1, <3>1
    <3>2. CASE i # 1
      <4>1. i - 1 \in 1..Len(Tail(need)) /\ Tail(need)[i - 1] = need[i]
        BY <2>1, <3>2
      <4> QED
        BY <4>1
    <3> QED
      BY <3>1, <3>2
  <2> QED
    BY <2>1, <2>2 DEF Asked, need
<1> HIDE DEF l
<1>12. Standing(c)
  BY DEF IInv
<1>13. Standing(c)'
  <2>1. trx[c].pc \notin {"spent", "rotate"}
    BY <1>1, <1>12 DEF Standing
  <2> QED
    BY <1>3, <1>5, <1>9, <1>11, <1>12, <2>1 DEF Standing
<1>14. \A s \in Issued : tokens[s].family \in Issued
  BY DEF IInv
<1>15. OneLiveTokenPerFamily'
  BY <1>9 DEF IInv, OneLiveTokenPerFamily
<1> QED
  BY <1>6, <1>8, <1>9, <1>10, <1>13, <1>14, <1>15 DEF IInv

\* Time passes, and accounts are suspended and restored.
LEMMA ExpireStep ==
  ASSUME IInv, NEW s \in TokenIds, Expire(s)
  PROVE  IInv'
<1> DEFINE row == [tokens[s] EXCEPT !.expired = TRUE]
<1>1. tokens[s] \in Token /\ s \in Issued
  BY DEF Expire, IInv, Typed, Issued, Unissued
<1>2. row \in Token /\ row.family = tokens[s].family /\ row.used = tokens[s].used
      /\ row.revoked = tokens[s].revoked
  BY <1>1 DEF Token
<1>3. tokens' = [tokens EXCEPT ![s] = row] /\ trx' = trx /\ active' = active
  BY DEF Expire
<1> HIDE DEF row
<1>4. tokens'[s] = row /\ \A t \in TokenIds \ {s} : tokens'[t] = tokens[t]
  BY <1>3 DEF IInv, Typed
<1>5. Typed'
  BY <1>2, <1>3 DEF IInv, Typed
<1>6. row # NoToken /\ tokens[s] # NoToken
  BY <1>1, <1>2, FamiliesAreNumbered DEF Token
<1>7. Issued' = Issued /\ \A t \in Issued : tokens'[t].family = tokens[t].family
  BY <1>2, <1>4, <1>6 DEF Issued, Unissued
<1>8. \A t \in TokenIds : Live(t)' <=> Live(t)
  BY <1>2, <1>4, <1>6 DEF Live
<1>9. LocksExclude'
  BY <1>3 DEF IInv, LocksExclude
<1>10. ASSUME NEW c \in Clients PROVE Standing(c)'
  <2>1. Standing(c) /\ Asked(c)' = Asked(c)
    BY <1>3 DEF IInv, Asked
  <2>2. trx[c].token \in Issued => (Live(trx[c].token)' <=> Live(trx[c].token))
    BY <1>2, <1>3, <1>4, <1>6 DEF Live, Issued
  <2> QED
    BY <1>3, <1>7, <2>1, <2>2 DEF Standing
<1>11. OneLiveTokenPerFamily'
  <2> SUFFICES ASSUME NEW t \in TokenIds, NEW u \in TokenIds, Live(t)', Live(u)',
                      tokens'[t].family = tokens'[u].family
               PROVE  t = u
    BY DEF OneLiveTokenPerFamily
  <2>1. Live(t) /\ Live(u) /\ t \in Issued /\ u \in Issued
    BY <1>2, <1>4, <1>6 DEF Live, Issued, Unissued
  <2> QED
    BY <1>7, <2>1 DEF IInv, OneLiveTokenPerFamily
<1> QED
  BY <1>5, <1>7, <1>9, <1>10, <1>11 DEF IInv

LEMMA SetStatusStep ==
  ASSUME IInv, active' \subseteq Users, UNCHANGED <<tokens, trx>>
  PROVE  IInv'
<1>1. Typed'
  BY DEF IInv, Typed
<1>2. LocksExclude' /\ OneLiveTokenPerFamily'
  BY DEF IInv, LocksExclude, OneLiveTokenPerFamily, Live
<1>3. ASSUME NEW c \in Clients PROVE Standing(c)'
  <2>1. Standing(c) /\ Asked(c)' = Asked(c)
    BY DEF IInv, Asked
  <2> QED
    BY <2>1 DEF Standing, Issued, Unissued, Live
<1>4. \A t \in Issued' : tokens'[t].family \in Issued'
  BY DEF IInv, Issued, Unissued
<1> QED
  BY <1>1, <1>2, <1>3, <1>4 DEF IInv

\* Every action keeps the invariant.
LEMMA NextIInv == IInv /\ [Next]_vars => IInv'
<1> SUFFICES ASSUME IInv, [Next]_vars PROVE IInv'
  OBVIOUS
<1>1. ASSUME NEW c \in Clients, Serve(c) PROVE IInv'
  <2>1. CASE CommitLogin(c)
    BY <2>1, CommitLoginStep
  <2>2. CASE RefuseToken(c)
    BY <2>2, EndStep DEF RefuseToken
  <2>3. CASE DetectReuse(c)
    BY <2>3, RevokeStep DEF DetectReuse, Ready
  <2>4. CASE SpendToken(c)
    <3>1. tokens[trx[c].token] # NoToken
      BY <2>4 DEF SpendToken, Ready, IInv, Standing, Issued, Unissued
    <3>2. Live(trx[c].token)
      BY <2>4, <3>1 DEF SpendToken, Live
    <3> QED
      BY <2>4, <3>2, GoOnStep DEF SpendToken
  <2>5. CASE RefuseSuspended(c) \/ CommitRevocation(c)
    BY <2>5, WithdrawStep
  <2>6. CASE AcceptUser(c)
    <3>1. Live(trx[c].token)
      BY <2>6 DEF AcceptUser, Ready, IInv, Standing
    <3> QED
      BY <2>6, <3>1, GoOnStep DEF AcceptUser
  <2>7. CASE CommitRotation(c)
    BY <2>7, CommitRotationStep
  <2>8. CASE Logout(c)
    BY <2>8, RevokeStep DEF Logout, Ready
  <2> QED
    BY <1>1, <2>1, <2>2, <2>3, <2>4, <2>5, <2>6, <2>7, <2>8 DEF Serve
<1>2. ASSUME NEW c \in Clients, BeginRequest(c) PROVE IInv'
  BY <1>2, BeginStep
<1>3. ASSUME NEW c \in Clients, AcquireLock(c) PROVE IInv'
  BY <1>3, AcquireStep
<1>4. ASSUME NEW c \in Clients, AbortDeadlock(c) PROVE IInv'
  BY <1>4, EndStep DEF AbortDeadlock
<1>5. ASSUME NEW t \in TokenIds, Expire(t) PROVE IInv'
  BY <1>5, ExpireStep
<1>6. ASSUME NEW u \in Users, SetStatus(u) PROVE IInv'
  BY <1>6, SetStatusStep DEF SetStatus, IInv, Typed
<1>7. CASE UNCHANGED vars
  BY <1>7, SetStatusStep DEF vars, sessions, IInv, Typed
<1> QED
  BY <1>1, <1>2, <1>3, <1>4, <1>5, <1>6, <1>7 DEF Next, Step

LEMMA Invariance == Spec => []IInv
  BY InitIInv, NextIInv, PTL DEF Spec

\* Only commits, and time, change a row.
LEMMA Writers ==
  ASSUME [Next]_vars
  PROVE  \/ UNCHANGED tokens
         \/ \E c \in Clients :
              CommitLogin(c) \/ CommitRotation(c) \/ RefuseSuspended(c) \/ CommitRevocation(c)
         \/ \E s \in TokenIds : Expire(s)
  BY DEF Next, Step, vars, sessions, Serve, BeginRequest, BeginLogin, BeginRefresh, BeginLogout, RefuseToken,
       DetectReuse, SpendToken, AcceptUser, Logout, AcquireLock, AbortDeadlock, SetStatus, tables

\* No step moves a token to another family, or spends or revokes it less.
LEMMA RowsWither ==
  ASSUME IInv, [Next]_vars, NEW t \in Issued
  PROVE  /\ tokens'[t].family = tokens[t].family
         /\ tokens[t].used => tokens'[t].used
         /\ tokens[t].revoked => tokens'[t].revoked
<1>1. t \in TokenIds /\ tokens[t] \in Token
  BY DEF IInv, Typed, Issued, Unissued
<1>2. CASE UNCHANGED tokens
  BY <1>2
<1>3. ASSUME NEW c \in Clients, CommitLogin(c) PROVE tokens'[t] = tokens[t]
  BY <1>1, <1>3 DEF CommitLogin, IInv, Typed, Issued
<1>4. ASSUME NEW c \in Clients, CommitRotation(c)
      PROVE  tokens'[t] = tokens[t] \/ tokens'[t] = [tokens[t] EXCEPT !.used = TRUE]
  BY <1>1, <1>4 DEF CommitRotation, IInv, Typed, Issued
<1>5. ASSUME NEW c \in Clients, RefuseSuspended(c)
      PROVE  tokens'[t] = tokens[t] \/ tokens'[t] = [tokens[t] EXCEPT !.used = TRUE]
  BY <1>1, <1>5 DEF RefuseSuspended, IInv, Typed
<1>6. ASSUME NEW c \in Clients, CommitRevocation(c)
      PROVE  tokens'[t] = tokens[t] \/ tokens'[t] = [tokens[t] EXCEPT !.revoked = TRUE]
  BY <1>1, <1>6 DEF CommitRevocation
<1>7. ASSUME NEW s \in TokenIds, Expire(s)
      PROVE  tokens'[t] = tokens[t] \/ tokens'[t] = [tokens[t] EXCEPT !.expired = TRUE]
  BY <1>1, <1>7 DEF Expire, IInv, Typed
<1> QED
  BY <1>1, <1>2, <1>3, <1>4, <1>5, <1>6, <1>7, Writers DEF Token

\* Tokens are not deleted.
LEMMA RowsStay ==
  ASSUME IInv, [Next]_vars, NEW t \in Issued
  PROVE  t \in Issued'
<1>1. tokens'[t].family \in TokenIds
  BY RowsWither DEF IInv, Issued
<1> QED
  BY <1>1, FamiliesAreNumbered DEF Issued, Unissued

\* A new token is the first of its family, or succeeds one that was not revoked.
LEMMA NewTokensSucceed ==
  ASSUME IInv, [Next]_vars, NEW t \in Unissued, tokens'[t] # NoToken
  PROVE  tokens'[t].family = t \/ Unrevoked(tokens'[t].family) # {}
<1>1. t \in TokenIds /\ tokens[t] = NoToken
  BY DEF Unissued
<1>2. CASE UNCHANGED tokens
  BY <1>1, <1>2
<1>3. ASSUME NEW c \in Clients, CommitLogin(c) PROVE tokens'[t].family = t
  BY <1>1, <1>3 DEF CommitLogin, NewToken, IInv, Typed, Unissued
<1>4. ASSUME NEW c \in Clients, CommitRotation(c)
      PROVE  Unrevoked(tokens'[t].family) # {}
  <2> DEFINE s == trx[c].token
  <2>1. s \in Issued /\ Live(s) /\ s \in TokenIds
    BY <1>4 DEF CommitRotation, Ready, IInv, Standing, Issued
  <2>2. s # t
    BY <2>1 DEF Issued
  <2>3. tokens'[t] = tokens[t] \/ tokens'[t] = NewToken(tokens[s].user, tokens[s].family)
    BY <1>1, <1>4, <2>1, <2>2 DEF CommitRotation, IInv, Typed
  <2>4. tokens'[t].family = tokens[s].family
    BY <1>1, <2>3 DEF NewToken
  <2>5. s \in Unrevoked(tokens[s].family)
    BY <2>1 DEF Unrevoked, Family, Live
  <2> QED
    BY <2>4, <2>5
<1>5. ASSUME NEW c \in Clients, RefuseSuspended(c) PROVE tokens'[t] = tokens[t]
  <2>1. trx[c].token # t
    BY <1>5 DEF RefuseSuspended, Ready, IInv, Standing, Issued
  <2> QED
    BY <1>1, <1>5, <2>1 DEF RefuseSuspended, IInv, Typed
<1>6. ASSUME NEW c \in Clients, CommitRevocation(c) PROVE tokens'[t] = tokens[t]
  <2>1. t \notin trx[c].victims
    BY <1>6 DEF CommitRevocation, Ready, IInv, Standing, Issued
  <2> QED
    BY <1>1, <1>6, <2>1 DEF CommitRevocation
<1>7. ASSUME NEW s \in TokenIds, Expire(s) PROVE tokens'[t] = tokens[t]
  BY <1>1, <1>7 DEF Expire, IInv, Typed
<1> QED
  BY <1>1, <1>2, <1>3, <1>4, <1>5, <1>6, <1>7, Writers

-----------------------------------------------------------------------------

\* What a request knows of itself changes with its own steps only.
LEMMA OwnSteps ==
  ASSUME IInv, [Next]_vars, NEW c \in Clients
  PROVE  \/ trx'[c] = trx[c]
         \/ BeginRequest(c) \/ Serve(c) \/ AcquireLock(c) \/ AbortDeadlock(c)
<1> trx \in [Clients -> Transaction]
  BY DEF IInv, Typed
<1>1. ASSUME NEW d \in Clients, d # c,
             BeginRequest(d) \/ Serve(d) \/ AcquireLock(d) \/ AbortDeadlock(d)
      PROVE  trx'[c] = trx[c]
  <2>1. CASE BeginRequest(d)
    BY <1>1, <2>1 DEF BeginRequest, BeginLogin, BeginRefresh, BeginLogout
  <2>2. CASE AcquireLock(d)
    BY <1>1, <2>2 DEF AcquireLock, Granted
  <2>3. CASE End(d)
    BY <1>1, <2>3 DEF End
  <2>4. CASE DetectReuse(d) \/ Logout(d)
    BY <1>1, <2>4 DEF DetectReuse, Logout, Revoke
  <2>5. CASE SpendToken(d) \/ AcceptUser(d)
    BY <1>1, <2>5 DEF SpendToken, AcceptUser, GoOn
  <2> QED
    BY <1>1, <2>1, <2>2, <2>3, <2>4, <2>5 DEF Serve, CommitLogin, RefuseToken,
       RefuseSuspended, CommitRotation, CommitRevocation, AbortDeadlock
<1> QED
  BY <1>1 DEF Next, Step, Expire, SetStatus, vars, sessions

\* A request that is revoking goes on until it commits or is a victim.
LEMMA RevokingStep ==
  ASSUME IInv, [Next]_vars, NEW c \in Clients, Revoking(c)
  PROVE  \/ CommitRevocation(c) \/ AbortDeadlock(c)
         \/ /\ trx'[c].pc = trx[c].pc /\ trx'[c].token = trx[c].token
            /\ trx'[c].family = trx[c].family /\ trx'[c].victims = trx[c].victims
<1>1. CASE BeginRequest(c) \/ Serve(c)
  BY <1>1 DEF Revoking, BeginRequest, BeginLogin, BeginRefresh, BeginLogout, Serve,
     CommitLogin, RefuseToken, DetectReuse, SpendToken, RefuseSuspended, AcceptUser,
     CommitRotation, Logout, Ready
<1>2. CASE AcquireLock(c)
  BY <1>2 DEF AcquireLock, Granted, IInv, Typed, Transaction
<1> QED
  BY <1>1, <1>2, OwnSteps

\* Nobody sets out to revoke but by detecting a reuse or by a logout.
LEMMA RevocationStep ==
  ASSUME IInv, [Next]_vars, NEW c \in Clients, ~ Revoking(c), Revoking(c)'
  PROVE  DetectReuse(c) \/ Logout(c)
<1> trx \in [Clients -> Transaction]
  BY DEF IInv, Typed
<1>1. ~ End(c)
  BY DEF Revoking, End, Idle
<1>2. ~ BeginRequest(c)
  <2>1. ASSUME NEW u \in Users PROVE ~ BeginLogin(c, u)
    BY DEF Revoking, BeginLogin, Idle
  <2>2. ASSUME NEW t \in TokenIds PROVE ~ BeginRefresh(c, t) /\ ~ BeginLogout(c, t)
    BY DEF Revoking, BeginRefresh, BeginLogout, Idle
  <2> QED
    BY <2>1, <2>2 DEF BeginRequest
<1>3. ~ AcquireLock(c)
  BY DEF Revoking, AcquireLock, Granted, Transaction
<1>4. ~ SpendToken(c) /\ ~ AcceptUser(c)
  BY DEF Revoking, SpendToken, AcceptUser, GoOn, Transaction
<1> QED
  BY <1>1, <1>2, <1>3, <1>4, OwnSteps DEF Revoking, Serve, CommitLogin, RefuseToken,
     RefuseSuspended, CommitRotation, CommitRevocation, AbortDeadlock

\* Who revokes does so in the family of the token it was presented with, and has
\* listed every token that was issued to it then, if it was not revoked before.
Listed(c) ==
  Revoking(c) =>
    /\ issued[c] \subseteq Issued
    /\ trx[c].token # 0 => trx[c].family = tokens[trx[c].token].family
    /\ \A t \in issued[c] :
         tokens[t].family = trx[c].family => t \in trx[c].victims \/ tokens[t].revoked

ListsInv ==
  /\ issued \in [Clients -> SUBSET TokenIds]
  /\ \A c \in Clients : Listed(c)

LEMMA NextListsInv == IInv /\ ListsInv /\ [Next]_vars => ListsInv'
<1> SUFFICES ASSUME IInv, ListsInv, [Next]_vars PROVE ListsInv'
  OBVIOUS
<1>1. CASE UNCHANGED vars
  BY <1>1 DEF vars, sessions, ListsInv, Listed, Revoking, Issued, Unissued
<1>2. CASE Note
  <2>1. issued' \in [Clients -> SUBSET TokenIds]
    BY <1>2 DEF Note, ListsInv
  <2>2. ASSUME NEW c \in Clients, Revoking(c)', Revoking(c) PROVE Listed(c)'
    <3>1. /\ trx'[c].token = trx[c].token /\ trx'[c].family = trx[c].family
          /\ trx'[c].victims = trx[c].victims
      BY <2>2, RevokingStep DEF Revoking, CommitRevocation, AbortDeadlock, End, Idle, IInv, Typed
    <3>2. issued'[c] = issued[c] /\ Listed(c)
      BY <1>2, <2>2 DEF Note, ListsInv
    <3>3. Issued \subseteq Issued' /\ \A t \in Issued : tokens'[t].family = tokens[t].family
      BY RowsWither, RowsStay
    <3>4. trx[c].token # 0 => trx[c].token \in Issued
      BY <2>2 DEF Revoking, IInv, Standing
    <3>5. issued[c] \subseteq Issued
      BY <2>2, <3>2 DEF Listed
    <3>6. trx'[c].token # 0 => trx'[c].family = tokens'[trx'[c].token].family
      BY <2>2, <3>1, <3>2, <3>3, <3>4 DEF Listed
    <3>7. ASSUME NEW t \in issued[c], tokens'[t].family = trx[c].family
          PROVE  t \in trx[c].victims \/ tokens'[t].revoked
      <4>1. t \in Issued /\ tokens[t].family = trx[c].family
        BY <3>3, <3>5, <3>7
      <4>2. t \in trx[c].victims \/ tokens[t].revoked
        BY <2>2, <3>2, <4>1 DEF Listed
      <4> QED
        BY <4>1, <4>2, RowsWither
    <3> QED
      BY <3>1, <3>2, <3>3, <3>5, <3>6, <3>7 DEF Listed
  <2>3. ASSUME NEW c \in Clients, Revoking(c)', ~ Revoking(c) PROVE Listed(c)'
    <3>1. DetectReuse(c) \/ Logout(c)
      BY <2>3, RevocationStep
    <3>2. UNCHANGED tokens /\ Revoke(c)
      BY <3>1 DEF DetectReuse, Logout, tables
    <3>3. /\ trx'[c].token = trx[c].token /\ trx'[c].family = trx[c].family
          /\ trx'[c].victims = Unrevoked(trx[c].family)
      BY <3>2 DEF Revoke, IInv, Typed, Transaction
    <3>4. issued'[c] = Issued /\ Issued' = Issued
      BY <1>2, <2>3, <3>2 DEF Note, Issued, Unissued
    <3>5. trx[c].token # 0 => trx[c].family = tokens[trx[c].token].family
      BY <3>1 DEF DetectReuse, Logout, Ready, IInv, Standing
    <3>6. \A t \in Issued : t \in TokenIds
      BY DEF Issued
    <3> QED
      BY <3>2, <3>3, <3>4, <3>5, <3>6 DEF Listed, Unrevoked, Family
  <2> QED
    BY <2>1, <2>2, <2>3 DEF ListsInv, Listed
<1> QED
  BY <1>1, <1>2 DEF Next

LEMMA ListsAreComplete == Spec => []ListsInv
<1>1. Init => ListsInv
  BY DEF Init, ListsInv, Listed, Revoking, Idle
<1> QED
  BY <1>1, NextListsInv, Invariance, PTL DEF Spec

\* The rows, the accounts and the requests stay what their types say.
THEOREM TypeCorrect == Spec => []TypeOK
<1>1. IInv /\ ListsInv => TypeOK
  BY DEF IInv, Typed, ListsInv, TypeOK
<1> QED
  BY <1>1, Invariance, ListsAreComplete, PTL

\* A family never has two tokens that could both be spent, however many requests
\* present one token at once (auth.service.ts, refresh: SELECT ... FOR UPDATE).
THEOREM RotationIsLinear == Spec => []OneLiveTokenPerFamily
<1>1. IInv => OneLiveTokenPerFamily
  BY DEF IInv
<1> QED
  BY <1>1, Invariance, PTL

\* A family that is over stays over: what was in flight when its tokens were
\* revoked adds none (auth.service.ts, refresh and revokeFamily).
THEOREM RevocationIsFinal == Spec => DeadFamiliesStayDead
<1> DEFINE Over(f) == Family(f) # {} /\ Unrevoked(f) = {}
           Kept(f) == Family(f)' = Family(f) /\ Unrevoked(f)' = {}
<1>1. ASSUME IInv, [Next]_vars, NEW f \in TokenIds, Over(f) PROVE Kept(f)
  <2>1. \A t \in TokenIds : tokens[t].family = f => t \in Issued
    BY FamiliesAreIssued, <1>1
  <2>2. f \in Issued
    BY <1>1, <2>1 DEF Family, IInv
  <2>3. ASSUME NEW t \in TokenIds, tokens'[t].family = f PROVE tokens[t].family = f
    <3>1. CASE t \in Issued
      BY <1>1, <2>3, <3>1, RowsWither
    <3>2. CASE t \in Unissued
      <4>1. tokens'[t] # NoToken
        BY <2>3, FamiliesAreNumbered
      <4>2. f = t \/ Unrevoked(f) # {}
        BY <1>1, <2>3, <3>2, <4>1, NewTokensSucceed
      <4> QED
        BY <1>1, <2>2, <3>2, <4>2 DEF Issued
    <3> QED
      BY <3>1, <3>2 DEF Issued
  <2>4. ASSUME NEW t \in TokenIds, tokens[t].family = f
        PROVE  tokens'[t].family = f /\ tokens'[t].revoked
    <3>1. tokens[t].revoked
      BY <1>1, <2>4 DEF Unrevoked, Family
    <3> QED
      BY <1>1, <2>1, <2>4, <3>1, RowsWither
  <2> QED
    BY <2>3, <2>4 DEF Family, Unrevoked
<1>2. IInv /\ [Next]_vars => [\A f \in TokenIds : Over(f) => Kept(f)]_vars
  BY <1>1
<1> QED
  BY <1>2, Invariance, PTL DEF Spec, DeadFamiliesStayDead

\* A reuse that was detected is punished although its caller gets an error: unless
\* it was a victim of a wait cycle, all that the login had been issued by then is
\* revoked; and what is spent or revoked stays so (auth.service.ts, refresh).
THEOREM ReuseIsAlwaysPunished == Spec => ReuseIsPunished
<1> DEFINE Done(c) == Revoking(c) /\ trx[c].token # 0 /\ ~ Revoking(c)'
           Punished(c) == \/ InWaitCycle(c)
                          \/ \A t \in issued[c] :
                               tokens[t].family = tokens[trx[c].token].family =>
                                 tokens'[t].revoked
           Kept == \A t \in TokenIds \ Unissued :
                     /\ tokens[t].used => tokens'[t].used
                     /\ tokens[t].revoked => tokens'[t].revoked
<1>1. ASSUME IInv, [Next]_vars PROVE Kept
  BY <1>1, RowsWither DEF Issued
<1>2. ASSUME IInv, ListsInv, [Next]_vars, NEW c \in Clients, Done(c) PROVE Punished(c)
  <2>1. CASE CommitRevocation(c)
    <3>1. ASSUME NEW t \in issued[c], tokens[t].family = tokens[trx[c].token].family
          PROVE  tokens'[t].revoked
      <4>1. t \in Issued /\ (t \in trx[c].victims \/ tokens[t].revoked)
        BY <1>2, <3>1 DEF ListsInv, Listed
      <4>2. t \in TokenIds /\ tokens[t] \in Token
        BY <1>2, <4>1 DEF IInv, Typed, Issued, Unissued
      <4>3. CASE t \in trx[c].victims
        <5>1. tokens'[t] = [tokens[t] EXCEPT !.revoked = TRUE]
          BY <2>1, <4>2, <4>3 DEF CommitRevocation
        <5> QED
          BY <4>2, <5>1 DEF Token
      <4>4. CASE tokens[t].revoked
        BY <1>2, <4>1, <4>4, RowsWither
      <4> QED
        BY <4>1, <4>3, <4>4
    <3> QED
      BY <3>1
  <2>2. CASE AbortDeadlock(c)
    BY <2>2 DEF AbortDeadlock
  <2> QED
    BY <1>2, <2>1, <2>2, RevokingStep DEF Revoking
<1>3. IInv /\ ListsInv /\ [Next]_vars => [(\A c \in Clients : Done(c) => Punished(c)) /\ Kept]_vars
  BY <1>1, <1>2
<1> QED
  BY <1>3, Invariance, ListsAreComplete, PTL DEF Spec, ReuseIsPunished

=============================================================================
