-------------------------------- MODULE Rules --------------------------------
(***************************************************************************)
(* The rules of the two games, as packages/contracts computes them for the *)
(* server and its clients alike: the crash curve and the search that       *)
(* inverts it, the crash point and the pocket a hash stands for, the wheel *)
(* and its odds, and the hash chain that outcomes are drawn from.          *)
(*                                                                         *)
(* TLC's integers have 32 bits: the growth of the curve, its length and    *)
(* the entropy taken from a hash are parameters.  RoundBook and Betting    *)
(* take from here what they assume of Curve, Covers and Odds.              *)
(***************************************************************************)
EXTENDS Money, FiniteSets, FiniteSetsExt, Functions

CONSTANTS
  GrowthNumerator, GrowthDenominator,  \* growth per tick; 101 and 100
  MaxTicks,       \* bound of the curve, MAX_TICKS; 694
  TickMs,         \* TICK_MS; 100
  BustDivisor,    \* INSTANT_BUST_DIVISOR; 101
  EntropySpace,   \* ENTROPY_SPACE; 2^52
  Hashes, Sha256, \* the values a seed can take, and their hashes
  ChainSize       \* bound: length of the longest chain looked at

ASSUME GrowthAssumption ==
  /\ GrowthDenominator \in Nat \ {0}
  /\ GrowthNumerator \in Nat
  /\ GrowthNumerator > GrowthDenominator

ASSUME RulesAssumption ==
  /\ MaxTicks \in Nat \ {0} /\ TickMs \in Nat \ {0}
  /\ BustDivisor \in Nat \ {0} /\ EntropySpace \in Nat \ {0}
  /\ Sha256 \in [Hashes -> Hashes]
  /\ ChainSize \in Nat \ {0}

\* step is a function from values to values: what start becomes in n of them.
Iterate(step, start, n) ==
  LET after[k \in Nat] == IF k = 0 THEN start ELSE step[after[k - 1]]
  IN after[n]

-----------------------------------------------------------------------------
(* the crash curve *)

Power(base, exponent) == Iterate([x \in Nat |-> x * base], 1, exponent)

\* One floor at the end, not one per tick.
MultiplierAtTick(tick) ==
  LET capped == Min({tick, MaxTicks})
  IN (BasisPointsOne * Power(GrowthNumerator, capped)) \div Power(GrowthDenominator, capped)

CrashCurve == [tick \in 0..MaxTicks |-> MultiplierAtTick(tick)]
MaxMultiplier == CrashCurve[MaxTicks]

TickAtElapsed(ms) == IF ms < 0 THEN 0 ELSE ms \div TickMs
MultiplierAtElapsed(ms) == CrashCurve[Min({TickAtElapsed(ms), MaxTicks})]

\* Mutation of Narrow: the tick in the middle is given up although it may be
\* the one that is looked for.
NarrowTooFar(curve, bp, range) ==
  LET mid == (range[1] + range[2]) \div 2
  IN IF curve[mid] > bp THEN <<range[1], mid>> ELSE <<mid + 1, range[2]>>

\* One round of the binary search for the first tick that shows bp.
Narrow(curve, bp, range) ==
  LET mid == (range[1] + range[2]) \div 2
  IN IF curve[mid] >= bp THEN <<range[1], mid>> ELSE <<mid + 1, range[2]>>

Search(bp) ==
  LET found[range \in (0..MaxTicks) \X (0..MaxTicks)] ==
        IF range[1] < range[2] THEN found[Narrow(CrashCurve, bp, range)] ELSE range[1]
  IN found[<<0, MaxTicks>>]

ElapsedAtMultiplier(bp) ==
  IF bp =< BasisPointsOne THEN 0 ELSE Search(bp) * TickMs

-----------------------------------------------------------------------------
(* outcomes drawn from a hash: what is left of it is a bust roll and entropy *)

\* Mutation of CrashPointFromHash: the instant busts are left out.
CrashPointWithoutBust(bustRoll, entropy) ==
  LET raw == (100 * EntropySpace - entropy) \div (EntropySpace - entropy)
  IN Min({raw * 100, MaxMultiplier})

CrashPointFromHash(bustRoll, entropy) ==
  LET raw == (100 * EntropySpace - entropy) \div (EntropySpace - entropy)
  IN IF bustRoll % BustDivisor = 0 THEN BasisPointsOne
     ELSE Min({Max({raw * (BasisPointsOne \div 100), BasisPointsOne}),
               MaxMultiplier})

PocketCount == 37

ASSUME EntropyAssumption == EntropySpace >= PocketCount

Wheel == 0..(PocketCount - 1)

RoulettePocketFromHash(entropy) == entropy % PocketCount

-----------------------------------------------------------------------------
(* the wheel *)

\* Mutation of RedPockets: a black pocket printed red, a red one black.
RedPocketsMisprinted ==
  {1, 3, 5, 7, 10, 12, 14, 16, 18, 19, 21, 23, 25, 27, 30, 32, 34, 36}

RedPockets == {1, 3, 5, 7, 9, 12, 14, 16, 18, 19, 21, 23, 25, 27, 30, 32, 34, 36}
BlackPockets == {2, 4, 6, 8, 10, 11, 13, 15, 17, 20, 22, 24, 26, 28, 29, 31, 33, 35}

PocketColour(pocket) ==
  IF pocket = 0 THEN "green"
  ELSE IF pocket \in RedPockets THEN "red" ELSE "black"

BetTypes == {"STRAIGHT", "RED", "BLACK", "ODD", "EVEN", "LOW", "HIGH", "DOZEN", "COLUMN"}

RouletteOdds ==
  [type \in BetTypes |->
     BasisPointsOne * (CASE type = "STRAIGHT" -> 36
                         [] type \in {"DOZEN", "COLUMN"} -> 3
                         [] OTHER -> 2)]

NoValue == -1    \* the selection names no number

ValidSelection(s) ==
  /\ s.type \in BetTypes
  /\ CASE s.type = "STRAIGHT" -> s.value \in Wheel
       [] s.type \in {"DOZEN", "COLUMN"} -> s.value \in 1..3
       [] OTHER -> s.value = NoValue

\* priceSelection: the odds the bet is stored with, or the reason it is refused.
PriceSelection(game, s) ==
  CASE game = "CRASH" /\ s.type = "NONE" -> [odds |-> 0]
    [] game = "ROULETTE" /\ ValidSelection(s) -> [odds |-> RouletteOdds[s.type]]
    [] OTHER -> [refused |-> "INVALID_SELECTION"]

\* Mutation of EvenWins: zero counts as an even number.
ZeroIsEven(pocket) == pocket % 2 = 0

EvenWins(pocket) == pocket # 0 /\ pocket % 2 = 0

\* Zero wins straight up only.
SelectionWins(s, pocket) ==
  CASE s.type = "STRAIGHT" -> pocket = s.value
    [] s.type = "RED"    -> PocketColour(pocket) = "red"
    [] s.type = "BLACK"  -> PocketColour(pocket) = "black"
    [] s.type = "ODD"    -> pocket # 0 /\ pocket % 2 = 1
    [] s.type = "EVEN"   -> EvenWins(pocket)
    [] s.type = "LOW"    -> pocket \in 1..18
    [] s.type = "HIGH"   -> pocket \in 19..36
    [] s.type = "DOZEN"  -> pocket # 0 /\ (pocket + 11) \div 12 = s.value
    [] s.type = "COLUMN" -> pocket # 0 /\ ((pocket - 1) % 3) + 1 = s.value

SettleSelection(s, pocket) ==
  IF SelectionWins(s, pocket) THEN RouletteOdds[s.type] ELSE 0

-----------------------------------------------------------------------------
(* the hash chain: s[i] = sha256(s[i+1]), and s[0] is published first *)

Hashed(seed, steps) == Iterate(Sha256, seed, steps)

\* Hashing on does not lead back to the seed it began with, not within a chain.
ASSUME NoShortCycle ==
  \A seed \in Hashes : \A steps \in 1..(ChainSize - 1) : Hashed(seed, steps) # seed

\* Mutation of DeriveChainSeed: one hash too many.
DeriveNextSeed(terminal, length, index) == Hashed(terminal, length - index + 1)

DeriveChainSeed(terminal, length, index) == Hashed(terminal, length - index)

VerifyChainProof(seed, index, genesis) == Hashed(seed, index) = genesis

-----------------------------------------------------------------------------
(* properties *)

\* The engine resolves a round once elapsed >= elapsedAtMultiplier(crash point);
\* a cash-out is refused once multiplierAtElapsed(elapsed) >= crash point.  Both
\* change at the same millisecond, so no cash-out is paid in a round that was
\* over, and none is refused in one that was not.
ResolutionAgreesWithCashOut ==
  \A tick \in 0..MaxTicks :
    \A bp \in (CrashCurve[tick] - 1)..(CrashCurve[tick] + 1) :
      \A ms \in 0..((MaxTicks + 1) * TickMs) :
        bp \in 0..MaxMultiplier =>
          (ms >= ElapsedAtMultiplier(bp) <=> MultiplierAtElapsed(ms) >= bp)

\* Whatever fixed multiplier a player waits for, what comes back over all hashes
\* is less than the stakes by the share of instant busts, at least; and no round
\* crashes below 1.00x or above the curve.
NoTargetBeatsTheHouse ==
  LET hashes == (0..BustDivisor - 1) \X (0..EntropySpace - 1)
      points == [h \in hashes |-> CrashPointFromHash(h[1], h[2])]
  IN /\ \A h \in hashes : points[h] \in BasisPointsOne..MaxMultiplier
     /\ \A bp \in {CrashCurve[t] : t \in 0..MaxTicks} \cup {points[h] : h \in hashes} :
          Cardinality({h \in hashes : points[h] > bp}) * bp
            =< (BustDivisor - 1) * EntropySpace * BasisPointsOne

\* What players are told of the table: every bet a round accepts, whatever it
\* backs, pays back 36 of the 37 stakes it takes to cover the wheel with it.
EveryBetHasTheSameEdge ==
  \A s \in [type : BetTypes \cup {"NONE"}, value : Wheel \cup {NoValue, PocketCount}] :
    LET price == PriceSelection("ROULETTE", s)
    IN "odds" \in DOMAIN price =>
         SumFunction([pocket \in Wheel |-> SettleSelection(s, pocket)])
           = (PocketCount - 1) * BasisPointsOne

\* Each way of cutting the table - by colour, parity, half, dozen, column - puts
\* every pocket but zero in exactly one piece, and each pocket can be drawn.
CutsCoverTheWheel ==
  LET wins(type, value) ==
        {pocket \in Wheel : SelectionWins([type |-> type, value |-> value], pocket)}
      cut(A) == UNION A = Wheel \ {0}
                /\ \A p, q \in A : p = q \/ p \cap q = {}
  IN /\ cut({wins("RED", NoValue), wins("BLACK", NoValue)})
     /\ wins("BLACK", NoValue) = BlackPockets
     /\ cut({wins("ODD", NoValue), wins("EVEN", NoValue)})
     /\ cut({wins("LOW", NoValue), wins("HIGH", NoValue)})
     /\ cut({wins("DOZEN", n) : n \in 1..3})
     /\ cut({wins("COLUMN", n) : n \in 1..3})
     /\ {RoulettePocketFromHash(e) : e \in 0..EntropySpace - 1} = Wheel

\* The seed drawn for a position verifies against the published commitment, at
\* that position and at no other, and hashes to the seed of the round before it.
SeedsVerifyInPlace ==
  \A terminal \in Hashes, length \in 1..ChainSize :
    LET genesis == Hashed(terminal, length)
        seed(index) == DeriveChainSeed(terminal, length, index)
    IN /\ \A i, j \in 1..length : VerifyChainProof(seed(i), j, genesis) <=> i = j
       /\ \A i \in 2..length : Sha256[seed(i)] = seed(i - 1)

=============================================================================
