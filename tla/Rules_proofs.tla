----------------------------- MODULE Rules_proofs -----------------------------
(***************************************************************************)
(* What the rules compute, for every growth and length of the curve, every *)
(* number of hashes and every stake: flooring a payout never costs the     *)
(* house, a round is resolved when cash-outs end, no bet beats the house,  *)
(* the table is cut as it is labelled, a seed proves its own position.     *)
(***************************************************************************)
EXTENDS MCRoundBook, Data_proofs

-----------------------------------------------------------------------------
(* payouts *)

\* Flooring two numbers loses less than one unit more than flooring their sum.
LEMMA FloorOfSum ==
  ASSUME NEW x \in Nat, NEW y \in Nat
  PROVE  (x + y) \div 10000 - ((x \div 10000) + (y \div 10000)) \in {0, 1}
  OBVIOUS

\* applyBasisPoints: a stake cut into two bets is never paid more than the whole,
\* and at most one minor unit less, whatever the stakes and the multiplier.
THEOREM CutStakesPayNoMore ==
  ASSUME NEW a \in Nat, NEW b \in Nat, NEW bp \in Nat
  PROVE  Payout(a + b, bp) - (Payout(a, bp) + Payout(b, bp)) \in {0, 1}
<1> DEFINE x == a * bp
           y == b * bp
<1>1. x \in Nat /\ y \in Nat
  BY SMT
<1>2. (a + b) * bp = x + y
  BY SMT
<1>3. (x + y) \div 10000 - ((x \div 10000) + (y \div 10000)) \in {0, 1}
  <2> HIDE DEF x, y
  <2> QED BY <1>1, FloorOfSum
<1> QED
  BY <1>2, <1>3 DEF Payout, BasisPointsOne

-----------------------------------------------------------------------------
(* powers *)

\* What a value becomes in no step, and in one more.
LEMMA IterateSteps ==
  ASSUME NEW step, NEW start
  PROVE  /\ Iterate(step, start, 0) = start
         /\ \A n \in Nat : Iterate(step, start, n + 1) = step[Iterate(step, start, n)]
<1> DEFINE it == CHOOSE it : IsIteration(it, step, start)
<1>1. IsIteration(it, step, start)
  BY IterationExists
<1>2. \A n : Iterate(step, start, n) = it[n]
  BY DEF Iterate, IsIteration
<1> HIDE DEF it
<1>3. it[0] = start
  BY <1>1 DEF IsIteration
<1>4. ASSUME NEW n \in Nat PROVE it[n + 1] = step[it[n]]
  <2>1. n + 1 \in Nat /\ n + 1 # 0 /\ (n + 1) - 1 = n
    OBVIOUS
  <2> QED
    BY <1>1, <2>1 DEF IsIteration
<1> QED
  BY <1>2, <1>3, <1>4

\* Powers of a positive base are positive, and each is base times the last.
LEMMA Powers ==
  ASSUME NEW base \in Nat \ {0}
  PROVE  /\ Power(base, 0) = 1
         /\ \A n \in Nat : /\ Power(base, n) \in Nat \ {0}
                          /\ Power(base, n + 1) = Power(base, n) * base
<1> DEFINE step == [x \in Nat |-> x * base]
           T == {n \in Nat : Power(base, n) \in Nat \ {0}}
<1>1. Power(base, 0) = 1
  BY IterateSteps DEF Power
<1>2. ASSUME NEW n \in Nat PROVE Power(base, n + 1) = step[Power(base, n)]
  <2>1. \A m : Power(base, m) = Iterate(step, 1, m)
    BY DEF Power
  <2> HIDE DEF step
  <2> QED
    BY <2>1, IterateSteps
<1>3. \A x \in Nat \ {0} : step[x] = x * base /\ step[x] \in Nat \ {0}
  BY SMT
<1> HIDE DEF step
<1>4. 0 \in T
  BY <1>1
<1>5. ASSUME NEW n \in Nat, n \in T PROVE n + 1 \in T
  BY <1>2, <1>3, <1>5
<1>6. \A n \in Nat : n \in T
  <2> HIDE DEF T
  <2> QED
    BY <1>4, <1>5, StepByStep
<1> QED
  BY <1>1, <1>2, <1>3, <1>6

-----------------------------------------------------------------------------
(* the curve *)

\* A quotient is at least what fits.
LEMMA QuotientAtLeast ==
  ASSUME NEW x \in Nat, NEW y \in Nat \ {0}, NEW q \in Nat, q * y =< x
  PROVE  q =< x \div y
<1> DEFINE d == x \div y
           r == x % y
<1>1. d \in Nat /\ r \in 0..(y - 1) /\ x = y * d + r
  BY SMT
<1> HIDE DEF d, r
<1>2. CASE d < q
  <2>1. d + 1 =< q
    BY <1>1, <1>2
  <2>2. (d + 1) * y =< q * y
    BY <1>1, <2>1, SMT
  <2>3. (d + 1) * y = y * d + y
    BY <1>1, SMT
  <2>4. y * d \in Int /\ q * y \in Int
    BY <1>1, SMT
  <2> QED
    BY <1>1, <2>2, <2>3, <2>4
<1>3. CASE q =< d
  BY <1>3 DEF d
<1> QED
  BY <1>1, <1>2, <1>3

\* and not more than what is there.
LEMMA QuotientFits ==
  ASSUME NEW x \in Nat, NEW y \in Nat \ {0}
  PROVE  x \div y \in Nat /\ (x \div y) * y =< x
BY SMT

\* A numerator that grows at least as its denominator does leaves the floor
\* where it was, or raises it.
LEMMA FloorRises ==
  ASSUME NEW a \in Nat, NEW d \in Nat \ {0},
         NEW num \in Nat, NEW den \in Nat \ {0}, num > den
  PROVE  a \div d =< (a * num) \div (d * den)
<1> DEFINE q == a \div d
<1>1. q \in Nat /\ q * d =< a
  BY QuotientFits
<1> HIDE DEF q
<1>2. q * d \in Nat /\ a * num \in Nat /\ d * den \in Nat \ {0} /\ a * den \in Nat
  BY <1>1, SMT
<1>3. (q * d) * den =< a * den
  BY <1>1, <1>2, SMT
<1>4. a * den =< a * num
  BY SMT
<1>5. q * (d * den) = (q * d) * den
  BY <1>1, SMT
<1>6. q * (d * den) =< a * num
  <2>1. (q * d) * den \in Int
    BY <1>2, SMT
  <2> QED
    BY <1>2, <1>3, <1>4, <1>5, <2>1
<1>7. q =< (a * num) \div (d * den)
  BY <1>1, <1>2, <1>6, QuotientAtLeast
<1> QED
  BY <1>7 DEF q

LEMMA LesserOfTwo ==
  ASSUME NEW a \in Nat, NEW b \in Nat
  PROVE  Min({a, b}) = IF a =< b THEN a ELSE b
<1>1. Min({a, b}) \in {a, b} /\ \A x \in {a, b} : Min({a, b}) =< x
  BY MinIsLeast
<1> HIDE DEF Min
<1> QED
  BY <1>1

LEMMA GreaterOfTwo ==
  ASSUME NEW a \in Nat, NEW b \in Nat
  PROVE  Max({a, b}) = IF a >= b THEN a ELSE b
<1>1. {a, b} \subseteq 0..(a + b) /\ {a, b} # {} /\ a + b \in Nat
  OBVIOUS
<1>2. Max({a, b}) \in {a, b} /\ \A x \in {a, b} : Max({a, b}) >= x
  BY <1>1, MaxIsGreatest
<1> QED
  BY <1>2

\* The curve at a tick it reaches.
LEMMA CurveAtTick ==
  ASSUME NEW t \in 0..MaxTicks
  PROVE  /\ CrashCurve[t] = (BasisPointsOne * Power(GrowthNumerator, t))
                             \div Power(GrowthDenominator, t)
         /\ CrashCurve[t] \in Nat
<1>1. MaxTicks \in Nat /\ t \in Nat /\ t =< MaxTicks
  BY RulesAssumption
<1>2. Min({t, MaxTicks}) = t
  BY <1>1, LesserOfTwo
<1>3. CrashCurve[t] = MultiplierAtTick(t)
  BY DEF CrashCurve
<1>4. GrowthNumerator \in Nat \ {0} /\ GrowthDenominator \in Nat \ {0}
  BY GrowthAssumption
<1>5. Power(GrowthNumerator, t) \in Nat /\ Power(GrowthDenominator, t) \in Nat \ {0}
  BY <1>1, <1>4, Powers
<1>6. BasisPointsOne * Power(GrowthNumerator, t) \in Nat
  BY <1>5, SMT DEF BasisPointsOne
<1> QED
  BY <1>2, <1>3, <1>5, <1>6, QuotientFits DEF MultiplierAtTick

\* multiplierAtTick: the curve starts at 1.00x and never falls, whatever the
\* growth.  This is what Tables, and with it RoundBook and Betting, assume of it.
THEOREM CurveRises ==
  /\ CrashCurve \in [0..MaxTicks -> Nat]
  /\ CrashCurve[0] = BasisPointsOne
  /\ \A s, t \in 0..MaxTicks : s =< t => CrashCurve[s] =< CrashCurve[t]
<1>1. CrashCurve \in [0..MaxTicks -> Nat]
  <2>1. CrashCurve = [t \in 0..MaxTicks |-> CrashCurve[t]]
    BY DEF CrashCurve
  <2> QED
    BY <2>1, CurveAtTick
<1>2. GrowthNumerator \in Nat \ {0} /\ GrowthDenominator \in Nat \ {0}
      /\ GrowthNumerator > GrowthDenominator /\ MaxTicks \in Nat
  BY GrowthAssumption, RulesAssumption
<1>3. CrashCurve[0] = BasisPointsOne
  <2>1. Power(GrowthNumerator, 0) = 1 /\ Power(GrowthDenominator, 0) = 1
    BY <1>2, Powers
  <2>2. CrashCurve[0] = (BasisPointsOne * 1) \div 1
    BY <1>2, <2>1, CurveAtTick
  <2> QED
    BY <2>2 DEF BasisPointsOne
<1>4. ASSUME NEW t \in 0..MaxTicks, t + 1 \in 0..MaxTicks
      PROVE  CrashCurve[t] =< CrashCurve[t + 1]
  <2> DEFINE a == BasisPointsOne * Power(GrowthNumerator, t)
             d == Power(GrowthDenominator, t)
  <2>1. t \in Nat /\ Power(GrowthNumerator, t) \in Nat /\ d \in Nat \ {0}
    <3>1. t \in Nat
      BY <1>2
    <3> QED
      BY <1>2, <3>1, Powers
  <2>2. a \in Nat
    BY <2>1, SMT DEF BasisPointsOne
  <2>3. BasisPointsOne * Power(GrowthNumerator, t + 1) = a * GrowthNumerator
    <3>1. Power(GrowthNumerator, t + 1) = Power(GrowthNumerator, t) * GrowthNumerator
      BY <1>2, <2>1, Powers
    <3> QED
      <4>1. \A x, g \in Nat : BasisPointsOne * (x * g) = (BasisPointsOne * x) * g
        BY SMT DEF BasisPointsOne
      <4> QED
        BY <1>2, <2>1, <3>1, <4>1
  <2>4. Power(GrowthDenominator, t + 1) = d * GrowthDenominator
    BY <1>2, <2>1, Powers
  <2> HIDE DEF a, d
  <2>5. a \div d =< (a * GrowthNumerator) \div (d * GrowthDenominator)
    BY <1>2, <2>1, <2>2, FloorRises
  <2>6. CrashCurve[t] = a \div d
    BY CurveAtTick DEF a, d
  <2>7. CrashCurve[t + 1] = (a * GrowthNumerator) \div (d * GrowthDenominator)
    BY <1>4, <2>3, <2>4, CurveAtTick
  <2> QED
    BY <2>5, <2>6, <2>7
<1> DEFINE T == {k \in Nat : \A s \in 0..MaxTicks :
                   s + k \in 0..MaxTicks => CrashCurve[s] =< CrashCurve[s + k]}
<1>5. 0 \in T
  <2>1. \A s \in 0..MaxTicks : s + 0 = s /\ CrashCurve[s] =< CrashCurve[s]
    BY <1>1
  <2> QED
    BY <2>1
<1>6. ASSUME NEW k \in Nat, k \in T PROVE k + 1 \in T
  <2> SUFFICES ASSUME NEW s \in 0..MaxTicks, s + (k + 1) \in 0..MaxTicks
               PROVE  CrashCurve[s] =< CrashCurve[s + (k + 1)]
    OBVIOUS
  <2>1. s + k \in 0..MaxTicks /\ (s + k) + 1 = s + (k + 1)
    BY <1>2
  <2>2. CrashCurve[s] =< CrashCurve[s + k]
    BY <1>6, <2>1
  <2>3. CrashCurve[s + k] =< CrashCurve[s + (k + 1)]
    BY <1>4, <2>1
  <2>4. /\ CrashCurve[s] \in Nat /\ CrashCurve[s + k] \in Nat
        /\ CrashCurve[s + (k + 1)] \in Nat
    BY <1>1, <2>1
  <2> QED
    BY <2>2, <2>3, <2>4
<1>7. \A k \in Nat : k \in T
  <2> HIDE DEF T
  <2> QED
    BY <1>5, <1>6, StepByStep
<1>8. ASSUME NEW s \in 0..MaxTicks, NEW t \in 0..MaxTicks, s =< t
      PROVE  CrashCurve[s] =< CrashCurve[t]
  <2>1. t - s \in Nat /\ s + (t - s) = t
    BY <1>2, <1>8
  <2>2. t - s \in T
    BY <1>7, <2>1
  <2> QED
    BY <2>1, <2>2
<1> QED
  BY <1>1, <1>3, <1>8

-----------------------------------------------------------------------------
(* the search *)

\* range still holds the first tick of the curve that shows bp.
HoldsFirst(curve, ticks, bp, range) ==
  /\ range \in (0..ticks) \X (0..ticks)
  /\ range[1] =< range[2]
  /\ \A t \in 0..ticks : t < range[1] => curve[t] < bp
  /\ curve[range[2]] >= bp

\* elapsedAtMultiplier: on any monotonic curve, a round of the search keeps the
\* first tick that shows bp between its bounds and brings the bounds closer, so
\* the search ends, and ends on that tick.
THEOREM SearchClosesIn ==
  ASSUME NEW ticks \in Nat, NEW bp \in Nat,
         NEW curve \in [0..ticks -> Nat],
         \A s, t \in 0..ticks : s =< t => curve[s] =< curve[t],
         NEW range, HoldsFirst(curve, ticks, bp, range), range[1] < range[2]
  PROVE  LET next == Narrow(curve, bp, range)
         IN /\ HoldsFirst(curve, ticks, bp, next)
            /\ next[2] - next[1] < range[2] - range[1]
<1> DEFINE mid == (range[1] + range[2]) \div 2
           next == Narrow(curve, bp, range)
<1>1. range[1] \in 0..ticks /\ range[2] \in 0..ticks
  BY DEF HoldsFirst
<1>2. mid \in 0..ticks /\ range[1] =< mid /\ mid < range[2]
  <2>1. \A m, n \in Nat : m < n => /\ (m + n) \div 2 \in Nat
                                   /\ m =< (m + n) \div 2 /\ (m + n) \div 2 < n
    BY SMT
  <2>2. range[1] \in Nat /\ range[2] \in Nat
    BY <1>1
  <2>3. mid \in Nat /\ range[1] =< mid /\ mid < range[2]
    BY <2>1, <2>2
  <2> HIDE DEF mid
  <2> QED
    BY <1>1, <2>3
<1>0. next = IF curve[mid] >= bp THEN <<range[1], mid>> ELSE <<mid + 1, range[2]>>
  BY DEF Narrow
<1> SUFFICES HoldsFirst(curve, ticks, bp, next) /\ next[2] - next[1] < range[2] - range[1]
  BY Zenon
<1> HIDE DEF mid, next
<1>3. CASE curve[mid] >= bp
  <2>1. next = <<range[1], mid>>
    BY <1>3, <1>0
  <2>2. HoldsFirst(curve, ticks, bp, <<range[1], mid>>)
    BY <1>1, <1>2, <1>3 DEF HoldsFirst
  <2>3. mid - range[1] < range[2] - range[1]
    BY <1>1, <1>2
  <2>4. next[1] = range[1] /\ next[2] = mid
    BY <2>1
  <2> QED
    BY <2>1, <2>2, <2>3, <2>4
<1>4. CASE ~ (curve[mid] >= bp)
  <2>1. next = <<mid + 1, range[2]>>
    BY <1>4, <1>0
  <2>2. \A t \in 0..ticks : t < mid + 1 => curve[t] < bp
    BY <1>2, <1>4
  <2>3. HoldsFirst(curve, ticks, bp, <<mid + 1, range[2]>>)
    <3>1. curve[range[2]] >= bp /\ mid + 1 \in 0..ticks /\ mid + 1 =< range[2]
      BY <1>1, <1>2 DEF HoldsFirst
    <3> QED BY <2>2, <3>1, <1>1 DEF HoldsFirst
  <2>4. range[2] - (mid + 1) < range[2] - range[1]
    <3>1. \A i, j, k \in Int : i =< j => k - (j + 1) < k - i
      OBVIOUS
    <3>2. range[1] \in Int /\ range[2] \in Int /\ mid \in Int
      BY <1>1, <1>2
    <3> QED
      BY <1>2, <3>1, <3>2
  <2>5. next[1] = mid + 1 /\ next[2] = range[2]
    BY <2>1
  <2> QED
    BY <2>1, <2>3, <2>4, <2>5
<1> QED
  BY <1>3, <1>4

\* When the bounds meet, the search has found the first tick that shows bp.
THEOREM SearchEndsOnFirst ==
  ASSUME NEW ticks \in Nat, NEW bp \in Nat,
         NEW curve \in [0..ticks -> Nat],
         NEW range, HoldsFirst(curve, ticks, bp, range), range[1] = range[2]
  PROVE  /\ curve[range[1]] >= bp
         /\ \A t \in 0..ticks : curve[t] >= bp => range[1] =< t
  BY DEF HoldsFirst

\* The loop from every range of ticks: a function that calls itself.
IsSearch(f, bp) ==
  f = [range \in (0..MaxTicks) \X (0..MaxTicks) |->
         IF range[1] < range[2] THEN f[Narrow(CrashCurve, bp, range)] ELSE range[1]]

\* A round of the search brings the bounds closer, on any curve.
LEMMA NarrowIsNarrower ==
  ASSUME NEW bp, NEW range \in (0..MaxTicks) \X (0..MaxTicks), range[1] < range[2]
  PROVE  LET next == Narrow(CrashCurve, bp, range)
         IN /\ next \in (0..MaxTicks) \X (0..MaxTicks)
            /\ next[1] =< next[2]
            /\ next[2] - next[1] < range[2] - range[1]
<1> DEFINE next == Narrow(CrashCurve, bp, range)
           mid == (range[1] + range[2]) \div 2
<1> SUFFICES /\ next \in (0..MaxTicks) \X (0..MaxTicks)
             /\ next[1] =< next[2]
             /\ next[2] - next[1] < range[2] - range[1]
  BY Zenon
<1>1. /\ range[1] \in Nat /\ range[2] \in Nat /\ range[2] =< MaxTicks
      /\ range[1] \in 0..MaxTicks /\ range[2] \in 0..MaxTicks /\ MaxTicks \in Nat
  BY RulesAssumption
<1>2. \A m, n \in Nat : m < n => /\ (m + n) \div 2 \in Nat
                                 /\ m =< (m + n) \div 2 /\ (m + n) \div 2 < n
  BY SMT
<1>3. mid \in Nat /\ range[1] =< mid /\ mid < range[2]
  BY <1>1, <1>2
<1>4. next = <<range[1], mid>> \/ next = <<mid + 1, range[2]>>
  BY DEF Narrow
<1> HIDE DEF next, mid
<1>5. CASE next = <<range[1], mid>>
  <2>1. mid \in 0..MaxTicks
    BY <1>1, <1>3
  <2>2. next[1] = range[1] /\ next[2] = mid
    BY <1>5
  <2>3. next \in (0..MaxTicks) \X (0..MaxTicks)
    BY <1>1, <1>5, <2>1
  <2> QED
    BY <1>1, <1>3, <2>2, <2>3
<1>6. CASE next = <<mid + 1, range[2]>>
  <2>1. mid + 1 \in 0..MaxTicks
    BY <1>1, <1>3
  <2>2. next[1] = mid + 1 /\ next[2] = range[2]
    BY <1>6
  <2>3. next \in (0..MaxTicks) \X (0..MaxTicks)
    BY <1>1, <1>6, <2>1
  <2> QED
    BY <1>1, <1>3, <2>2, <2>3
<1> QED
  BY <1>4, <1>5, <1>6

LEMMA SearchExists ==
  ASSUME NEW bp
  PROVE  \E f : IsSearch(f, bp)
<1> DEFINE D == (0..MaxTicks) \X (0..MaxTicks)
           M == {range \in D : range[1] < range[2]}
           next == [range \in D |-> Narrow(CrashCurve, bp, range)]
           result == [range \in D |-> range[1]]
           width == [range \in D |-> IF range[1] < range[2] THEN range[2] - range[1] ELSE 0]
<1>1. MaxTicks \in Nat
  BY RulesAssumption
<1>2. \A range \in D : range[1] \in 0..MaxTicks /\ range[2] \in 0..MaxTicks
  OBVIOUS
<1>3. width \in [D -> 0..MaxTicks]
  <2>1. ASSUME NEW range \in D
        PROVE  (IF range[1] < range[2] THEN range[2] - range[1] ELSE 0) \in 0..MaxTicks
    <3>1. range[1] \in 0..MaxTicks /\ range[2] \in 0..MaxTicks
      BY <1>2
    <3> HIDE DEF D
    <3> QED
      BY <1>1, <3>1
  <2> QED
    BY <2>1
<1>4. ASSUME NEW range \in D, range \in M
      PROVE  next[range] \in D /\ width[next[range]] < width[range]
  <2> DEFINE n == Narrow(CrashCurve, bp, range)
  <2>1. range[1] < range[2] /\ range[1] \in 0..MaxTicks /\ range[2] \in 0..MaxTicks
    BY <1>2, <1>4
  <2>2. n \in D /\ n[1] =< n[2] /\ n[2] - n[1] < range[2] - range[1]
    BY <2>1, NarrowIsNarrower
  <2>3. n[1] \in 0..MaxTicks /\ n[2] \in 0..MaxTicks
    BY <1>2, <2>2
  <2>4. next[range] = n
    OBVIOUS
  <2> HIDE DEF n
  <2>5. width[range] = range[2] - range[1]
    BY <2>1
  <2>6. width[n] =< n[2] - n[1]
    <3>1. width[n] = IF n[1] < n[2] THEN n[2] - n[1] ELSE 0
      BY <2>2
    <3> HIDE DEF width
    <3> QED
      BY <1>1, <2>2, <2>3, <3>1
  <2>7. width[n] \in Int
    BY <1>3, <2>2
  <2> HIDE DEF width
  <2> QED
    BY <1>1, <2>1, <2>2, <2>3, <2>4, <2>5, <2>6, <2>7
<1>5. PICK f : IsLoop(f, D, M, next, result)
  <2> HIDE DEF D, M, next, result, width
  <2> QED
    BY <1>1, <1>3, <1>4, LoopExists
<1>6. f = [range \in D |-> IF range \in M THEN f[next[range]] ELSE result[range]]
  BY <1>5 DEF IsLoop
<1>7. f = [range \in D |->
             IF range[1] < range[2] THEN f[Narrow(CrashCurve, bp, range)] ELSE range[1]]
  BY <1>6
<1>8. IsSearch(f, bp)
  BY <1>7 DEF IsSearch
<1> QED
  BY <1>8

\* elapsedAtMultiplier: run until its bounds meet, the search finds the first tick
\* that shows bp: the curve shows it from there on, and nowhere before.
THEOREM SearchFindsFirst ==
  ASSUME NEW bp \in Nat, bp =< MaxMultiplier
  PROVE  /\ Search(bp) \in 0..MaxTicks
         /\ \A t \in 0..MaxTicks : CrashCurve[t] >= bp <=> t >= Search(bp)
<1> DEFINE D == (0..MaxTicks) \X (0..MaxTicks)
           f == CHOOSE f : IsSearch(f, bp)
           First(x) == /\ x \in 0..MaxTicks
                       /\ \A t \in 0..MaxTicks : CrashCurve[t] >= bp <=> t >= x
           T == {n \in Nat : \A range \in D :
                   HoldsFirst(CrashCurve, MaxTicks, bp, range) /\ range[2] - range[1] =< n
                     => First(f[range])}
<1>1. IsSearch(f, bp)
  BY SearchExists
<1>2. Search(bp) = f[<<0, MaxTicks>>]
  BY DEF Search, IsSearch
<1> HIDE DEF f
<1>3. ASSUME NEW range \in D
      PROVE  f[range] = IF range[1] < range[2] THEN f[Narrow(CrashCurve, bp, range)]
                        ELSE range[1]
  BY <1>1 DEF IsSearch
<1>4. /\ MaxTicks \in Nat /\ CrashCurve \in [0..MaxTicks -> Nat]
      /\ \A s, t \in 0..MaxTicks : s =< t => CrashCurve[s] =< CrashCurve[t]
  BY RulesAssumption, CurveRises
<1>5. ASSUME NEW range \in D, HoldsFirst(CrashCurve, MaxTicks, bp, range),
             ~ (range[1] < range[2])
      PROVE  First(f[range])
  <2>1. range[1] \in 0..MaxTicks /\ range[2] \in 0..MaxTicks /\ range[1] = range[2]
    BY <1>4, <1>5 DEF HoldsFirst
  <2>2. f[range] = range[1]
    BY <1>3, <1>5
  <2>3. /\ CrashCurve[range[1]] >= bp
        /\ \A t \in 0..MaxTicks : CrashCurve[t] >= bp => range[1] =< t
    BY <1>4, <1>5, <2>1, SearchEndsOnFirst
  <2> DEFINE x == range[1]
  <2>4. x \in 0..MaxTicks /\ CrashCurve[x] >= bp
        /\ \A t \in 0..MaxTicks : CrashCurve[t] >= bp => x =< t
    BY <2>1, <2>3
  <2> HIDE DEF x
  <2>5. ASSUME NEW t \in 0..MaxTicks PROVE CrashCurve[t] >= bp <=> t >= x
    <3>1. CrashCurve[t] \in Nat /\ CrashCurve[x] \in Nat
      BY <1>4, <2>4
    <3>2. x =< t => CrashCurve[x] =< CrashCurve[t]
      BY <1>4, <2>4
    <3> QED
      BY <1>4, <2>4, <3>1, <3>2
  <2>6. First(x)
    BY <2>4, <2>5
  <2> QED
    BY <2>2, <2>6 DEF x
<1>6. 0 \in T
  <2> SUFFICES ASSUME NEW range \in D, HoldsFirst(CrashCurve, MaxTicks, bp, range),
                      range[2] - range[1] =< 0
               PROVE  First(f[range])
    OBVIOUS
  <2>1. range[1] \in 0..MaxTicks /\ range[2] \in 0..MaxTicks
    OBVIOUS
  <2>2. ~ (range[1] < range[2])
    BY <2>1
  <2> HIDE DEF First, D
  <2> QED
    BY <1>5, <2>2
<1>7. ASSUME NEW n \in Nat, n \in T PROVE n + 1 \in T
  <2> SUFFICES ASSUME NEW range \in D, HoldsFirst(CrashCurve, MaxTicks, bp, range),
                      range[2] - range[1] =< n + 1
               PROVE  First(f[range])
    OBVIOUS
  <2> HIDE DEF First
  <2>1. CASE ~ (range[1] < range[2])
    BY <1>5, <2>1
  <2>2. CASE range[1] < range[2]
    <3> DEFINE next == Narrow(CrashCurve, bp, range)
    <3>1. /\ HoldsFirst(CrashCurve, MaxTicks, bp, next)
          /\ next[2] - next[1] < range[2] - range[1]
      BY <1>4, <2>2, SearchClosesIn
    <3>2. f[range] = f[next]
      BY <1>3, <2>2
    <3> HIDE DEF next
    <3>3. /\ next \in D /\ next[1] \in Int /\ next[2] \in Int
          /\ range[1] \in Int /\ range[2] \in Int
      BY <3>1 DEF HoldsFirst
    <3>4. next[2] - next[1] =< n
      BY <3>1, <3>3
    <3>5. First(f[next])
      BY <1>7, <3>1, <3>3, <3>4
    <3> QED
      BY <3>2, <3>5
  <2> QED
    BY <2>1, <2>2
<1>8. MaxTicks \in T
  <2> HIDE DEF T
  <2> QED
    BY <1>4, <1>6, <1>7, StepByStep
<1>9. HoldsFirst(CrashCurve, MaxTicks, bp, <<0, MaxTicks>>)
  <2>1. <<0, MaxTicks>>[1] = 0 /\ <<0, MaxTicks>>[2] = MaxTicks
    OBVIOUS
  <2>2. CrashCurve[MaxTicks] \in Nat /\ CrashCurve[MaxTicks] >= bp
    BY <1>4 DEF MaxMultiplier
  <2>3. 0 \in 0..MaxTicks /\ MaxTicks \in 0..MaxTicks /\ \A t \in 0..MaxTicks : ~ (t < 0)
    BY <1>4
  <2> QED
    BY <2>1, <2>2, <2>3 DEF HoldsFirst
<1>10. First(f[<<0, MaxTicks>>])
  <2>1. <<0, MaxTicks>> \in D /\ <<0, MaxTicks>>[2] - <<0, MaxTicks>>[1] =< MaxTicks
    BY <1>4
  <2> HIDE DEF First, D
  <2> QED
    BY <1>8, <1>9, <2>1
<1> QED
  BY <1>2, <1>10

\* Whole ticks: a tick has begun once its first millisecond has come.
LEMMA TickBegins ==
  ASSUME NEW ms \in Nat, NEW tick \in Nat
  PROVE  ms >= tick * TickMs <=> ms \div TickMs >= tick
<1> DEFINE t == ms \div TickMs
<1>1. TickMs \in Nat \ {0}
  BY RulesAssumption
<1>2. t \in Nat /\ t * TickMs =< ms
  BY <1>1, QuotientFits
<1>3. tick * TickMs =< ms => tick =< t
  BY <1>1, QuotientAtLeast
<1> HIDE DEF t
<1>4. tick =< t => tick * TickMs =< t * TickMs
  BY <1>1, <1>2, SMT
<1>5. tick * TickMs \in Int /\ t * TickMs \in Int
  BY <1>1, <1>2, SMT
<1>6. ms >= tick * TickMs <=> t >= tick
  BY <1>2, <1>3, <1>4, <1>5
<1> QED
  BY <1>6 DEF t

\* The engine resolves a round at the very millisecond at which cash-outs are
\* refused, at every growth and length of the curve.
LEMMA ResolutionAgrees == ResolutionAgreesWithCashOut
<1>1. /\ MaxTicks \in Nat /\ TickMs \in Nat \ {0} /\ CrashCurve \in [0..MaxTicks -> Nat]
      /\ CrashCurve[0] = BasisPointsOne
      /\ \A s, t \in 0..MaxTicks : s =< t => CrashCurve[s] =< CrashCurve[t]
  BY RulesAssumption, CurveRises
<1>2. MaxMultiplier \in Nat
  BY <1>1 DEF MaxMultiplier
<1>3. ASSUME NEW bp \in 0..MaxMultiplier, NEW ms \in Nat
      PROVE  ms >= ElapsedAtMultiplier(bp) <=> MultiplierAtElapsed(ms) >= bp
  <2> DEFINE t == ms \div TickMs
             shown == IF t =< MaxTicks THEN t ELSE MaxTicks
  <2>1. t \in Nat
    BY <1>1, QuotientFits
  <2>2. MultiplierAtElapsed(ms) = CrashCurve[shown]
    <3>1. TickAtElapsed(ms) = t
      BY DEF TickAtElapsed
    <3>2. Min({t, MaxTicks}) = shown
      BY <1>1, <2>1, LesserOfTwo
    <3> QED
      BY <3>1, <3>2 DEF MultiplierAtElapsed
  <2>3. bp \in Nat /\ bp =< MaxMultiplier
    BY <1>2
  <2>4. shown \in 0..MaxTicks /\ (shown = t \/ (shown = MaxTicks /\ t >= MaxTicks))
    BY <1>1, <2>1
  <2>5. CASE bp =< BasisPointsOne
    <3>1. ElapsedAtMultiplier(bp) = 0
      BY <2>5 DEF ElapsedAtMultiplier
    <3>2. CrashCurve[0] =< CrashCurve[shown] /\ CrashCurve[shown] \in Nat
      BY <1>1, <2>4
    <3> HIDE DEF shown
    <3> QED
      BY <1>1, <2>2, <2>3, <2>5, <3>1, <3>2 DEF BasisPointsOne
  <2>6. CASE ~ (bp =< BasisPointsOne)
    <3> DEFINE first == Search(bp)
    <3>1. /\ first \in 0..MaxTicks
          /\ CrashCurve[shown] >= bp <=> shown >= first
      BY <2>3, <2>4, SearchFindsFirst
    <3>2. ElapsedAtMultiplier(bp) = first * TickMs
      BY <2>6 DEF ElapsedAtMultiplier
    <3> HIDE DEF first
    <3>3. ms >= first * TickMs <=> t >= first
      BY <1>1, <3>1, TickBegins
    <3> HIDE DEF t, shown
    <3>4. shown >= first <=> t >= first
      BY <1>1, <2>1, <2>4, <3>1
    <3> QED
      BY <2>2, <3>1, <3>2, <3>3, <3>4
  <2> QED
    BY <2>5, <2>6
<1>4. \A ms \in 0..((MaxTicks + 1) * TickMs) : ms \in Nat
  OBVIOUS
<1> QED
  BY <1>3, <1>4, Zenon DEF ResolutionAgreesWithCashOut

\* A crash round ends where its last cash-out does, whatever its crash point.
THEOREM TableSearchesRight == Spec => []CurveIsSearchedRight
<1>1. CurveIsSearchedRight
  BY ResolutionAgrees DEF CurveIsSearchedRight
<1> QED
  BY <1>1, PTL

-----------------------------------------------------------------------------
(* the edge of the crash game *)

\* What a hash stands for before it is capped; x is what its entropy leaves.
LEMMA RareMultipliers ==
  ASSUME NEW e \in Nat \ {0}, NEW x \in Nat \ {0}, NEW m \in Nat \ {0},
         (99 * e + x) \div x > m
  PROVE  x =< (99 * e) \div m
<1> DEFINE raw == (99 * e + x) \div x
<1>1. 99 * e \in Nat /\ 99 * e + x \in Nat
  OBVIOUS
<1>2. raw \in Nat /\ raw * x =< 99 * e + x
  BY <1>1, QuotientFits
<1>3. m + 1 =< raw
  BY <1>2
<1> HIDE DEF raw
<1>4. (m + 1) * x =< raw * x
  BY <1>2, <1>3, SMT
<1>5. (m + 1) * x = x * m + x
  BY SMT
<1>6. x * m \in Nat /\ raw * x \in Nat
  BY <1>2, SMT
<1>7. x * m =< 99 * e
  BY <1>1, <1>2, <1>4, <1>5, <1>6
<1> QED
  BY <1>1, <1>7, QuotientAtLeast

\* A target that so few reach is not worth more than they are many.
LEMMA FewWin ==
  ASSUME NEW e \in Nat \ {0}, NEW bp \in Nat, bp >= 10000
  PROVE  /\ (99 * e) \div (bp \div 100) \in Nat
         /\ ((99 * e) \div (bp \div 100)) * bp =< e * 10000
<1> DEFINE m == bp \div 100
           k == (99 * e) \div m
<1>1. m \in Nat /\ m >= 100 /\ bp =< 100 * m + 99
  OBVIOUS
<1>2. 99 * e \in Nat /\ m \in Nat \ {0}
  BY <1>1
<1>3. k \in Nat /\ k * m =< 99 * e
  <2> HIDE DEF m
  <2> QED
    BY <1>2, QuotientFits
<1> HIDE DEF m, k
<1>4. k * m \in Nat /\ k * 100 =< k * m
  BY <1>1, <1>3, SMT
<1>5. k =< e
  BY <1>3, <1>4
<1>6. k * bp =< k * (100 * m + 99)
  BY <1>1, <1>3, SMT
<1>7. k * (100 * m + 99) = 100 * (k * m) + 99 * k
  BY <1>1, <1>3, SMT
<1>8. k * bp \in Nat
  BY <1>3, SMT
<1>9. k * bp =< e * 10000
  BY <1>3, <1>4, <1>5, <1>6, <1>7, <1>8
<1> QED
  BY <1>3, <1>9 DEF k, m

\* A crash point lies on the curve, and is past a target only for few hashes.
LEMMA CrashPointOfHash ==
  ASSUME NEW roll \in 0..(BustDivisor - 1), NEW e \in 0..(EntropySpace - 1)
  PROVE  /\ CrashPointFromHash(roll, e) \in BasisPointsOne..MaxMultiplier
         /\ \A bp \in Nat : bp >= BasisPointsOne /\ CrashPointFromHash(roll, e) > bp =>
              /\ roll # 0
              /\ EntropySpace - e =< (99 * EntropySpace) \div (bp \div 100)
<1> DEFINE E == EntropySpace
           x == E - e
           raw == (100 * E - e) \div (E - e)
           point == CrashPointFromHash(roll, e)
<1>1. E \in Nat \ {0} /\ x \in Nat \ {0} /\ e \in Nat /\ BustDivisor \in Nat \ {0}
      /\ roll \in Nat
  BY RulesAssumption
<1>2. raw = (99 * E + x) \div x /\ 99 * E + x \in Nat
  <2>1. 100 * E - e = 99 * E + x /\ 99 * E + x \in Nat
    BY <1>1
  <2> QED
    BY <2>1
<1>3. raw \in Nat
  <2> HIDE DEF x
  <2> QED
    BY <1>1, <1>2, QuotientFits
<1>4. MaxMultiplier \in Nat /\ MaxMultiplier >= 10000
  <2>1. MaxTicks \in 0..MaxTicks /\ 0 \in 0..MaxTicks /\ 0 =< MaxTicks
    BY RulesAssumption
  <2>2. CrashCurve[0] =< CrashCurve[MaxTicks] /\ CrashCurve[MaxTicks] \in Nat
    BY <2>1, CurveRises
  <2> QED
    BY <2>2, CurveRises DEF MaxMultiplier, BasisPointsOne
<1>5. point = IF roll % BustDivisor = 0 THEN 10000
              ELSE Min({Max({raw * 100, 10000}), MaxMultiplier})
  <2>1. 10000 \div 100 = 100
    OBVIOUS
  <2> HIDE DEF raw
  <2> QED
    BY <2>1 DEF CrashPointFromHash, BasisPointsOne, raw
<1> HIDE DEF E, x, raw, point
<1>6. raw * 100 \in Nat
  BY <1>3
<1> DEFINE most == IF raw * 100 >= 10000 THEN raw * 100 ELSE 10000
<1>7. Max({raw * 100, 10000}) = most /\ most \in Nat
  BY <1>6, GreaterOfTwo
<1>8. Min({most, MaxMultiplier}) = IF most =< MaxMultiplier THEN most ELSE MaxMultiplier
  <2> HIDE DEF most
  <2> QED
    BY <1>4, <1>7, LesserOfTwo
<1>9. point \in 10000..MaxMultiplier
  <2>1. most >= 10000
    BY <1>6
  <2> HIDE DEF most
  <2>2. Min({most, MaxMultiplier}) \in 10000..MaxMultiplier
    BY <1>4, <1>7, <1>8, <2>1
  <2>3. /\ roll % BustDivisor = 0 => point = 10000
        /\ roll % BustDivisor # 0 => point = Min({Max({raw * 100, 10000}), MaxMultiplier})
    BY <1>5
  <2>4. 10000 \in 10000..MaxMultiplier
    BY <1>4
  <2>5. CASE roll % BustDivisor = 0
    BY <2>3, <2>4, <2>5
  <2>6. CASE roll % BustDivisor # 0
    <3>1. point = Min({most, MaxMultiplier})
      BY <1>7, <2>3, <2>6
    <3> QED
      BY <2>2, <3>1
  <2> QED
    BY <2>5, <2>6
<1>10. ASSUME NEW bp \in Nat, bp >= 10000, point > bp
       PROVE  roll # 0 /\ x =< (99 * E) \div (bp \div 100)
  <2>1. roll % BustDivisor # 0 /\ raw * 100 > bp
    BY <1>4, <1>5, <1>6, <1>7, <1>8, <1>10
  <2>2. roll # 0
    <3>1. 0 % BustDivisor = 0
      BY <1>1, SMT
    <3> QED
      BY <2>1, <3>1
  <2>3. bp \div 100 \in Nat \ {0} /\ raw > bp \div 100
    BY <1>3, <1>10, <2>1
  <2> QED
    BY <1>1, <1>2, <2>2, <2>3, RareMultipliers
<1> QED
  BY <1>9, <1>10 DEF point, E, x, BasisPointsOne

\* Whatever multiplier a player waits for, the house keeps its share.
LEMMA HouseKeepsItsShare == NoTargetBeatsTheHouse
<1> DEFINE hashes == (0..BustDivisor - 1) \X (0..EntropySpace - 1)
           points == [h \in hashes |-> CrashPointFromHash(h[1], h[2])]
           Targets == {CrashCurve[t] : t \in 0..MaxTicks} \cup {points[h] : h \in hashes}
           Beaten(bp) == {h \in hashes : points[h] > bp}
<1>1. EntropySpace \in Nat \ {0} /\ BustDivisor \in Nat \ {0}
  BY RulesAssumption
<1>2. ASSUME NEW h \in hashes
      PROVE  /\ h[1] \in 0..(BustDivisor - 1) /\ h[2] \in 0..(EntropySpace - 1)
             /\ points[h] = CrashPointFromHash(h[1], h[2])
             /\ points[h] \in BasisPointsOne..MaxMultiplier
  <2>1. h[1] \in 0..(BustDivisor - 1) /\ h[2] \in 0..(EntropySpace - 1)
    OBVIOUS
  <2>2. points[h] = CrashPointFromHash(h[1], h[2])
    OBVIOUS
  <2> HIDE DEF hashes, points
  <2> QED
    BY <2>1, <2>2, CrashPointOfHash
<1> HIDE DEF hashes, points
<1>3. ASSUME NEW bp \in Targets PROVE bp \in Nat /\ bp >= BasisPointsOne
  <2>1. CASE bp \in {points[h] : h \in hashes}
    <3>1. PICK h \in hashes : bp = points[h]
      BY <2>1
    <3>2. bp \in BasisPointsOne..MaxMultiplier
      BY <1>2, <3>1
    <3>3. MaxMultiplier \in Nat
      <4>1. MaxTicks \in 0..MaxTicks
        BY RulesAssumption
      <4> QED
        BY <4>1, CurveRises DEF MaxMultiplier
    <3> QED
      BY <3>2, <3>3 DEF BasisPointsOne
  <2>2. CASE bp \in {CrashCurve[t] : t \in 0..MaxTicks}
    <3>1. PICK t \in 0..MaxTicks : bp = CrashCurve[t]
      BY <2>2
    <3>2. 0 \in 0..MaxTicks /\ 0 =< t
      BY RulesAssumption
    <3>3. CrashCurve[0] =< CrashCurve[t] /\ CrashCurve[t] \in Nat /\ CrashCurve[0] = BasisPointsOne
      BY <3>2, CurveRises
    <3> QED
      BY <3>1, <3>3
  <2> QED
    BY <2>1, <2>2
<1>4. ASSUME NEW bp \in Nat, bp >= BasisPointsOne
      PROVE  Cardinality(Beaten(bp)) * bp =< (BustDivisor - 1) * EntropySpace * BasisPointsOne
  <2> DEFINE k == (99 * EntropySpace) \div (bp \div 100)
             rolls == 1..(BustDivisor - 1)
             rare == (EntropySpace - k)..(EntropySpace - 1)
  <2>1. k \in Nat /\ k * bp =< EntropySpace * 10000
    BY <1>1, <1>4, FewWin DEF BasisPointsOne
  <2>2. Beaten(bp) \in SUBSET (rolls \X rare)
    <3>1. ASSUME NEW h \in hashes, points[h] > bp PROVE h \in rolls \X rare
      <4>1. h[1] # 0 /\ EntropySpace - h[2] =< k
        BY <1>2, <1>4, <3>1, CrashPointOfHash
      <4>2. h[1] \in rolls
        BY <1>1, <1>2, <4>1
      <4>3. h[2] \in rare
        <5> HIDE DEF k
        <5> QED
          BY <1>1, <1>2, <2>1, <4>1
      <4>4. h = <<h[1], h[2]>>
        BY DEF hashes
      <4> QED
        BY <4>2, <4>3, <4>4
    <3> QED
      BY <3>1
  <2> HIDE DEF k
  <2>3. IsFiniteSet(rolls) /\ Cardinality(rolls) = BustDivisor - 1
    <3>1. IsFiniteSet(rolls)
          /\ Cardinality(rolls) = IF 1 > BustDivisor - 1 THEN 0 ELSE (BustDivisor - 1) - 1 + 1
      BY <1>1, FS_Interval
    <3> HIDE DEF rolls
    <3> QED
      BY <1>1, <3>1
  <2>4. IsFiniteSet(rare) /\ Cardinality(rare) = k
    <3>1. EntropySpace - k \in Int /\ EntropySpace - 1 \in Int
      BY <1>1, <2>1
    <3>2. IsFiniteSet(rare)
          /\ Cardinality(rare) = IF EntropySpace - k > EntropySpace - 1 THEN 0
                                 ELSE (EntropySpace - 1) - (EntropySpace - k) + 1
      BY <3>1, FS_Interval
    <3> HIDE DEF rare
    <3> QED
      BY <1>1, <2>1, <3>2
  <2> HIDE DEF rolls, rare, Beaten
  <2>5. IsFiniteSet(rolls \X rare) /\ Cardinality(rolls \X rare) = (BustDivisor - 1) * k
    BY <2>3, <2>4, FS_Product
  <2> DEFINE c == Cardinality(Beaten(bp))
             b == BustDivisor - 1
  <2>6. c \in Nat /\ c =< b * k
    BY <2>2, <2>5, FS_Subset, FS_CardinalityType
  <2>7. b \in Nat
    BY <1>1
  <2> HIDE DEF c, b
  <2>8. b * k \in Nat /\ k * bp \in Nat /\ EntropySpace * 10000 \in Nat
    BY <1>1, <2>1, <2>7, SMT
  <2>9. c * bp =< (b * k) * bp
    BY <2>6, <2>8, SMT
  <2>10. (b * k) * bp = b * (k * bp)
    BY <2>1, <2>7, SMT
  <2>11. b * (k * bp) =< b * (EntropySpace * 10000)
    BY <2>1, <2>7, <2>8, SMT
  <2>12. b * (EntropySpace * 10000) = b * EntropySpace * 10000
    BY <1>1, <2>7, SMT
  <2>13. c * bp \in Nat /\ b * (k * bp) \in Nat /\ b * EntropySpace * 10000 \in Nat
    BY <1>1, <2>6, <2>7, <2>8, SMT
  <2>14. c * bp =< b * EntropySpace * 10000
    BY <2>9, <2>10, <2>11, <2>12, <2>13
  <2> QED
    BY <2>14 DEF b, c, BasisPointsOne
<1>5. \A h \in hashes : points[h] \in BasisPointsOne..MaxMultiplier
  BY <1>2
<1>6. \A bp \in Targets :
        Cardinality(Beaten(bp)) * bp =< (BustDivisor - 1) * EntropySpace * BasisPointsOne
  <2> HIDE DEF Targets, Beaten
  <2> QED
    BY <1>3, <1>4
<1> QED
  BY <1>5, <1>6, Zenon DEF NoTargetBeatsTheHouse, hashes, points

\* However a stake is cut up the fractions stay with the house.
THEOREM CuttingNeverPays == Spec => []CuttingGainsNothing
<1>1. ASSUME NEW a \in Stakes, NEW b \in Stakes, NEW tick \in 0..MaxTicks
      PROVE  Payout(a + b, CrashCurve[tick])
               - (Payout(a, CrashCurve[tick]) + Payout(b, CrashCurve[tick])) \in {0, 1}
  <2>1. a \in Nat /\ b \in Nat
    BY StakesAssumption
  <2>2. CrashCurve[tick] \in Nat
    BY CurveRises
  <2> QED
    BY <2>1, <2>2, CutStakesPayNoMore
<1>2. CuttingGainsNothing
  BY <1>1 DEF CuttingGainsNothing
<1> QED
  BY <1>2, PTL

\* Of every 101 stakes on a fixed multiplier, or more, at least one stays with the
\* house: crashPointFromHash, for every divisor and every space of entropy.
THEOREM CrashKeepsEdge == Spec => []CrashKeepsItsEdge
<1>1. CrashKeepsItsEdge
  BY HouseKeepsItsShare DEF CrashKeepsItsEdge
<1> QED
  BY <1>1, PTL

-----------------------------------------------------------------------------
(* the hash chain *)

\* Hashing goes from seed to seed, and on from where it has got to.
LEMMA HashingGoesOn ==
  /\ \A seed \in Hashes : /\ Hashed(seed, 0) = seed
                          /\ \A n \in Nat : /\ Hashed(seed, n) \in Hashes
                                            /\ Hashed(seed, n + 1) = Sha256[Hashed(seed, n)]
  /\ \A seed \in Hashes, a, b \in Nat : Hashed(Hashed(seed, a), b) = Hashed(seed, a + b)
<1>0. \A h \in Hashes : Sha256[h] \in Hashes
  BY RulesAssumption
<1>1. \A seed : /\ Hashed(seed, 0) = seed
                /\ \A n \in Nat : Hashed(seed, n + 1) = Sha256[Hashed(seed, n)]
  BY IterateSteps DEF Hashed
<1>2. ASSUME NEW seed \in Hashes, NEW n \in Nat PROVE Hashed(seed, n) \in Hashes
  <2> DEFINE T == {m \in Nat : Hashed(seed, m) \in Hashes}
  <2>1. 0 \in T
    BY <1>1
  <2>2. ASSUME NEW m \in Nat, m \in T PROVE m + 1 \in T
    BY <1>0, <1>1, <2>2
  <2>3. n \in T
    <3> HIDE DEF T
    <3> QED
      BY <2>1, <2>2, StepByStep
  <2> QED
    BY <2>3
<1>3. ASSUME NEW seed \in Hashes, NEW a \in Nat, NEW b \in Nat
      PROVE  Hashed(Hashed(seed, a), b) = Hashed(seed, a + b)
  <2> DEFINE T == {m \in Nat : Hashed(Hashed(seed, a), m) = Hashed(seed, a + m)}
  <2>1. 0 \in T
    <3>1. a + 0 = a
      OBVIOUS
    <3> QED
      BY <1>1, <3>1
  <2>2. ASSUME NEW m \in Nat, m \in T PROVE m + 1 \in T
    <3>1. a + m \in Nat /\ a + (m + 1) = (a + m) + 1
      OBVIOUS
    <3>2. Hashed(Hashed(seed, a), m) = Hashed(seed, a + m)
      BY <2>2
    <3>3. Hashed(Hashed(seed, a), m + 1) = Hashed(seed, (a + m) + 1)
      BY <1>1, <3>1, <3>2
    <3> QED
      BY <3>1, <3>3
  <2>3. b \in T
    <3> HIDE DEF T
    <3> QED
      BY <2>1, <2>2, StepByStep
  <2> QED
    BY <2>3
<1> QED
  BY <1>1, <1>2, <1>3

\* So a seed hashed as often as its position is the genesis hash, and hashed more
\* or less often than that it is not: the way from there would be a short cycle.
LEMMA SeedsProveTheirPosition == SeedsVerifyInPlace
<1> SUFFICES ASSUME NEW terminal \in Hashes, NEW length \in 1..ChainSize
             PROVE  /\ \A i, j \in 1..length :
                         VerifyChainProof(DeriveChainSeed(terminal, length, i), j,
                                          Hashed(terminal, length)) <=> i = j
                    /\ \A i \in 2..length :
                         Sha256[DeriveChainSeed(terminal, length, i)]
                           = DeriveChainSeed(terminal, length, i - 1)
  BY DEF SeedsVerifyInPlace
<1>1. ChainSize \in Nat /\ length \in Nat /\ length =< ChainSize
  BY RulesAssumption
<1>2. ASSUME NEW a \in Nat, NEW b \in Nat, a < b, b - a < ChainSize
      PROVE  Hashed(terminal, a) # Hashed(terminal, b)
  <2>1. b - a \in 1..(ChainSize - 1) /\ b - a \in Nat /\ a + (b - a) = b
    BY <1>1, <1>2
  <2>2. Hashed(Hashed(terminal, a), b - a) = Hashed(terminal, b)
    <3>1. ASSUME NEW d \in Nat, a + d = b PROVE Hashed(Hashed(terminal, a), d) = Hashed(terminal, b)
      BY <3>1, HashingGoesOn
    <3> QED
      BY <2>1, <3>1
  <2>3. Hashed(terminal, a) \in Hashes
    BY HashingGoesOn
  <2> QED
    BY <2>1, <2>2, <2>3, NoShortCycle
<1>3. ASSUME NEW i \in 1..length, NEW j \in 1..length
      PROVE  VerifyChainProof(DeriveChainSeed(terminal, length, i), j, Hashed(terminal, length))
               <=> i = j
  <2>1. /\ length - i \in Nat /\ j \in Nat /\ i \in Nat
        /\ (length - i) + j \in Nat /\ (i = j => (length - i) + j = length)
    BY <1>1
  <2>2. Hashed(Hashed(terminal, length - i), j) = Hashed(terminal, (length - i) + j)
    BY <2>1, HashingGoesOn
  <2>3. CASE i < j
    <3>1. length < (length - i) + j /\ ((length - i) + j) - length < ChainSize
      BY <1>1, <2>1, <2>3
    <3>2. Hashed(terminal, length) # Hashed(terminal, (length - i) + j)
      BY <1>1, <1>2, <2>1, <3>1
    <3>3. i # j
      BY <2>1, <2>3
    <3> QED
      BY <2>2, <3>2, <3>3 DEF VerifyChainProof, DeriveChainSeed
  <2>4. CASE j < i
    <3>1. (length - i) + j < length /\ length - ((length - i) + j) < ChainSize
      BY <1>1, <2>1, <2>4
    <3>2. Hashed(terminal, length) # Hashed(terminal, (length - i) + j)
      BY <1>1, <1>2, <2>1, <3>1
    <3>3. i # j
      BY <2>1, <2>4
    <3> QED
      BY <2>2, <3>2, <3>3 DEF VerifyChainProof, DeriveChainSeed
  <2>5. CASE i = j
    BY <2>1, <2>2, <2>5 DEF VerifyChainProof, DeriveChainSeed
  <2> QED
    BY <2>1, <2>3, <2>4, <2>5
<1>4. ASSUME NEW i \in 2..length
      PROVE  Sha256[DeriveChainSeed(terminal, length, i)]
               = DeriveChainSeed(terminal, length, i - 1)
  <2>1. length - i \in Nat /\ length - (i - 1) = (length - i) + 1
    BY <1>1
  <2> QED
    BY <2>1, HashingGoesOn DEF DeriveChainSeed
<1> QED
  BY <1>3, <1>4

\* A revealed seed is proof of its own position in the chain, and of no other.
THEOREM SeedsAreProofs == Spec => []ChainVerifies
<1>1. ChainVerifies
  BY SeedsProveTheirPosition DEF ChainVerifies
<1> QED
  BY <1>1, PTL

-----------------------------------------------------------------------------
(* the wheel *)

\* The pockets a selection wins on.
Winning(type, value) ==
  {pocket \in Wheel : SelectionWins([type |-> type, value |-> value], pocket)}

\* What is printed on the table, spelled out pocket by pocket.
LEMMA WinningPockets ==
  /\ \A v \in Wheel : Winning("STRAIGHT", v) = {v}
  /\ \A v : /\ Winning("RED", v) = RedPockets
            /\ Winning("BLACK", v) = BlackPockets
            /\ Winning("ODD", v) = {p \in 1..36 : p % 2 = 1}
            /\ Winning("EVEN", v) = {p \in 1..36 : p % 2 = 0}
            /\ Winning("LOW", v) = 1..18
            /\ Winning("HIGH", v) = 19..36
  /\ \A v \in 1..3 : /\ Winning("DOZEN", v) = (12 * v - 11)..(12 * v)
                     /\ Winning("COLUMN", v) = {p \in 1..36 : (p - 1) % 3 = v - 1}
<1>0. Wheel = 0..36
  BY DEF Wheel, PocketCount
<1>1. ASSUME NEW v \in Wheel PROVE Winning("STRAIGHT", v) = {v}
  BY DEF Winning, SelectionWins
<1>2. ASSUME NEW v PROVE Winning("RED", v) = RedPockets
  <2>1. \A p \in Wheel : SelectionWins([type |-> "RED", value |-> v], p) <=> PocketColour(p) = "red"
    BY DEF SelectionWins
  <2>2. \A p \in Wheel : PocketColour(p) = "red" <=> p \in RedPockets
    BY <1>0 DEF PocketColour, RedPockets
  <2>3. \A p \in RedPockets : p \in Wheel
    BY <1>0 DEF RedPockets
  <2> QED
    BY <2>1, <2>2, <2>3 DEF Winning
<1>3. ASSUME NEW v PROVE Winning("BLACK", v) = BlackPockets
  <2>1. \A p \in Wheel : SelectionWins([type |-> "BLACK", value |-> v], p)
                           <=> PocketColour(p) = "black"
    BY DEF SelectionWins
  <2>2. \A p \in Wheel : PocketColour(p) = "black" <=> p # 0 /\ p \notin RedPockets
    BY DEF PocketColour
  <2>3. \A p \in Wheel : p # 0 /\ p \notin RedPockets <=> p \in BlackPockets
    BY <1>0 DEF RedPockets, BlackPockets
  <2>4. \A p \in BlackPockets : p \in Wheel
    BY <1>0 DEF BlackPockets
  <2> QED
    BY <2>1, <2>2, <2>3, <2>4 DEF Winning
<1>4. ASSUME NEW v PROVE Winning("ODD", v) = {p \in 1..36 : p % 2 = 1}
  <2>1. \A p \in Wheel : SelectionWins([type |-> "ODD", value |-> v], p) <=> p # 0 /\ p % 2 = 1
    BY DEF SelectionWins
  <2> QED
    BY <1>0, <2>1 DEF Winning
<1>5. ASSUME NEW v PROVE Winning("EVEN", v) = {p \in 1..36 : p % 2 = 0}
  <2>1. \A p \in Wheel : SelectionWins([type |-> "EVEN", value |-> v], p) <=> p # 0 /\ p % 2 = 0
    BY DEF SelectionWins, EvenWins
  <2> QED
    BY <1>0, <2>1 DEF Winning
<1>6. ASSUME NEW v PROVE Winning("LOW", v) = 1..18
  <2>1. \A p \in Wheel : SelectionWins([type |-> "LOW", value |-> v], p) <=> p \in 1..18
    BY DEF SelectionWins
  <2> QED
    BY <1>0, <2>1 DEF Winning
<1>7. ASSUME NEW v PROVE Winning("HIGH", v) = 19..36
  <2>1. \A p \in Wheel : SelectionWins([type |-> "HIGH", value |-> v], p) <=> p \in 19..36
    BY DEF SelectionWins
  <2> QED
    BY <1>0, <2>1 DEF Winning
<1>8. ASSUME NEW v \in 1..3 PROVE Winning("DOZEN", v) = (12 * v - 11)..(12 * v)
  <2>1. \A p \in Wheel : SelectionWins([type |-> "DOZEN", value |-> v], p)
                           <=> p # 0 /\ (p + 11) \div 12 = v
    BY DEF SelectionWins
  <2>2. \A p \in 0..36 : (p # 0 /\ (p + 11) \div 12 = v) <=> p \in (12 * v - 11)..(12 * v)
    OBVIOUS
  <2>3. \A p \in (12 * v - 11)..(12 * v) : p \in 0..36
    OBVIOUS
  <2> QED
    BY <1>0, <2>1, <2>2, <2>3 DEF Winning
<1>9. ASSUME NEW v \in 1..3 PROVE Winning("COLUMN", v) = {p \in 1..36 : (p - 1) % 3 = v - 1}
  <2>1. \A p \in Wheel : SelectionWins([type |-> "COLUMN", value |-> v], p)
                           <=> p # 0 /\ ((p - 1) % 3) + 1 = v
    BY DEF SelectionWins
  <2>2. \A p \in 1..36 : ((p - 1) % 3) + 1 = v <=> (p - 1) % 3 = v - 1
    OBVIOUS
  <2>3. \A p : p \in 1..36 <=> p \in 0..36 /\ p # 0
    OBVIOUS
  <2> QED
    BY <1>0, <2>1, <2>2, <2>3 DEF Winning
<1> QED
  BY <1>1, <1>2, <1>3, <1>4, <1>5, <1>6, <1>7, <1>8, <1>9

\* The pockets that can win are cut up.
IsCut(A) == /\ UNION A = Wheel \ {0}
            /\ \A p, q \in A : p = q \/ p \cap q = {}

LEMMA CutInTwo ==
  ASSUME NEW A, NEW B, A \cup B = 1..36, A \cap B = {}
  PROVE  IsCut({A, B})
<1>1. Wheel \ {0} = 1..36
  BY DEF Wheel, PocketCount
<1>2. UNION {A, B} = A \cup B
  OBVIOUS
<1>3. ASSUME NEW p \in {A, B}, NEW q \in {A, B} PROVE p = q \/ p \cap q = {}
  BY <1>3, Zenon
<1> QED
  BY <1>1, <1>2, <1>3, Zenon DEF IsCut

\* Two halves, and three thirds, that meet nowhere and leave nothing but zero out.
LEMMA CutsAreCuts == CutsCoverTheWheel
<1>0. Wheel = 0..36 /\ Wheel \ {0} = 1..36
  BY DEF Wheel, PocketCount
<1>2. IsCut({Winning("RED", NoValue), Winning("BLACK", NoValue)})
  <2>1. RedPockets \cup BlackPockets = 1..36
    BY DEF RedPockets, BlackPockets
  <2>2. RedPockets \cap BlackPockets = {}
    BY DEF RedPockets, BlackPockets
  <2>3. Winning("RED", NoValue) = RedPockets /\ Winning("BLACK", NoValue) = BlackPockets
    BY WinningPockets, Zenon
  <2> QED
    BY <2>1, <2>2, <2>3, CutInTwo, Zenon
<1>3. IsCut({Winning("ODD", NoValue), Winning("EVEN", NoValue)})
  <2> DEFINE A == {p \in 1..36 : p % 2 = 1}
             B == {p \in 1..36 : p % 2 = 0}
  <2>1. A \cup B = 1..36 /\ A \cap B = {}
    OBVIOUS
  <2>2. Winning("ODD", NoValue) = A /\ Winning("EVEN", NoValue) = B
    BY WinningPockets, Zenon
  <2> HIDE DEF A, B
  <2> QED
    BY <2>1, <2>2, CutInTwo, Zenon
<1>4. IsCut({Winning("LOW", NoValue), Winning("HIGH", NoValue)})
  <2>1. (1..18) \cup (19..36) = 1..36 /\ (1..18) \cap (19..36) = {}
    OBVIOUS
  <2>2. Winning("LOW", NoValue) = 1..18 /\ Winning("HIGH", NoValue) = 19..36
    BY WinningPockets, Zenon
  <2> QED
    BY <2>1, <2>2, CutInTwo, Zenon
<1>5. IsCut({Winning("DOZEN", n) : n \in 1..3})
  <2> DEFINE D(n) == (12 * n - 11)..(12 * n)
  <2>1. \A n \in 1..3 : Winning("DOZEN", n) = D(n)
    BY WinningPockets
  <2>2. \A p : p \in 1..36 <=> \E n \in 1..3 : p \in D(n)
    <3>1. ASSUME NEW p \in 1..36 PROVE \E n \in 1..3 : p \in D(n)
      BY SMT
    <3>2. ASSUME NEW n \in 1..3, NEW p \in D(n) PROVE p \in 1..36
      BY SMT
    <3> QED
      BY <3>1, <3>2
  <2>3. \A n, m \in 1..3 : n = m \/ D(n) \cap D(m) = {}
    OBVIOUS
  <2> HIDE DEF D
  <2> QED
    BY <1>0, <2>1, <2>2, <2>3 DEF IsCut
<1>6. IsCut({Winning("COLUMN", n) : n \in 1..3})
  <2> DEFINE C(n) == {p \in 1..36 : (p - 1) % 3 = n - 1}
  <2>1. \A n \in 1..3 : Winning("COLUMN", n) = C(n)
    BY WinningPockets
  <2>2. \A p : p \in 1..36 <=> \E n \in 1..3 : p \in C(n)
    <3>1. ASSUME NEW p \in 1..36 PROVE \E n \in 1..3 : p \in C(n)
      <4>1. ((p - 1) % 3) + 1 \in 1..3
        OBVIOUS
      <4>2. p \in C(((p - 1) % 3) + 1)
        BY <4>1
      <4> QED
        BY <4>1, <4>2
    <3> QED
      BY <3>1
  <2>3. \A n, m \in 1..3 : n = m \/ C(n) \cap C(m) = {}
    OBVIOUS
  <2> HIDE DEF C
  <2> QED
    BY <1>0, <2>1, <2>2, <2>3 DEF IsCut
<1>7. {RoulettePocketFromHash(e) : e \in 0..(EntropySpace - 1)} = Wheel
  <2>1. EntropySpace \in Nat /\ EntropySpace >= 37
    BY RulesAssumption, EntropyAssumption DEF PocketCount
  <2>2. \A e \in 0..(EntropySpace - 1) : e % 37 \in 0..36
    BY <2>1
  <2>3. \A p \in 0..36 : p \in 0..(EntropySpace - 1) /\ p % 37 = p
    BY <2>1
  <2>4. \A e : RoulettePocketFromHash(e) = e % 37
    BY DEF RoulettePocketFromHash, PocketCount
  <2> QED
    BY <1>0, <2>2, <2>3, <2>4
<1>8. Winning("BLACK", NoValue) = BlackPockets
  BY WinningPockets, Zenon
<1> QED
  BY <1>2, <1>3, <1>4, <1>5, <1>6, <1>7, <1>8, Zenon DEF CutsCoverTheWheel, Winning, IsCut

\* The table is what it says it is: every colour, parity, half, dozen and column.
THEOREM TableIsRight == Spec => []TableIsLaidOutRight
<1>1. TableIsLaidOutRight
  BY CutsAreCuts DEF TableIsLaidOutRight
<1> QED
  BY <1>1, PTL

-----------------------------------------------------------------------------
(* the edge of the wheel *)

\* A set is counted off by numbering it.
LEMMA HowManyWin ==
  /\ \A v \in Wheel : Cardinality({v}) = 1
  /\ Cardinality(RedPockets) = 18 /\ Cardinality(BlackPockets) = 18
  /\ Cardinality({p \in 1..36 : p % 2 = 1}) = 18
  /\ Cardinality({p \in 1..36 : p % 2 = 0}) = 18
  /\ Cardinality(1..18) = 18 /\ Cardinality(19..36) = 18
  /\ \A v \in 1..3 : /\ Cardinality((12 * v - 11)..(12 * v)) = 12
                     /\ Cardinality({p \in 1..36 : (p - 1) % 3 = v - 1}) = 12
<1>0. 12 \in Nat /\ 18 \in Nat
  OBVIOUS
<1>1. \A v \in Wheel : Cardinality({v}) = 1
  BY FS_Singleton
<1>2. Cardinality(RedPockets) = 18
  <2> DEFINE h == [i \in 1..18 |-> IF i \in (1..5) \cup (10..14) THEN 2 * i - 1 ELSE 2 * i]
  <2>1. \A i \in 1..18 : h[i] \in RedPockets
    BY DEF RedPockets
  <2>2. \A i, j \in 1..18 : h[i] = h[j] => i = j
    OBVIOUS
  <2>3. \A x \in RedPockets : (x + 1) \div 2 \in 1..18 /\ h[(x + 1) \div 2] = x
    BY DEF RedPockets
  <2>4. h \in [1..18 -> RedPockets]
    BY <2>1
  <2>5. \A x \in RedPockets : \E i \in 1..18 : h[i] = x
    BY <2>3
  <2> HIDE DEF h
  <2>6. Numbers(h, 18, RedPockets)
    BY <2>2, <2>4, <2>5 DEF Numbers
  <2> QED
    BY <1>0, <2>6, CountedOnce
<1>3. Cardinality(BlackPockets) = 18
  <2> DEFINE h == [i \in 1..18 |-> IF i \in (6..9) \cup (15..18) THEN 2 * i - 1 ELSE 2 * i]
  <2>1. \A i \in 1..18 : h[i] \in BlackPockets
    BY DEF BlackPockets
  <2>2. \A i, j \in 1..18 : h[i] = h[j] => i = j
    OBVIOUS
  <2>3. \A x \in BlackPockets : (x + 1) \div 2 \in 1..18 /\ h[(x + 1) \div 2] = x
    BY DEF BlackPockets
  <2>4. h \in [1..18 -> BlackPockets]
    BY <2>1
  <2>5. \A x \in BlackPockets : \E i \in 1..18 : h[i] = x
    BY <2>3
  <2> HIDE DEF h
  <2>6. Numbers(h, 18, BlackPockets)
    BY <2>2, <2>4, <2>5 DEF Numbers
  <2> QED
    BY <1>0, <2>6, CountedOnce
<1>4. Cardinality({p \in 1..36 : p % 2 = 1}) = 18
  <2> DEFINE S == {p \in 1..36 : p % 2 = 1}
             h == [i \in 1..18 |-> 2 * i - 1]
  <2>1. h \in [1..18 -> S] /\ \A i, j \in 1..18 : h[i] = h[j] => i = j
    OBVIOUS
  <2>2. \A x \in S : (x + 1) \div 2 \in 1..18 /\ h[(x + 1) \div 2] = x
    OBVIOUS
  <2> HIDE DEF h, S
  <2>3. \A x \in S : \E i \in 1..18 : h[i] = x
    BY <2>2
  <2>4. Numbers(h, 18, S)
    BY <2>1, <2>3 DEF Numbers
  <2>5. Cardinality(S) = 18
    BY <1>0, <2>4, CountedOnce
  <2> QED
    BY <2>5 DEF S
<1>5. Cardinality({p \in 1..36 : p % 2 = 0}) = 18
  <2> DEFINE S == {p \in 1..36 : p % 2 = 0}
             h == [i \in 1..18 |-> 2 * i]
  <2>1. h \in [1..18 -> S] /\ \A i, j \in 1..18 : h[i] = h[j] => i = j
    OBVIOUS
  <2>2. \A x \in S : x \div 2 \in 1..18 /\ h[x \div 2] = x
    OBVIOUS
  <2> HIDE DEF h, S
  <2>3. \A x \in S : \E i \in 1..18 : h[i] = x
    BY <2>2
  <2>4. Numbers(h, 18, S)
    BY <2>1, <2>3 DEF Numbers
  <2>5. Cardinality(S) = 18
    BY <1>0, <2>4, CountedOnce
  <2> QED
    BY <2>5 DEF S
<1>6. \A a, b \in Int : a =< b => Cardinality(a..b) = b - a + 1
  BY FS_Interval
<1>7. Cardinality(1..18) = 18 /\ Cardinality(19..36) = 18
  <2>1. /\ 1 \in Int /\ 18 \in Int /\ 1 =< 18 /\ 18 - 1 + 1 = 18
        /\ 19 \in Int /\ 36 \in Int /\ 19 =< 36 /\ 36 - 19 + 1 = 18
    OBVIOUS
  <2>2. Cardinality(1..18) = 18 - 1 + 1 /\ Cardinality(19..36) = 36 - 19 + 1
    BY <1>6, <2>1, Zenon
  <2> QED
    BY <2>1, <2>2, Zenon
<1>8. ASSUME NEW v \in 1..3 PROVE Cardinality((12 * v - 11)..(12 * v)) = 12
  <2>1. 12 * v - 11 \in Int /\ 12 * v \in Int /\ 12 * v - 11 =< 12 * v
        /\ 12 * v - (12 * v - 11) + 1 = 12
    OBVIOUS
  <2> QED
    BY <1>6, <2>1
<1>9. ASSUME NEW v \in 1..3 PROVE Cardinality({p \in 1..36 : (p - 1) % 3 = v - 1}) = 12
  <2> DEFINE S == {p \in 1..36 : (p - 1) % 3 = v - 1}
             h == [i \in 1..12 |-> 3 * (i - 1) + v]
  <2>1. h \in [1..12 -> S] /\ \A i, j \in 1..12 : h[i] = h[j] => i = j
    OBVIOUS
  <2>2. \A x \in S : (x + 2) \div 3 \in 1..12 /\ h[(x + 2) \div 3] = x
    OBVIOUS
  <2> HIDE DEF h, S
  <2>3. \A x \in S : \E i \in 1..12 : h[i] = x
    BY <2>2
  <2>4. Numbers(h, 12, S)
    BY <2>1, <2>3 DEF Numbers
  <2>5. Cardinality(S) = 12
    BY <1>0, <2>4, CountedOnce
  <2> QED
    BY <2>5 DEF S
<1> QED
  BY <1>1, <1>2, <1>3, <1>4, <1>5, <1>7, <1>8, <1>9

\* So many stakes of 37 are won on each kind of selection.
LEMMA HowOftenItWins ==
  /\ \A v \in Wheel : Cardinality(Winning("STRAIGHT", v)) = 1
  /\ \A v : /\ Cardinality(Winning("RED", v)) = 18
            /\ Cardinality(Winning("BLACK", v)) = 18
            /\ Cardinality(Winning("ODD", v)) = 18
            /\ Cardinality(Winning("EVEN", v)) = 18
            /\ Cardinality(Winning("LOW", v)) = 18
            /\ Cardinality(Winning("HIGH", v)) = 18
  /\ \A v \in 1..3 : /\ Cardinality(Winning("DOZEN", v)) = 12
                     /\ Cardinality(Winning("COLUMN", v)) = 12
<1>1. ASSUME NEW v \in Wheel PROVE Cardinality(Winning("STRAIGHT", v)) = 1
  BY WinningPockets, HowManyWin, Zenon
<1>2. ASSUME NEW v
      PROVE  Cardinality(Winning("RED", v)) = 18 /\ Cardinality(Winning("BLACK", v)) = 18
  BY WinningPockets, HowManyWin, Zenon
<1>3. ASSUME NEW v
      PROVE  Cardinality(Winning("ODD", v)) = 18 /\ Cardinality(Winning("EVEN", v)) = 18
  BY WinningPockets, HowManyWin, Zenon
<1>4. ASSUME NEW v
      PROVE  Cardinality(Winning("LOW", v)) = 18 /\ Cardinality(Winning("HIGH", v)) = 18
  BY WinningPockets, HowManyWin, Zenon
<1>5. ASSUME NEW v \in 1..3
      PROVE  Cardinality(Winning("DOZEN", v)) = 12 /\ Cardinality(Winning("COLUMN", v)) = 12
  BY WinningPockets, HowManyWin, Zenon
<1> QED
  BY <1>1, <1>2, <1>3, <1>4, <1>5, Zenon

\* The longer the odds the fewer the pockets: together they always make 36.
LEMMA OddsMatchTheWheel ==
  ASSUME NEW s, ValidSelection(s)
  PROVE  /\ RouletteOdds[s.type] \in Nat
         /\ RouletteOdds[s.type] * Cardinality({p \in Wheel : SelectionWins(s, p)}) = 360000
<1> DEFINE odds == RouletteOdds[s.type]
           wins == {p \in Wheel : SelectionWins(s, p)}
<1>0. \A type \in BetTypes :
        RouletteOdds[type] = 10000 * (IF type = "STRAIGHT" THEN 36
                                      ELSE IF type \in {"DOZEN", "COLUMN"} THEN 3 ELSE 2)
  BY DEF RouletteOdds, BasisPointsOne
<1>1. wins = Winning(s.type, s.value)
  BY DEF Winning, SelectionWins
<1>2. s.type \in BetTypes
  BY DEF ValidSelection
<1> HIDE DEF wins
<1>3. CASE s.type = "STRAIGHT"
  <2>1. s.value \in Wheel
    BY <1>3 DEF ValidSelection
  <2>2. Cardinality(wins) = 1
    BY <1>1, <1>3, <2>1, HowOftenItWins
  <2>3. odds = 360000
    BY <1>0, <1>2, <1>3
  <2> QED
    BY <2>2, <2>3 DEF wins
<1>4. CASE s.type \in {"DOZEN", "COLUMN"}
  <2>1. s.value \in 1..3
    BY <1>4 DEF ValidSelection
  <2>2. Cardinality(wins) = 12
    BY <1>1, <1>4, <2>1, HowOftenItWins
  <2>3. odds = 30000
    BY <1>0, <1>2, <1>4
  <2> QED
    BY <2>2, <2>3 DEF wins
<1>5. CASE s.type \in {"RED", "BLACK", "ODD", "EVEN", "LOW", "HIGH"}
  <2>1. Cardinality(wins) = 18
    BY <1>1, <1>5, HowOftenItWins
  <2>2. odds = 20000
    BY <1>0, <1>2, <1>5
  <2> QED
    BY <2>1, <2>2 DEF wins
<1> QED
  BY <1>2, <1>3, <1>4, <1>5 DEF BetTypes

\* What is paid for a selection over the whole wheel: 36 of 37 stakes.
LEMMA WheelPaysBack == EveryBetHasTheSameEdge
<1> SUFFICES ASSUME NEW s, "odds" \in DOMAIN PriceSelection("ROULETTE", s)
             PROVE  SumFunction([pocket \in Wheel |-> SettleSelection(s, pocket)])
                      = (PocketCount - 1) * BasisPointsOne
  BY DEF EveryBetHasTheSameEdge
<1>1. ValidSelection(s)
  <2>1. "odds" \notin DOMAIN [refused |-> "INVALID_SELECTION"]
    OBVIOUS
  <2> QED
    BY <2>1 DEF PriceSelection
<1> DEFINE paid == [pocket \in Wheel |-> SettleSelection(s, pocket)]
           wins == {pocket \in Wheel : SelectionWins(s, pocket)}
<1>2. /\ RouletteOdds[s.type] \in Nat
      /\ RouletteOdds[s.type] * Cardinality(wins) = 360000
  BY <1>1, OddsMatchTheWheel
<1>3. IsFiniteSet(Wheel)
  <2>1. Wheel = 0..36
    BY DEF Wheel, PocketCount
  <2>2. 0 \in Int /\ 36 \in Int
    OBVIOUS
  <2> QED
    BY <2>1, <2>2, FS_Interval, Zenon
<1>4. DOMAIN paid = Wheel /\ wins \in SUBSET Wheel
      /\ \A pocket \in Wheel : paid[pocket] = IF pocket \in wins THEN RouletteOdds[s.type] ELSE 0
  BY DEF SettleSelection
<1> HIDE DEF paid, wins
<1>5. SumFunctionOnSet(paid, Wheel) = RouletteOdds[s.type] * Cardinality(wins)
  BY <1>2, <1>3, <1>4, SumOfPrizes
<1>6. SumFunction(paid) = 360000
  BY <1>2, <1>4, <1>5 DEF SumFunction
<1>7. (PocketCount - 1) * BasisPointsOne = 360000
  BY DEF PocketCount, BasisPointsOne
<1> QED
  BY <1>6, <1>7 DEF paid

\* No bet of the table is better than another: settleSelection and ROULETTE_ODDS.
THEOREM RouletteKeepsEdge == Spec => []RouletteKeepsItsEdge
<1>1. RouletteKeepsItsEdge
  BY WheelPaysBack DEF RouletteKeepsItsEdge
<1> QED
  BY <1>1, PTL

=============================================================================
