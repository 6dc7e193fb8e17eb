-------------------------------- MODULE Money --------------------------------
(***************************************************************************)
(* Multipliers and payouts in whole minor units.  The server and its       *)
(* clients share this arithmetic.                                          *)
(***************************************************************************)
EXTENDS Integers

\* 1.00x
BasisPointsOne == 10000

\* Mutation of Payout: half a minor unit is rounded up.
PayoutToNearest(stake, bp) == (stake * bp + BasisPointsOne \div 2) \div BasisPointsOne

\* applyBasisPoints: the payout is floored to whole minor units.
Payout(stake, bp) == (stake * bp) \div BasisPointsOne

=============================================================================
