SPECIFICATION Spec
CONSTANTS
  Alice = Alice
  k1 = k1
  k2 = k2
  Users <- MCUsers
  Keys <- MCKeys
  Stakes <- MCStakes
  MaxRounds = 2
  MaxAge = 3
  Grace = 1
  SpinTicks = 1
  Curve <- MCCurve
  CrashPoints <- MCCrashPoints
  Pockets <- MCPockets
  Selections <- MCSelections
  Covers <- MCCovers
  Odds <- MCOdds
  GrowthNumerator = 3
  GrowthDenominator = 2
  MaxTicks = 8
  TickMs = 3
  BustDivisor = 5
  EntropySpace = 64
  Hashes <- MCHashes
  Sha256 <- MCSha256
  ChainSize = 5
INVARIANTS
  TypeOK
  BooksMatchBets
  ClosedRoundsHoldNoStake
  VerdictsFollowOutcome
  CurveIsSearchedRight
  CuttingGainsNothing
  CrashKeepsItsEdge
  RouletteKeepsItsEdge
  TableIsLaidOutRight
  ChainVerifies
PROPERTIES
  BetsFrozenOnceLocked
  VerdictsAreFinal
CHECK_DEADLOCK FALSE
