SPECIFICATION Spec
CONSTANTS
  Alice = Alice
  Bob = Bob
  k1 = k1
  k2 = k2
  c1 = c1
  c2 = c2
  e1 = e1
  e2 = e2
  Users <- OneUser
  Keys <- TwoKeys
  Stakes <- OneOrTwo
  MaxRounds = 1
  MaxAge = 2
  Grace = 1
  SpinTicks = 1
  Curve <- MCCurve
  CrashPoints <- MCCrashPoints
  Pockets <- MCPockets
  Selections <- MCSelections
  Covers <- MCCovers
  Odds <- MCOdds
  Clients <- TwoClients
  Engines <- TwoEngines
  Mortal <- AllWorkers
  Grant = 2
SYMMETRY Symmetry
INVARIANTS
  TypeOK
  NoOverdraft
  EscrowHoldsActiveStakes
PROPERTIES
  ImplementsBook
  LateRoundsAreVoided
