SPECIFICATION FairSpec
CONSTANTS
  Alice = Alice
  Bob = Bob
  k1 = k1
  k2 = k2
  c1 = c1
  c2 = c2
  e1 = e1
  e2 = e2
  Users <- OneUser
  Keys <- TwoKeys
  Stakes <- MCStakes
  MaxRounds = 2
  MaxAge = 1
  Grace = 1
  SpinTicks = 1
  Curve <- MCCurve
  CrashPoints <- InstantCrash
  Pockets <- MCPockets
  Selections <- MCSelections
  Covers <- MCCovers
  Odds <- MCOdds
  Clients <- OneClient
  Engines <- OneEngine
  Mortal <- OneClient
  Grant = 2
PROPERTIES
  RequestsEnd
  RoundsClose
