SPECIFICATION FairSpec
CONSTANTS
  Alice = Alice
  c1 = c1
  c2 = c2
  c3 = c3
  Users <- OneUser
  Clients <- TwoClients
  MaxTokens = 3
INVARIANTS
  TypeOK
  OneLiveTokenPerFamily
PROPERTIES
  DeadFamiliesStayDead
  ReuseIsPunished
  RequestsEnd
