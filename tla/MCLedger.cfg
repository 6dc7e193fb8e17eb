SPECIFICATION Spec
CONSTANTS
  alice = alice
  bob = bob
  r1 = r1
  r2 = r2
  Emails <- MCEmails
  Requests <- MCRequests
  Profits <- MCProfits
  Stakes <- MCStakes
  Grant = 2
  PageSize = 1
  MaxUsers = 2
  MaxBets = 2
  MaxEntries = 8
SYMMETRY Symmetry
CHECK_DEADLOCK FALSE
INVARIANTS
  TypeOK
  AlwaysHealthy
  RegisteredOnce
  StatementsNeverDip
  HistoryIsComplete
  ListingSkipsNobody
