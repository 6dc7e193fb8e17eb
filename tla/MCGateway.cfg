SPECIFICATION FairSpec
CONSTANTS
  browser = browser
  Sockets <- MCSockets
  Rounds = {1, 2}
  Start <- MCStart
  Connections = {1, 2}
  Chains = {1, 2}
  MaxChanges = 2
  MaxLosses = 2
  MaxReads = 2
CHECK_DEADLOCK FALSE
INVARIANTS
  TypeOK
  NewsIsTrue
  SocketsAreUpToDate
PROPERTIES NewsInOrder ListenerSettles
