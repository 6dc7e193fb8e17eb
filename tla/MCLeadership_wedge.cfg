SPECIFICATION FairSpec
CONSTANTS
  p1 = p1
  p2 = p2
  Processes <- TwoProcesses
PROPERTIES
  CrashedLeaderDoesNotWedge
