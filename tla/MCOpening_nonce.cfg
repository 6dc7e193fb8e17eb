SPECIFICATION OpeningSpec
CONSTANTS
  p1 = p1
  p2 = p2
  Processes <- TwoProcesses
  ChainLength = 2
  MaxNonce = 4
SYMMETRY Symmetry
INVARIANTS
  ProofsVerify
