SPECIFICATION Spec
CONSTANTS
  n1 = n1
  n2 = n2
  n3 = n3
  NoAddr = {2}
  Node = {n1, n2, n3}
  Link <- AllLinks
  Mac <- OneMac
  Dim = 2
  Word = 1
  MaxRcvdPap = 4
  StackMasks = {0}
  MaxJoining = 1
  Prompt = FALSE
  OneNetwork = TRUE
  MaxCrashes = 0
SYMMETRY Symmetry
INVARIANT UniqueAddress
CHECK_DEADLOCK FALSE
