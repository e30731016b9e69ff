SPECIFICATION Spec
CONSTANTS
  n1 = n1
  n2 = n2
  n3 = n3
  NoAddr = {3}
  Node = {n1, n2}
  Link <- AllLinks
  Mac <- TwoMacs
  Dim = 3
  Word = 2
  MaxRcvdPap = 2
  StackMasks = {0, 3}
  MaxJoining = 1
  Prompt = TRUE
  OneNetwork = FALSE
  MaxCrashes = 0
INVARIANT ConexionFlagMeansJoining
CHECK_DEADLOCK FALSE
