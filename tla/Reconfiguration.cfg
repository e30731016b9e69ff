SPECIFICATION Spec
CONSTANTS
  n1 = n1
  n2 = n2
  n3 = n3
  n4 = n4
  Dim = 6
  Word = 6
  Node = {n1, n2, n3, n4}
  Link <- MCLink
  Mac <- MCMac
  Start <- MCStart
  MaxBeats = 3
INVARIANT TypeInvariant
INVARIANT SettledIsDisjoint
PROPERTY FlagsCleared
CHECK_DEADLOCK FALSE
