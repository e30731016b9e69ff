SPECIFICATION Spec
CONSTANTS
  p1 = p1
  Peer = {p1}
  T_HB = 5
  T_LHB = 8
  N_INACT = 1
  MaxDelay = 2
  MaxLost = 1
INVARIANT TypeInvariant
INVARIANT CountIsMissed
INVARIANT StaleEntryBound
PROPERTY GoneAfterInact
PROPERTY OnlyTheDownGo
PROPERTY AwayIsGivenUp
PROPERTY PresentIsKnown
