SPECIFICATION Spec
CONSTANTS
  x = x
  y = y
  z = z
  w = w
  Node = {x, y, z, w}
  Dim = 5
  Word = 3
  PrimAddr <- MCPrimAddr
  Inicial <- MCInicial
  Starts <- MCStarts
  Others <- MCOthers
  Hidden <- MCHidden
  Movable <- MCMovable
  MaxMoves = 1
  MaxGiven = 1
INVARIANT TypeInvariant
INVARIANT SecondaryIsMine
INVARIANT RecoverableIsFree
INVARIANT LinkIsKnown
PROPERTY BrokenIsDropped
