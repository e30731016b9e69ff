SPECIFICATION Spec
CONSTANTS
  Dim = 3
  Word = 3
  Me <- MCMe
  PrimMask = 2
  RcvdAddr = {}
  SecAddr <- MCSecAddr
  Peer <- MCPeer
  PeerMask <- MCPeerMask
  SecPeer <- MCSecPeer
  Far <- MCFar
  Hops = {2}
  Temp = temp
  Garbage = garbage
  MAX_TTL = 10
  T_ROUTE = 1
  Packet <- MCPacket
  MaxPackets = 4
  MaxChanges = 2
INVARIANT TypeInvariant
INVARIANT RouteHasTimer
INVARIANT IncompleteOnlyToPeers
PROPERTY RoutesGo
