SPECIFICATION Spec
CONSTANTS
  hb_t = hb_t
  chk_neigh_t = chk_neigh_t
  rv_t = rv_t
  route_t = route_t
  Null = Null
  Timer = {hb_t, chk_neigh_t, rv_t, route_t}
  Duration <- MCDuration
  BootTimers = {hb_t, chk_neigh_t, rv_t}
  PacketTimers = {rv_t, route_t}
  OneShot = {route_t}
  MaxBlock = 1
  Callbacks = 2
INVARIANT TypeInvariant
INVARIANT SoundLists
INVARIANT LateBound
PROPERTY ImplementsAlarms
PROPERTY DueIsServed
PROPERTY ArmedIsServed
