------------------------------ MODULE Routing ------------------------------
(***************************************************************************)
(* Reactive routing (pkt_handle.c) and the route table (rt_table.c) of one *)
(* node.  Every packet passes the netfilter hooks; the node adds host      *)
(* routes for it to the table of the kernel, which then forwards it.       *)
(*                                                                         *)
(* The program never sees the table itself.  rt_table_dump writes it over  *)
(* the beginning of the list route_t and leaves the rest of the list as it *)
(* was, so that routes of an earlier, longer table stay behind the end.    *)
(*                                                                         *)
(* `available' is 1 in every entry of neigh_table, and rt_table_dump finds *)
(* the same routes in route and in send_to_next_neighbor that it calls: no *)
(* entry of rt_info is looked up there, its bitmap always starts at zero,  *)
(* is filled during one call and is not read again.                        *)
(***************************************************************************)
EXTENDS Hypercube, Integers, Sequences, SequencesExt, Lists

CONSTANTS
  Me,         \* prim_addr
  PrimMask,   \* prim_mask
  RcvdAddr,   \* rcvd_addr, a set of [addr, mask]
  SecAddr,    \* {} when there is no secondary address, else {[addr, mask]}
  Peer,       \* the addresses that may enter neigh_table
  PeerMask,   \* PeerMask[p]: the mask in the entry of p
  SecPeer,    \* the peers with sec_addr_conn, reached from the secondary address
  Far,        \* the addresses of other nodes
  Hops,       \* MAX_TTL less the hop limit, as the priority of a reverse route
  Temp,       \* 2001:db8::, the gateway of a route that is not complete
  Garbage,    \* an address that is no gateway on the link
  MAX_TTL,    \* the priority of the other routes
  T_ROUTE,    \* ticks until a route is deleted
  Packet,     \* the packets that come
  MaxPackets, \* bound: how many
  MaxChanges  \* bound: how often neigh_table changes

ASSUME RoutingAssumption ==
  /\ Me \in Addr /\ Peer \subseteq Addr /\ Far \subseteq Addr
  /\ (\A a \in Addr : a # Temp /\ a # Garbage) /\ Temp # Garbage
  /\ PrimMask \in Nat /\ PeerMask \in [Peer -> Nat]
  /\ Peer \cap Far = {} /\ Me \notin Peer \cup Far
  /\ Hops \subseteq Nat /\ MAX_TTL \in Nat
  /\ T_ROUTE \in Nat \ {0} /\ MaxPackets \in Nat /\ MaxChanges \in Nat

Gateway == Peer \cup {Temp}
Target  == Peer \cup Far
Route   == [dst : Target, gtw : Gateway, distance : Hops \cup {MAX_TTL}]

\* Routes that the kernel does not take.
RefusedRoute == [dst : Target, gtw : {Garbage, Me}, distance : Hops \cup {0, MAX_TTL}]

(***************************************************************************)
(* What a packet shows of itself, and the hook that it passes.  `from' are *)
(* its bytes 56 to 71: prim_addr in the copy that LOCAL_OUT makes, else    *)
(* payload, such as the source of the packet that an ICMP error quotes.    *)
(***************************************************************************)
ASSUME PacketAssumption ==
  Packet \subseteq
    [hook : {"PRE_ROUTING", "FORWARD", "LOCAL_OUT", "LOCAL_IN"},
     type : {"data", "rv", "join"}, src : Target \cup {Me}, dst : Target \cup {Me},
     from : Peer \cup {Me, Garbage}, hops : Hops]

VARIABLES
  neigh_table,  \* the addresses of the neighbours, in the order of the list
  kernel,       \* the host routes of the main table, in the order of a dump
  route_t,      \* the copy in user space
  rt_info,      \* rt_info without its first entries, which have no source
  rt_timer,     \* the timers of del_rt_route2; all run T_ROUTE, so the first is due first
  nat_table,    \* the destinations with an entry in nat_table
  packets,      \* how many packets came
  changes       \* how often neigh_table changed

routing == <<kernel, route_t, rt_info, rt_timer, nat_table>>
vars == <<neigh_table, routing, packets, changes>>

\* The node of a list that was allocated and never written.
Blank == [dst |-> Garbage, gtw |-> Garbage, distance |-> 0]

\* src 0 of an entry that send_to_next_neighbor made.
NoSrc == Garbage

Init ==
  /\ neigh_table = <<>>
  /\ kernel = <<>>
  /\ route_t = <<Blank>>
  /\ rt_info = <<>>
  /\ rt_timer = <<>>
  /\ nat_table = {}
  /\ packets = 0
  /\ changes = 0

-----------------------------------------------------------------------------
(***************************************************************************)
(* The table of the kernel and its copy.  The operators take and return    *)
(* the state s = [k, t, i, tm, n] of a handler that is running: kernel,    *)
(* route_t, rt_info, rt_timer and nat_table.                               *)
(***************************************************************************)
Now == [k |-> kernel, t |-> route_t, i |-> rt_info, tm |-> rt_timer, n |-> nat_table]

Becomes(s) ==
  /\ kernel' = s.k
  /\ route_t' = s.t
  /\ rt_info' = s.i
  /\ rt_timer' = s.tm
  /\ nat_table' = s.n

\* rt_table_dump: the table over the beginning of the list, and at least one
\* more node at the end.
Dump(s) ==
  LET old == Len(s.t)
      new == Len(s.k)
  IN  [s EXCEPT !.t =
         s.k \o (IF new < old THEN SubSeq(s.t, new + 1, old) ELSE <<Blank>>)]

\* The order of addresses in the table: the first bit that differs decides.
Lower(a, b) == a # b /\ FirstBit(Diff(a, b)) \in b

\* r comes after q in the table; equal priorities stay in the order they came.
Follows(r, q) ==
  \/ Lower(q.dst, r.dst)
  \/ q.dst = r.dst /\ q.distance < r.distance

\* The kernel takes a route whose gateway is on the link and that it has not yet.
Insert(k, r) ==
  IF r.gtw \notin Gateway \/ r \in Range(k) THEN k
  ELSE LET after == {i \in DOMAIN k : Follows(k[i], r)}
       IN  Those(k, DOMAIN k \ after) \o <<r>> \o Those(k, after)

Without(k, R) == Those(k, {i \in DOMAIN k : k[i] \notin R})

To(d, g, h) == [dst |-> d, gtw |-> g, distance |-> h]

\* A timer that deletes r when it is served.
Timer(r) == [route |-> r, age |-> 0]

\* Wrong variant: no timer for a route to a destination that has one already.
AddRtRouteOneTimer(s, r) ==
  [s EXCEPT !.k  = Insert(s.k, r),
            !.tm = IF \E t \in Range(s.tm) : t.route.dst = r.dst THEN @ ELSE Append(@, Timer(r))]

\* Every add arms a timer, whatever the kernel makes of the route.
AddRtRoute(s, r) == [s EXCEPT !.k = Insert(s.k, r), !.tm = Append(@, Timer(r))]

\* The kernel deletes the routes with that gateway and that priority; their
\* timers go on.
DelRtRoute(s, R) == [s EXCEPT !.k = Without(s.k, R)]

\* The positions of the list with destination d.
At(t, d) == {i \in 1 .. Len(t) : t[i].dst = d}

FirstOf(S) == CHOOSE i \in S : \A j \in S : i <= j
LastOf(S)  == CHOOSE i \in S : \A j \in S : i >= j

\* The routes of the list to d, in its order.
RoutesTo(t, d) == Those(t, At(t, d))

\* The route that the timer of an entry of rt_info names: the gateway and the
\* distance of its parameter are not initialised, and there is no such route.
NoRoute(d) == To(d, Garbage, 0)

\* add_rt_info: it compares destinations with a pointer, so it always appends.
AddRtInfo(s, d, src, id) ==
  [s EXCEPT !.i  = Append(@, [dst |-> d, src |-> src, id |-> id]),
            !.tm = Append(@, Timer(NoRoute(d)))]

-----------------------------------------------------------------------------
\* return_from: the routes to the destination that have the priority MAX_TTL
\* make room for one back to where the packet came from.
ReturnFrom(s, p) ==
  LET s1 == Dump(s)
      R  == {To(p.dst, s1.t[i].gtw, MAX_TTL) : i \in At(s1.t, p.dst)}
  IN  AddRtRoute(DelRtRoute(s1, R), To(p.dst, p.from, MAX_TTL))

\* dist_w_mask: the distance to the space of a neighbour.
DistWMask(x, n) == Cardinality({b \in Diff(x, n) : b < PeerMask[n]})

DistTo(p, n) == IF p.type = "rv" THEN DistWMask(p.dst, n) ELSE Dist(p.dst, n)

\* The neighbours that this call has not visited.
Unvisited(p) == {i \in 1 .. Len(neigh_table) : neigh_table[i] # p.from}

\* The loop over the neighbours: nearer, or as near and the destination is in
\* its space.
BestNeighbor(p) ==
  LET Better(i, b) ==
        \/ b = 0
        \/ DistTo(p, neigh_table[i]) < DistTo(p, neigh_table[b])
        \/ /\ DistTo(p, neigh_table[i]) = DistTo(p, neigh_table[b])
           /\ InSpace(p.dst, neigh_table[i], PeerMask[neigh_table[i]])
      best[i \in 0 .. Len(neigh_table)] ==
        IF i = 0 THEN 0
        ELSE IF i \in Unvisited(p) /\ Better(i, best[i - 1]) THEN i ELSE best[i - 1]
  IN  neigh_table[best[Len(neigh_table)]]

\* Wrong variant: the old routes are not deleted.
SendBackKeeps(s, p) ==
  LET Turn(u, r) == AddRtRoute(u, To(p.dst, p.from, r.distance))
  IN  FoldLeft(Turn, s, RoutesTo(s.t, p.dst))

\* All neighbours were visited: for every route to the destination one back is
\* added, then the old one is deleted, even where they are the same.
SendBack(s, p) ==
  LET old == RoutesTo(s.t, p.dst)
      Turn(u, r) == DelRtRoute(AddRtRoute(u, To(p.dst, p.from, r.distance)), {r})
      turned[i \in 0 .. Len(old)] == IF i = 0 THEN s ELSE Turn(turned[i - 1], old[i])
  IN  turned[Len(old)]

\* rt_id: the last position of the list with the destination.
Entry(t, d) == LastOf(At(t, d))

\* The incomplete route is deleted and one via the neighbour nh is added.
Complete(s, p, id) ==
  LET old == s.t[id]
      nh  == BestNeighbor(p)
      s1  == AddRtRoute(DelRtRoute(s, {old}), To(p.dst, nh, old.distance))
  IN  IF nh \in SecPeer THEN [s1 EXCEPT !.n = @ \cup {p.dst}] ELSE s1

SendToNextNeighbor(s, p) ==
  LET s1 == Dump(AddRtRoute(Dump(s), To(p.dst, Temp, MAX_TTL)))
      id == Entry(s1.t, p.dst)
      s2 == AddRtInfo(s1, p.dst, NoSrc, id)
  IN  IF neigh_table = <<>> THEN Dump(s)
      ELSE IF Unvisited(p) = {} THEN SendBack(s2, p)
      ELSE Complete(s2, p, id)

-----------------------------------------------------------------------------
\* rv_route: whether an RV packet is for this node.  A recovered space counts
\* only while there is no secondary address.
RvRoute(x) ==
  \/ InSpace(x, Me, PrimMask)
  \/ IF SecAddr = {} THEN \E r \in RcvdAddr : InSpace(x, r.addr, r.mask)
     ELSE \E r \in SecAddr : InSpace(x, r.addr, r.mask)

\* An entry says that the route at position i was made for a packet from x.
\* The first one with the position counts; rt_info_init made one for the first.
MadeFor(s, i, x) ==
  LET S == {j \in 1 .. Len(s.i) : s.i[j].id = i}
  IN  i > 1 /\ S # {} /\ s.i[FirstOf(S)].src = x

ForMe(p) == p.type = "rv" /\ p.dst # Me /\ RvRoute(p.dst)

\* Wrong variant: the hop limit that is left is the distance.
BackToTTL(p) == To(p.src, p.from, MAX_TTL - p.hops)

\* The route back to the source of a packet.
BackTo(p) == To(p.src, p.from, p.hops)

\* Every route of the list to the source is replaced by the one back to it.
Replace(s, done, p) ==
  LET old == RoutesTo(done, p.src)
      Turn(u, r) == AddRtRoute(DelRtRoute(u, {r}), BackTo(p))
      turned[i \in 0 .. Len(old)] == IF i = 0 THEN s ELSE Turn(turned[i - 1], old[i])
  IN  turned[Len(old)]

\* The reverse entry: the routes to the source are replaced by one to where the
\* packet came from.  `metric' is never set, so loop is what it happens to say.
ReverseEntry(s, p, loop) ==
  LET s1    == Dump(s)
      here  == At(s1.t, p.src)
      loops == {i \in here : loop /\ MadeFor(s1, i, p.dst)}
      done  == IF loops = {} THEN s1.t ELSE SubSeq(s1.t, 1, FirstOf(loops) - 1)
      s2    == IF here = {} THEN AddRtRoute(s1, BackTo(p)) ELSE Replace(s1, done, p)
  IN  [s      |-> IF loops = {} THEN s2 ELSE ReturnFrom(s2, p),
       looped |-> loops # {},
       gtw    |-> IF here = {} THEN p.from ELSE s1.t[LastOf(here)].gtw]

\* needs_join: the reverse entry is remembered if the list still has it.
Join(s, p, gtw) ==
  LET s1 == Dump(s)
      S  == {i \in At(s1.t, p.src) : s1.t[i].gtw = gtw}
  IN  IF S = {} THEN s1 ELSE AddRtInfo(s1, p.src, p.src, FirstOf(S))

\* The part of route after the reverse entry.
Onward(s, p, pre, join, gtw) ==
  LET s1   == Dump(s)
      S    == {i \in At(s1.t, p.dst) : s1.t[i].gtw # p.dst}
      back == pre /\ s1.t[FirstOf(S)].gtw = p.from
      s2   == IF back THEN ReturnFrom(s1, p) ELSE s1
  IN  IF p.dst = Me THEN s
      ELSE IF S = {} THEN SendToNextNeighbor(s1, p)
      ELSE IF join THEN Join(s2, p, gtw)
      ELSE s2

NeedsReverse(p, pre) == pre /\ p.from # Me /\ p.src \notin Range(neigh_table)

RouteTo(s, p, pre, loop) ==
  LET r == ReverseEntry(s, p, loop)
  IN  IF p.type = "join" \/ (p.src = Me /\ p.dst = Me) THEN s
      ELSE IF pre /\ p.src = Me THEN ReturnFrom(s, p)
      ELSE IF ForMe(p) THEN s
      ELSE IF ~NeedsReverse(p, pre) THEN Onward(s, p, pre, FALSE, p.from)
      ELSE IF r.looped THEN r.s
      ELSE Onward(r.s, p, pre, TRUE, r.gtw)

-----------------------------------------------------------------------------
Comes ==
  /\ packets < MaxPackets
  /\ packets' = packets + 1
  /\ UNCHANGED <<neigh_table, changes>>

PreRouting(p) ==
  /\ Comes
  /\ p.hook = "PRE_ROUTING"
  /\ p.src # p.dst
  /\ \E loop \in BOOLEAN : Becomes(RouteTo(Now, p, TRUE, loop))

Forward(p) ==
  /\ Comes
  /\ p.hook = "FORWARD"
  /\ p.src # p.dst /\ p.dst # Me
  /\ Becomes(RouteTo(Now, p, FALSE, FALSE))

\* LOCAL_OUT: FROM is prim_addr.  Behind a source that is translated the type
\* is looked for in the padding of the header.
LocalOut(p) ==
  /\ Comes
  /\ p.hook = "LOCAL_OUT"
  /\ p.src = Me
  /\ p.from = Me
  /\ LET q == IF p.dst \in nat_table THEN [p EXCEPT !.src = Garbage, !.type = "data"] ELSE p
     IN  Becomes(RouteTo(Now, q, FALSE, FALSE))

\* The gateway of the route of an echo reply: the first of the neighbours that
\* are nearest to the source.  Without neighbours `gw' is not initialised: one of
\* an earlier call, or no gateway at all.
ReplyGateway(x) ==
  LET near == {i \in 1 .. Len(neigh_table) : \A j \in 1 .. Len(neigh_table) :
                 Dist(x, neigh_table[i]) <= Dist(x, neigh_table[j])}
  IN  IF neigh_table = <<>> THEN Peer \cup {Garbage} ELSE {neigh_table[FirstOf(near)]}

\* LOCAL_IN: an echo request makes the route of its reply.
LocalIn(p) ==
  /\ Comes
  /\ p.hook = "LOCAL_IN"
  /\ p.type = "data" /\ p.dst = Me /\ p.src # Me
  /\ \E gw \in ReplyGateway(p.src) : Becomes(AddRtRoute(Now, To(p.src, gw, MAX_TTL)))

\* del_rt_info compares the destination and the gateway of a route with those of
\* every entry.  A gateway is never written there: none is the one of a route,
\* but any, or none, may be equal to what the parameter of an entry's own timer
\* happens to hold.
DelRtInfo(r) ==
  {rt_info} \cup
    {RemoveAt(rt_info, j) : j \in {i \in 1 .. Len(rt_info) : r = NoRoute(rt_info[i].dst)}}

\* del_rt_route2, the handler of the timers.
Expire ==
  LET t == Head(rt_timer)
  IN  /\ rt_timer # <<>> /\ t.age = T_ROUTE
      /\ kernel' = Without(kernel, {t.route})
      /\ rt_timer' = Tail(rt_timer)
      /\ rt_info' \in DelRtInfo(t.route)
      /\ UNCHANGED <<neigh_table, route_t, nat_table, packets, changes>>

Tick ==
  /\ \A t \in Range(rt_timer) : t.age < T_ROUTE
  /\ rt_timer' = [i \in 1 .. Len(rt_timer) |-> [rt_timer[i] EXCEPT !.age = @ + 1]]
  /\ UNCHANGED <<neigh_table, kernel, route_t, rt_info, nat_table, packets, changes>>

\* The neighbours come and go with their heartbeats.
Changes ==
  /\ changes < MaxChanges
  /\ changes' = changes + 1
  /\ UNCHANGED <<routing, packets>>

NeighborComes(n) ==
  /\ Changes
  /\ n \notin Range(neigh_table)
  /\ neigh_table' = Append(neigh_table, n)

NeighborGoes(n) ==
  /\ Changes
  /\ n \in Range(neigh_table)
  /\ neigh_table' = Those(neigh_table, {i \in DOMAIN neigh_table : neigh_table[i] # n})

Next ==
  \/ \E p \in Packet : PreRouting(p)
  \/ \E p \in Packet : Forward(p)
  \/ \E p \in Packet : LocalOut(p)
  \/ \E p \in Packet : LocalIn(p)
  \/ Expire
  \/ Tick
  \/ \E n \in Peer : NeighborComes(n)
  \/ \E n \in Peer : NeighborGoes(n)

Spec == Init /\ [][Next]_vars /\ WF_vars(Tick) /\ WF_vars(Expire)

-----------------------------------------------------------------------------
TypeInvariant ==
  /\ neigh_table \in Seq(Peer)
  /\ kernel \in Seq(Route)
  /\ route_t \in Seq(Route \cup {Blank})
  /\ rt_timer \in Seq([route : Route \cup RefusedRoute, age : 0 .. T_ROUTE])
  /\ rt_info \in Seq([dst : Target, src : Target \cup {NoSrc}, id : 1 .. Len(route_t)])
  /\ nat_table \subseteq Target
  /\ packets \in 0 .. MaxPackets /\ changes \in 0 .. MaxChanges

\* labels.h:63, the time to delete a route: however often a route is replaced,
\* returned or added again, none is without a timer that will delete it.
RouteHasTimer ==
  \A r \in Range(kernel) : \E t \in Range(rt_timer) : t.route = r

\* pkt_handle.c:463: an incomplete route is completed before the packet goes on,
\* for every destination that is not a neighbour.
IncompleteOnlyToPeers ==
  \A r \in Range(kernel) : r.gtw = Temp => r.dst \in Peer

\* When packets stop coming, all host routes go.
RoutesGo == []<>(kernel = <<>>)
=============================================================================
