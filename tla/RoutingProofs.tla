--------------------------- MODULE RoutingProofs ---------------------------
(***************************************************************************)
(* What the handlers of packets keep: every route of the kernel has a      *)
(* timer that will delete it, and no route to a node further away than a   *)
(* neighbour stays without a gateway, whatever packets come, however the   *)
(* neighbours change and whatever an uninitialised metric says.            *)
(***************************************************************************)
EXTENDS Routing, ListLemmas, FiniteSetTheorems, TLAPS

\* The states of a handler that is running.
Source  == Target \cup {NoSrc}
Info    == [dst : Target, src : Source, id : Nat]
Alarm   == [route : Route \cup RefusedRoute, age : 0 .. T_ROUTE]
Handler == [k : Seq(Route), t : Seq(Route \cup {Blank}), i : Seq(Info),
            tm : Seq(Alarm), n : SUBSET Target]

Copy    == Seq(Route \cup {Blank})

\* What a handler may take for a gateway.
Via == Peer \cup {Me, Garbage, Temp}

\* The entries of rt_info are about positions of the list.
IdsInList(s) == \A e \in Range(s.i) : e.id \in 1 .. Len(s.t)

\* Every route has a timer.
Timed(s) == \A r \in Range(s.k) : \E t \in Range(s.tm) : t.route = r

\* No route without a gateway, but for neighbours.
Completed(s) == \A r \in Range(s.k) : r.gtw = Temp => r.dst \in Peer

\* What holds at every point of a handler, and what holds at its end.
Sound(s) == s \in Handler /\ IdsInList(s) /\ Timed(s)
Good(s)  == Sound(s) /\ Completed(s)

\* The neighbours, which the handlers of packets do not change.
TypedNeighbors == neigh_table \in Seq(Peer)

\* A packet as the handlers see it.
Seen == [hook : {"PRE_ROUTING", "FORWARD", "LOCAL_OUT", "LOCAL_IN"},
         type : {"data", "rv", "join"}, src : Target \cup {Me, Garbage},
         dst : Target \cup {Me}, from : Peer \cup {Me, Garbage}, hops : Hops]

-----------------------------------------------------------------------------
\* Temp and Garbage are no addresses of nodes.
LEMMA Special ==
  /\ Temp \notin Target /\ Temp \notin Peer /\ Temp # Me /\ Temp # Garbage
  /\ Garbage \notin Target /\ Garbage \notin Gateway /\ Garbage # Me
  /\ Me \notin Target /\ Me \notin Gateway
  BY RoutingAssumption DEF Target, Gateway

\* The fields of a handler's state can be replaced one by one.
LEMMA SetK ==
  ASSUME NEW s \in Handler, NEW a \in Seq(Route)
  PROVE  /\ [s EXCEPT !.k = a] \in Handler
         /\ [s EXCEPT !.k = a].k = a
         /\ [s EXCEPT !.k = a].t = s.t
         /\ [s EXCEPT !.k = a].i = s.i
         /\ [s EXCEPT !.k = a].tm = s.tm
         /\ [s EXCEPT !.k = a].n = s.n
  BY DEF Handler

LEMMA SetT ==
  ASSUME NEW s \in Handler, NEW a \in Seq(Route \cup {Blank})
  PROVE  /\ [s EXCEPT !.t = a] \in Handler
         /\ [s EXCEPT !.t = a].k = s.k
         /\ [s EXCEPT !.t = a].t = a
         /\ [s EXCEPT !.t = a].i = s.i
         /\ [s EXCEPT !.t = a].tm = s.tm
         /\ [s EXCEPT !.t = a].n = s.n
  BY DEF Handler

LEMMA SetN ==
  ASSUME NEW s \in Handler, NEW a \in SUBSET Target
  PROVE  /\ [s EXCEPT !.n = a] \in Handler
         /\ [s EXCEPT !.n = a].k = s.k
         /\ [s EXCEPT !.n = a].t = s.t
         /\ [s EXCEPT !.n = a].i = s.i
         /\ [s EXCEPT !.n = a].tm = s.tm
  BY DEF Handler

LEMMA Fields ==
  ASSUME NEW s \in Handler
  PROVE  /\ s.k \in Seq(Route) /\ s.t \in Seq(Route \cup {Blank})
         /\ s.i \in Seq(Info) /\ s.tm \in Seq(Alarm) /\ s.n \subseteq Target
  BY DEF Handler

\* A route that the kernel takes is a route to a node.
LEMMA TakenIsRoute ==
  ASSUME NEW r \in Route \cup RefusedRoute, r.gtw \in Gateway
  PROVE  r \in Route
  BY Special DEF RefusedRoute

\* The fields of a route, and where it belongs.
LEMMA ToFacts ==
  ASSUME NEW d \in Target, NEW g \in Via,
         NEW h \in Hops \cup {MAX_TTL}
  PROVE  /\ To(d, g, h) \in Route \cup RefusedRoute
         /\ To(d, g, h).dst = d /\ To(d, g, h).gtw = g /\ To(d, g, h).distance = h
  BY DEF To, Route, RefusedRoute, Gateway, Via

LEMMA NoRouteFacts ==
  ASSUME NEW d \in Target
  PROVE  NoRoute(d) \in Route \cup RefusedRoute
  BY DEF NoRoute, To, RefusedRoute

LEMMA TimerFacts ==
  ASSUME NEW r \in Route \cup RefusedRoute
  PROVE  Timer(r) \in Alarm /\ Timer(r).route = r
  BY RoutingAssumption DEF Timer, Alarm

\* The kernel takes the route or leaves the table as it is.
LEMMA InsertFacts ==
  ASSUME NEW k \in Seq(Route), NEW r \in Route \cup RefusedRoute
  PROVE  /\ Insert(k, r) \in Seq(Route)
         /\ Range(Insert(k, r)) = Range(k) \cup (IF r.gtw \in Gateway THEN {r} ELSE {})
  <1>1. CASE r.gtw \notin Gateway \/ r \in Range(k)
    BY <1>1 DEF Insert
  <1>2. CASE ~ (r.gtw \notin Gateway \/ r \in Range(k))
    <2> DEFINE after == {i \in DOMAIN k : Follows(k[i], r)}
               a == Those(k, DOMAIN k \ after)
               b == Those(k, after)
    <2>1. r \in Route
      BY <1>2, TakenIsRoute
    <2>2. Insert(k, r) = a \o <<r>> \o b
      BY <1>2 DEF Insert
    <2>3. after \subseteq DOMAIN k
      OBVIOUS
    <2> HIDE DEF after
    <2>4. /\ a \in Seq(Route)
          /\ \A e : e \in Range(a) <=> \E i \in DOMAIN k : i \in DOMAIN k \ after /\ k[i] = e
      BY ThoseFacts
    <2>5. /\ b \in Seq(Route)
          /\ \A e : e \in Range(b) <=> \E i \in DOMAIN k : i \in after /\ k[i] = e
      BY ThoseFacts
    <2> HIDE DEF a, b
    <2>6. Range(a) \cup Range(b) = Range(k)
      BY <2>3, <2>4, <2>5 DEF Range
    <2>7. <<r>> \in Seq(Route) /\ Range(<<r>>) = {r}
      BY <2>1 DEF Range
    <2>8. a \o <<r>> \in Seq(Route) /\ Range(a \o <<r>>) = Range(a) \cup {r}
      <3> DEFINE c == <<r>>
      <3> HIDE DEF c
      <3>1. c \in Seq(Route) /\ Range(c) = {r}
        BY <2>7 DEF c
      <3>2. a \o c \in Seq(Route) /\ Range(a \o c) = Range(a) \cup Range(c)
        BY <2>4, <3>1, ConcatFacts
      <3> QED BY <3>1, <3>2 DEF c
    <2> DEFINE d == a \o <<r>>
    <2> HIDE DEF d
    <2>9. d \o b \in Seq(Route) /\ Range(d \o b) = Range(d) \cup Range(b)
      <3>1. d \in Seq(Route)
        BY <2>8 DEF d
      <3> QED BY <2>5, <3>1, ConcatFacts
    <2>10. Range(d \o b) = Range(k) \cup {r}
      BY <2>6, <2>8, <2>9 DEF d
    <2> QED BY <1>2, <2>2, <2>9, <2>10 DEF d
  <1> QED BY <1>1, <1>2

LEMMA WithoutFacts ==
  ASSUME NEW k \in Seq(Route), NEW R
  PROVE  Without(k, R) \in Seq(Route) /\ Range(Without(k, R)) = Range(k) \ R
  <1> DEFINE K == {i \in DOMAIN k : k[i] \notin R}
  <1>1. Without(k, R) = Those(k, K)
    BY DEF Without
  <1>2. /\ Those(k, K) \in Seq(Route)
        /\ \A e : e \in Range(Those(k, K)) <=> \E i \in DOMAIN k : i \in K /\ k[i] = e
    <2> HIDE DEF K
    <2> QED BY ThoseFacts
  <1>3. \A e : e \in Range(Those(k, K)) <=> e \in Range(k) \ R
    BY <1>2 DEF Range
  <1> QED BY <1>1, <1>2, <1>3

-----------------------------------------------------------------------------
\* Adding a route: it is in the table if the kernel takes it, and in any case
\* there is a timer for it.
LEMMA AddFacts ==
  ASSUME NEW s \in Handler, NEW r \in Route \cup RefusedRoute
  PROVE  /\ AddRtRoute(s, r) \in Handler
         /\ AddRtRoute(s, r).t = s.t /\ AddRtRoute(s, r).i = s.i
         /\ Range(AddRtRoute(s, r).k) =
              Range(s.k) \cup (IF r.gtw \in Gateway THEN {r} ELSE {})
         /\ Range(AddRtRoute(s, r).tm) = Range(s.tm) \cup {Timer(r)}
  <1> DEFINE a == Insert(s.k, r)
             b == Append(s.tm, Timer(r))
  <1>1. /\ a \in Seq(Route)
        /\ Range(a) = Range(s.k) \cup (IF r.gtw \in Gateway THEN {r} ELSE {})
    BY Fields, InsertFacts
  <1>2. b \in Seq(Alarm) /\ Range(b) = Range(s.tm) \cup {Timer(r)}
    BY Fields, TimerFacts, AppendRange
  <1> DEFINE u == [s EXCEPT !.k = a, !.tm = b]
  <1>3. AddRtRoute(s, r) = u
    BY DEF AddRtRoute
  <1> HIDE DEF a, b
  <1>4. u \in Handler /\ u.k = a /\ u.t = s.t /\ u.i = s.i /\ u.tm = b
    <2>1. a \in Seq(Route) /\ b \in Seq(Alarm)
      BY <1>1, <1>2
    <2> QED BY <2>1 DEF Handler
  <1> HIDE DEF u
  <1> QED BY <1>1, <1>2, <1>3, <1>4

LEMMA DelFacts ==
  ASSUME NEW s \in Handler, NEW R
  PROVE  /\ DelRtRoute(s, R) \in Handler
         /\ DelRtRoute(s, R).t = s.t /\ DelRtRoute(s, R).i = s.i
         /\ Range(DelRtRoute(s, R).k) = Range(s.k) \ R
         /\ DelRtRoute(s, R).tm = s.tm
  <1> DEFINE a == Without(s.k, R)
  <1>1. a \in Seq(Route) /\ Range(a) = Range(s.k) \ R
    BY Fields, WithoutFacts
  <1>2. DelRtRoute(s, R) = [s EXCEPT !.k = a]
    BY DEF DelRtRoute
  <1> HIDE DEF a
  <1> QED BY <1>1, <1>2, SetK

\* The copy holds the table, and never gets shorter.
LEMMA DumpFacts ==
  ASSUME NEW s \in Handler
  PROVE  /\ Dump(s) \in Handler
         /\ Dump(s).k = s.k /\ Dump(s).i = s.i /\ Dump(s).tm = s.tm
         /\ Range(s.k) \subseteq Range(Dump(s).t)
         /\ Range(Dump(s).t) \subseteq Range(s.k) \cup Range(s.t) \cup {Blank}
         /\ Len(Dump(s).t) \in Nat /\ Len(Dump(s).t) >= Len(s.t)
  <1> DEFINE old == Len(s.t)
             new == Len(s.k)
             e == IF new < old THEN SubSeq(s.t, new + 1, old) ELSE <<Blank>>
             T == Route \cup {Blank}
  <1>1. s.k \in Seq(Route) /\ s.t \in Seq(T)
    BY Fields
  <1>2. old \in Nat /\ new \in Nat /\ s.k \in Seq(T)
    BY <1>1
  <1>3. e \in Seq(T) /\ Range(e) \subseteq Range(s.t) \cup {Blank} /\ new + Len(e) >= old
    <2>1. CASE new < old
      <3>1. e = SubSeq(s.t, new + 1, old)
        BY <2>1
      <3> HIDE DEF e, T
      <3>2. /\ new + 1 \in Nat /\ new + 1 >= 1 /\ old <= Len(s.t)
            /\ new + 1 <= old + 1 /\ old + 1 - (new + 1) = old - new
        <4>1. old = Len(s.t)
          OBVIOUS
        <4> HIDE DEF old, new
        <4>2. old \in Nat /\ new \in Nat /\ new < old
          BY <1>2, <2>1
        <4>3. old <= Len(s.t)
          BY <4>1, <4>2
        <4>4. /\ new + 1 \in Nat /\ new + 1 >= 1
              /\ new + 1 <= old + 1 /\ old + 1 - (new + 1) = old - new
          BY <4>2
        <4> QED BY <4>3, <4>4
      <3> HIDE DEF new, old
      <3>3. /\ SubSeq(s.t, new + 1, old) \in Seq(T)
            /\ Len(SubSeq(s.t, new + 1, old)) = old + 1 - (new + 1)
            /\ Range(SubSeq(s.t, new + 1, old)) \subseteq Range(s.t)
        BY <1>1, <1>2, <3>2, SubSeqFacts
      <3> QED BY <1>2, <3>1, <3>2, <3>3
    <2>2. CASE ~ (new < old)
      <3>1. e = <<Blank>>
        BY <2>2
      <3>2. <<Blank>> \in Seq(T) /\ Range(<<Blank>>) = {Blank} /\ Len(<<Blank>>) = 1
        <4> DEFINE x == Blank
        <4> HIDE DEF x
        <4>1. <<x>> \in Seq(Route \cup {x}) /\ Range(<<x>>) = {x} /\ Len(<<x>>) = 1
          BY DEF Range
        <4> QED BY <4>1 DEF x
      <3> QED BY <1>2, <2>2, <3>1, <3>2
    <2> QED BY <2>1, <2>2
  <1>4. Dump(s) = [s EXCEPT !.t = s.k \o e]
    BY DEF Dump
  <1> HIDE DEF e, T
  <1>5. /\ s.k \o e \in Seq(T) /\ Len(s.k \o e) = Len(s.k) + Len(e)
        /\ Range(s.k \o e) = Range(s.k) \cup Range(e)
    BY <1>2, <1>3, ConcatFacts
  <1> DEFINE a == s.k \o e
  <1> HIDE DEF a
  <1>6. a \in Seq(Route \cup {Blank})
    BY <1>5 DEF a, T
  <1> DEFINE u == [s EXCEPT !.t = a]
  <1>7. /\ u \in Handler /\ u.t = a
        /\ u.k = s.k /\ u.i = s.i /\ u.tm = s.tm
    BY <1>6, SetT
  <1>9. Dump(s) = u
    BY <1>4 DEF a
  <1> HIDE DEF u
  <1>8. Len(a) \in Nat /\ Len(a) >= old
    BY <1>3, <1>5, <1>6 DEF a
  <1> QED BY <1>3, <1>5, <1>7, <1>8, <1>9 DEF a

LEMMA AddInfoFacts ==
  ASSUME NEW s \in Handler, NEW d \in Target, NEW x \in Source, NEW id \in Nat
  PROVE  /\ AddRtInfo(s, d, x, id) \in Handler
         /\ AddRtInfo(s, d, x, id).k = s.k /\ AddRtInfo(s, d, x, id).t = s.t
         /\ \A e \in Range(s.tm) : e \in Range(AddRtInfo(s, d, x, id).tm)
         /\ \A e \in Range(AddRtInfo(s, d, x, id).i) : e \in Range(s.i) \/ e.id = id
  <1> DEFINE c == [dst |-> d, src |-> x, id |-> id]
             a == Append(s.i, c)
             b == Append(s.tm, Timer(NoRoute(d)))
  <1>1. c \in Info /\ c.id = id
    BY DEF Info
  <1>2. a \in Seq(Info) /\ Range(a) = Range(s.i) \cup {c}
    BY <1>1, Fields, AppendRange
  <1>3. b \in Seq(Alarm) /\ Range(b) = Range(s.tm) \cup {Timer(NoRoute(d))}
    BY Fields, NoRouteFacts, TimerFacts, AppendRange
  <1> DEFINE u == [s EXCEPT !.i = a, !.tm = b]
  <1>4. AddRtInfo(s, d, x, id) = u
    BY DEF AddRtInfo
  <1> HIDE DEF a, b
  <1>5. u \in Handler /\ u.k = s.k /\ u.t = s.t /\ u.i = a /\ u.tm = b
    <2>1. a \in Seq(Info) /\ b \in Seq(Alarm)
      BY <1>2, <1>3
    <2> QED BY <2>1 DEF Handler
  <1> HIDE DEF u, c
  <1> QED BY <1>1, <1>2, <1>3, <1>4, <1>5

-----------------------------------------------------------------------------
\* The small steps keep a sound state sound.
LEMMA SoundAdd ==
  ASSUME NEW s, Sound(s), NEW r \in Route \cup RefusedRoute
  PROVE  Sound(AddRtRoute(s, r))
  <1>1. s \in Handler /\ IdsInList(s) /\ Timed(s)
    BY DEF Sound
  <1> DEFINE u == AddRtRoute(s, r)
  <1>2. /\ u \in Handler /\ u.t = s.t /\ u.i = s.i
        /\ Range(u.k) = Range(s.k) \cup (IF r.gtw \in Gateway THEN {r} ELSE {})
        /\ Range(u.tm) = Range(s.tm) \cup {Timer(r)}
    BY <1>1, AddFacts
  <1>3. Timer(r).route = r
    BY TimerFacts
  <1> HIDE DEF u
  <1>4. Timed(u)
    BY <1>1, <1>2, <1>3 DEF Timed
  <1>5. IdsInList(u)
    BY <1>1, <1>2 DEF IdsInList
  <1>6. Sound(u)
    BY <1>2, <1>4, <1>5 DEF Sound
  <1> QED BY <1>6 DEF u

LEMMA SoundDel ==
  ASSUME NEW s, Sound(s), NEW R
  PROVE  Sound(DelRtRoute(s, R))
  <1>1. s \in Handler /\ IdsInList(s) /\ Timed(s)
    BY DEF Sound
  <1> DEFINE u == DelRtRoute(s, R)
  <1>2. /\ u \in Handler /\ u.t = s.t /\ u.i = s.i
        /\ Range(u.k) = Range(s.k) \ R /\ u.tm = s.tm
    BY <1>1, DelFacts
  <1> HIDE DEF u
  <1>3. Timed(u) /\ IdsInList(u)
    BY <1>1, <1>2 DEF Timed, IdsInList
  <1> QED BY <1>2, <1>3 DEF Sound, u

LEMMA SoundDump ==
  ASSUME NEW s, Sound(s)
  PROVE  Sound(Dump(s))
  <1>1. s \in Handler /\ IdsInList(s) /\ Timed(s)
    BY DEF Sound
  <1> DEFINE u == Dump(s)
  <1>2. /\ u \in Handler /\ u.k = s.k /\ u.i = s.i /\ u.tm = s.tm
        /\ Len(u.t) \in Nat /\ Len(u.t) >= Len(s.t)
    BY <1>1, DumpFacts
  <1> HIDE DEF u
  <1>3. Timed(u)
    BY <1>1, <1>2 DEF Timed
  <1>4. Len(s.t) \in Nat
    BY <1>1, Fields
  <1>5. ASSUME NEW e \in Range(u.i) PROVE e.id \in 1 .. Len(u.t)
    <2>1. e.id \in 1 .. Len(s.t)
      BY <1>1, <1>2 DEF IdsInList
    <2> QED BY <1>2, <1>4, <2>1
  <1> QED BY <1>2, <1>3, <1>5 DEF Sound, IdsInList, u

LEMMA SoundInfo ==
  ASSUME NEW s, Sound(s), NEW d \in Target, NEW x \in Source,
         NEW id \in Nat, id \in 1 .. Len(s.t)
  PROVE  Sound(AddRtInfo(s, d, x, id))
  <1>1. s \in Handler /\ IdsInList(s) /\ Timed(s)
    BY DEF Sound
  <1> DEFINE u == AddRtInfo(s, d, x, id)
  <1>2. u \in Handler /\ u.k = s.k /\ u.t = s.t
    BY <1>1, AddInfoFacts
  <1>6. ASSUME NEW e \in Range(s.tm) PROVE e \in Range(u.tm)
    BY <1>1, AddInfoFacts
  <1>3. \A e \in Range(u.i) : e \in Range(s.i) \/ e.id = id
    BY <1>1, AddInfoFacts
  <1> HIDE DEF u
  <1>4. Timed(u)
    BY <1>1, <1>2, <1>6 DEF Timed
  <1>5. IdsInList(u)
    BY <1>1, <1>2, <1>3 DEF IdsInList
  <1> QED BY <1>2, <1>4, <1>5 DEF Sound, u

\* And, but for a route without a gateway, a good one good.
LEMMA GoodAdd ==
  ASSUME NEW s, Good(s), NEW r \in Route \cup RefusedRoute, r.gtw = Temp => r.dst \in Peer
  PROVE  Good(AddRtRoute(s, r))
  <1>1. Sound(s) /\ s \in Handler /\ Completed(s)
    BY DEF Good, Sound
  <1>2. Completed(AddRtRoute(s, r))
    BY <1>1, AddFacts DEF Completed
  <1> QED BY <1>1, <1>2, SoundAdd DEF Good

LEMMA GoodDel ==
  ASSUME NEW s, Good(s), NEW R
  PROVE  Good(DelRtRoute(s, R))
  <1>1. Sound(s) /\ s \in Handler /\ Completed(s)
    BY DEF Good, Sound
  <1>2. Completed(DelRtRoute(s, R))
    BY <1>1, DelFacts DEF Completed
  <1> QED BY <1>1, <1>2, SoundDel DEF Good

LEMMA GoodDump ==
  ASSUME NEW s, Good(s)
  PROVE  Good(Dump(s))
  <1>1. Sound(s) /\ s \in Handler /\ Completed(s)
    BY DEF Good, Sound
  <1>2. Completed(Dump(s))
    BY <1>1, DumpFacts DEF Completed
  <1> QED BY <1>1, <1>2, SoundDump DEF Good

LEMMA GoodInfo ==
  ASSUME NEW s, Good(s), NEW d \in Target, NEW x \in Source,
         NEW id \in Nat, id \in 1 .. Len(s.t)
  PROVE  Good(AddRtInfo(s, d, x, id))
  <1>1. Sound(s) /\ s \in Handler /\ Completed(s)
    BY DEF Good, Sound
  <1>2. AddRtInfo(s, d, x, id).k = s.k
    BY <1>1, AddInfoFacts
  <1>3. Completed(AddRtInfo(s, d, x, id))
    BY <1>1, <1>2 DEF Completed
  <1> QED BY <1>1, <1>3, SoundInfo DEF Good

\* An entry of the copy with the address of a node is a route.
LEMMA ListedIsRoute ==
  ASSUME NEW e \in Route \cup {Blank}, e.dst \in Target
  PROVE  /\ e \in Route /\ e.distance \in Hops \cup {MAX_TTL}
         /\ e.gtw \in Gateway
  BY Special DEF Blank, Route

\* The routes of a list to a destination.
LEMMA RoutesToFacts ==
  ASSUME NEW t \in Seq(Route \cup {Blank}), NEW d \in Target
  PROVE  /\ RoutesTo(t, d) \in Seq(Route \cup {Blank})
         /\ \A r : r \in Range(RoutesTo(t, d)) <=> r \in Range(t) /\ r.dst = d
         /\ \A j \in DOMAIN RoutesTo(t, d) : /\ RoutesTo(t, d)[j] \in Route
                                            /\ RoutesTo(t, d)[j].dst = d
  <1> DEFINE T == Route \cup {Blank}
             K == At(t, d)
             q == RoutesTo(t, d)
  <1>1. q = Those(t, K)
    BY DEF RoutesTo
  <1>2. DOMAIN t = 1 .. Len(t)
    OBVIOUS
  <1>3. \A i \in DOMAIN t : i \in K <=> t[i].dst = d
    BY <1>2 DEF At
  <1> HIDE DEF T, K, q
  <1>4. t \in Seq(T)
    BY DEF T
  <1>5. q \in Seq(T) /\ \A e : e \in Range(q) <=> \E i \in DOMAIN t : i \in K /\ t[i] = e
    BY <1>1, <1>4, ThoseFacts
  <1>6. \A r : r \in Range(q) <=> r \in Range(t) /\ r.dst = d
    BY <1>3, <1>5 DEF Range
  <1>7. ASSUME NEW j \in DOMAIN q PROVE q[j] \in Route /\ q[j].dst = d
    <2>1. q[j] \in T /\ q[j] \in Range(q)
      BY <1>5 DEF Range
    <2> QED BY <1>6, <2>1, ListedIsRoute DEF T
  <1> QED BY <1>5, <1>6, <1>7 DEF T, q

-----------------------------------------------------------------------------
\* What a packet says is what a route can be made of.
LEMMA SeenFacts ==
  ASSUME NEW p \in Seen
  PROVE  /\ p.dst \in Target \cup {Me} /\ p.src \in Target \cup {Me, Garbage}
         /\ p.from \in Peer \cup {Me, Garbage} /\ p.from # Temp /\ p.hops \in Hops
  BY Special DEF Seen

\* The route back to the source of a packet.
LEMMA BackFacts ==
  ASSUME NEW p \in Seen, p.src \in Target
  PROVE  BackTo(p) \in Route \cup RefusedRoute /\ BackTo(p).gtw # Temp
  <1>1. /\ p.from \in Via /\ p.from # Temp
        /\ p.hops \in Hops \cup {MAX_TTL}
    BY SeenFacts DEF Via
  <1> QED BY <1>1, ToFacts DEF BackTo

\* return_from.
LEMMA GoodReturnFrom ==
  ASSUME NEW s, Good(s), NEW p \in Seen, p.dst \in Target
  PROVE  Good(ReturnFrom(s, p))
  <1> DEFINE s1 == Dump(s)
             R  == {To(p.dst, s1.t[i].gtw, MAX_TTL) : i \in At(s1.t, p.dst)}
             r  == To(p.dst, p.from, MAX_TTL)
  <1>1. ReturnFrom(s, p) = AddRtRoute(DelRtRoute(s1, R), r)
    BY DEF ReturnFrom
  <1>2. r \in Route \cup RefusedRoute /\ r.gtw # Temp
    <2>1. p.from \in Via /\ p.from # Temp
      BY SeenFacts DEF Via
    <2> QED BY <2>1, ToFacts
  <1>3. Good(s1)
    BY GoodDump
  <1> HIDE DEF s1, R, r
  <1>4. Good(DelRtRoute(s1, R))
    BY <1>3, GoodDel
  <1> DEFINE s2 == DelRtRoute(s1, R)
  <1> HIDE DEF s2
  <1>5. Good(AddRtRoute(s2, r))
    BY <1>2, <1>4, GoodAdd DEF s2
  <1> QED BY <1>1, <1>5 DEF s2

\* The loop over the neighbours ends with one of them unless all were visited.
LEMMA BestIsPeer ==
  ASSUME TypedNeighbors, NEW p, Unvisited(p) # {}
  PROVE  BestNeighbor(p) \in Peer
  <1> DEFINE n == Len(neigh_table)
             S == 0 .. n
             Better(i, b) ==
               \/ b = 0
               \/ DistTo(p, neigh_table[i]) < DistTo(p, neigh_table[b])
               \/ /\ DistTo(p, neigh_table[i]) = DistTo(p, neigh_table[b])
                  /\ InSpace(p.dst, neigh_table[i], PeerMask[neigh_table[i]])
             Turn(i, b) == IF i \in Unvisited(p) /\ Better(i, b) THEN i ELSE b
             h == [i \in 1 .. n |-> [b \in S |-> Turn(i, b)]]
             Best(f) == f = [i \in 0 .. n |-> IF i = 0 THEN 0 ELSE Turn(i, f[i - 1])]
             best == CHOOSE f : Best(f)
  <1>1. n \in Nat /\ 0 \in S /\ Unvisited(p) \subseteq 1 .. n
    BY DEF Unvisited, TypedNeighbors
  <1>2. BestNeighbor(p) = neigh_table[best[n]]
    BY DEF BestNeighbor
  <1>3. \A i \in 1 .. n, b \in S :
          /\ Turn(i, b) \in S
          /\ b # 0 => Turn(i, b) # 0
          /\ i \in Unvisited(p) => Turn(i, b) # 0
    <2>1. \A i \in 1 .. n, b \in S : Turn(i, b) = i \/ Turn(i, b) = b
      OBVIOUS
    <2>2. \A i \in 1 .. n : i \in Unvisited(p) => Turn(i, 0) = i
      OBVIOUS
    <2> HIDE DEF Turn
    <2> QED BY <1>1, <2>1, <2>2
  <1> HIDE DEF n, Turn, S
  <1>4. h \in [1 .. n -> [S -> S]] /\ \A i \in 1 .. n, b \in S : h[i][b] = Turn(i, b)
    BY <1>3
  <1> HIDE DEF h
  <1>5. \E f : Best(f)
    <2>1. PICK f \in [0 .. n -> S] : f[0] = 0 /\ \A i \in 1 .. n : f[i] = h[i][f[i - 1]]
      <3> DEFINE z == 0
      <3>1. z \in S /\ n \in Nat /\ h \in [1 .. n -> [S -> S]]
        BY <1>1, <1>4
      <3> HIDE DEF z
      <3>2. \E f \in [0 .. n -> S] : f[0] = z /\ \A i \in 1 .. n : f[i] = h[i][f[i - 1]]
        <4> HIDE DEF Best, best, Better
        <4> QED BY ONLY <3>1, LoopExists
      <3> QED BY <3>2 DEF z
    <2>2. \A i \in 0 .. n : i # 0 => i \in 1 .. n /\ f[i - 1] \in S
      BY <1>1
    <2>3. \A i \in 0 .. n : f[i] = IF i = 0 THEN 0 ELSE Turn(i, f[i - 1])
      BY <1>4, <2>1, <2>2
    <2>4. Best(f)
      BY <2>3
    <2> QED BY <2>4
  <1>6. Best(best)
    BY <1>5
  <1> HIDE DEF best
  <1>7. best[0] = 0 /\ \A i \in 1 .. n : best[i] = Turn(i, best[i - 1])
    BY <1>1, <1>6
  <1> DEFINE I == {i \in 0 .. n : best[i] \in S /\ \A j \in Unvisited(p) : j <= i => best[i] # 0}
  <1>8. 0 \in I
    BY <1>1, <1>7
  <1>9. ASSUME NEW i \in 1 .. n, i - 1 \in I PROVE i \in I
    <2>1. best[i - 1] \in S /\ best[i] = Turn(i, best[i - 1])
      BY <1>7, <1>9
    <2>2. ASSUME NEW j \in Unvisited(p), j <= i PROVE best[i] # 0
      <3>1. CASE j = i
        BY <1>3, <2>1, <3>1
      <3>2. CASE j # i
        <4>1. j <= i - 1
          BY <1>1, <2>2, <3>2
        <4> QED BY <1>3, <1>9, <2>1, <4>1
      <3> QED BY <3>1, <3>2
    <2> QED BY <1>1, <1>3, <2>1, <2>2
  <1>10. n \in I
    <2>1. I \subseteq 0 .. n
      OBVIOUS
    <2> HIDE DEF I
    <2> QED BY <1>1, <1>8, <1>9, <2>1, LoopInvariant
  <1>11. best[n] \in 1 .. n
    <2>1. PICK j : j \in Unvisited(p) /\ j \in 1 .. n
      BY <1>1
    <2> QED BY <1>1, <1>10, <2>1 DEF S
  <1> QED BY <1>2, <1>11 DEF n, TypedNeighbors

-----------------------------------------------------------------------------
\* What a turn of the loop of send_to_next_neighbor does to the table.
LEMMA TurnBack ==
  ASSUME NEW u, Sound(u), NEW r \in Route, NEW new \in Route \cup RefusedRoute
  PROVE  /\ Sound(DelRtRoute(AddRtRoute(u, new), {r}))
         /\ \A x \in Range(DelRtRoute(AddRtRoute(u, new), {r}).k) :
               x # r /\ (x \in Range(u.k) \/ x = new)
  <1> DEFINE v == AddRtRoute(u, new)
  <1>1. u \in Handler
    BY DEF Sound
  <1>2. Sound(v) /\ v \in Handler
    BY SoundAdd DEF Sound
  <1>3. Range(v.k) = Range(u.k) \cup (IF new.gtw \in Gateway THEN {new} ELSE {})
    BY <1>1, AddFacts
  <1> HIDE DEF v
  <1>4. Sound(DelRtRoute(v, {r})) /\ Range(DelRtRoute(v, {r}).k) = Range(v.k) \ {r}
    BY <1>2, SoundDel, DelFacts
  <1>5. \A x \in Range(DelRtRoute(v, {r}).k) : x # r /\ (x \in Range(u.k) \/ x = new)
    BY <1>3, <1>4
  <1> QED BY <1>4, <1>5 DEF v

\* All neighbours were visited: the routes to the destination are turned round,
\* the incomplete one among them.
LEMMA GoodSendBack ==
  ASSUME NEW s, Sound(s), NEW p \in Seen, p.dst \in Target,
         Range(s.k) \subseteq Range(s.t),
         \A r \in Range(s.k) : r.gtw = Temp => r.dst \in Peer \/ r.dst = p.dst
  PROVE  Good(SendBack(s, p))
  <1> DEFINE old == RoutesTo(s.t, p.dst)
             n == Len(old)
             new(r) == To(p.dst, p.from, r.distance)
             Turn(u, r) == DelRtRoute(AddRtRoute(u, new(r)), {r})
             St == {u \in Handler : Sound(u)}
             h == [i \in 1 .. n |-> [u \in St |-> Turn(u, old[i])]]
             Turned(f) == f = [i \in 0 .. n |-> IF i = 0 THEN s ELSE Turn(f[i - 1], old[i])]
             turned == CHOOSE f : Turned(f)
  <1>1. SendBack(s, p) = turned[n]
    BY DEF SendBack
  <1>2. s.t \in Seq(Route \cup {Blank}) /\ s \in St
    BY Fields DEF Sound
  <1>3. /\ old \in Seq(Route \cup {Blank})
        /\ \A r : r \in Range(old) <=> r \in Range(s.t) /\ r.dst = p.dst
        /\ \A j \in DOMAIN old : old[j] \in Route
    <2> DEFINE t == s.t
               d == p.dst
    <2>1. t \in Seq(Route \cup {Blank}) /\ d \in Target
      BY <1>2
    <2> HIDE DEF t, d
    <2>2. /\ RoutesTo(t, d) \in Seq(Route \cup {Blank})
          /\ \A r : r \in Range(RoutesTo(t, d)) <=> r \in Range(t) /\ r.dst = d
          /\ \A j \in DOMAIN RoutesTo(t, d) : RoutesTo(t, d)[j] \in Route
      BY <2>1, RoutesToFacts
    <2> QED BY <2>2 DEF t, d
  <1> HIDE DEF old
  <1>4. n \in Nat /\ DOMAIN old = 1 .. n /\ \A i \in 1 .. n : old[i] \in Route
    BY <1>3
  <1>5. ASSUME NEW r \in Route
        PROVE  new(r) \in Route \cup RefusedRoute /\ new(r).gtw # Temp
    <2>1. p.from \in Via /\ p.from # Temp
      BY SeenFacts DEF Via
    <2>2. r.distance \in Hops \cup {MAX_TTL}
      BY DEF Route
    <2> QED BY <2>1, <2>2, ToFacts
  <1> HIDE DEF n, new
  <1>6. ASSUME NEW u \in St, NEW r \in Route
        PROVE  /\ Turn(u, r) \in St
               /\ \A x \in Range(Turn(u, r).k) : x # r /\ (x \in Range(u.k) \/ x.gtw # Temp)
    <2>1. /\ Sound(Turn(u, r))
          /\ \A x \in Range(Turn(u, r).k) : x # r /\ (x \in Range(u.k) \/ x = new(r))
      BY <1>5, TurnBack
    <2> QED BY <1>5, <2>1 DEF Sound
  <1> HIDE DEF Turn, St
  <1>7. h \in [1 .. n -> [St -> St]] /\ \A i \in 1 .. n, u \in St : h[i][u] = Turn(u, old[i])
    BY <1>4, <1>6
  <1> HIDE DEF h
  <1>8. \E f : Turned(f)
    <2>1. PICK f \in [0 .. n -> St] : f[0] = s /\ \A i \in 1 .. n : f[i] = h[i][f[i - 1]]
      <3>1. s \in St /\ n \in Nat /\ h \in [1 .. n -> [St -> St]]
        BY <1>2, <1>4, <1>7
      <3> QED BY <3>1, LoopExists
    <2>2. \A i \in 0 .. n : i # 0 => i \in 1 .. n /\ f[i - 1] \in St
      BY <1>4
    <2>3. \A i \in 0 .. n : f[i] = IF i = 0 THEN s ELSE Turn(f[i - 1], old[i])
      BY <1>7, <2>1, <2>2
    <2>4. Turned(f)
      BY <2>3
    <2> QED BY <2>4
  <1>9. Turned(turned)
    BY <1>8
  <1> HIDE DEF turned
  <1>10. turned[0] = s /\ \A i \in 1 .. n : turned[i] = Turn(turned[i - 1], old[i])
    BY <1>4, <1>9
  <1> DEFINE Left(i) == \A x \in Range(turned[i].k) : x.gtw = Temp =>
                          x \in Range(s.k) /\ \A j \in 1 .. i : x # old[j]
             I == {i \in 0 .. n : turned[i] \in St /\ Left(i)}
  <1>11. 0 \in I
    BY <1>2, <1>4, <1>10
  <1>12. ASSUME NEW i \in 1 .. n, i - 1 \in I PROVE i \in I
    <2>1. turned[i - 1] \in St /\ Left(i - 1) /\ turned[i] = Turn(turned[i - 1], old[i])
      BY <1>10, <1>12
    <2>2. /\ turned[i] \in St
          /\ \A x \in Range(turned[i].k) :
               x # old[i] /\ (x \in Range(turned[i - 1].k) \/ x.gtw # Temp)
      BY <1>4, <1>6, <2>1
    <2>3. \A j : j \in 1 .. i => j \in 1 .. i - 1 \/ j = i
      BY <1>4
    <2>4. Left(i)
      BY <2>1, <2>2, <2>3
    <2> QED BY <1>4, <2>2, <2>4
  <1>13. n \in I
    <2>1. I \subseteq 0 .. n
      OBVIOUS
    <2> HIDE DEF I
    <2> QED BY <1>4, <1>11, <1>12, <2>1, LoopInvariant
  <1>14. Sound(turned[n]) /\ Left(n)
    BY <1>13 DEF St
  <1>15. ASSUME NEW x \in Range(turned[n].k), x.gtw = Temp PROVE x.dst \in Peer
    <2>1. x \in Range(s.k) /\ x \in Range(s.t) /\ \A j \in 1 .. n : x # old[j]
      BY <1>14, <1>15
    <2>2. x \notin Range(old)
      BY <1>4, <2>1 DEF Range
    <2> QED BY <1>3, <1>15, <2>1, <2>2
  <1> QED BY <1>1, <1>14, <1>15 DEF Good, Completed

\* The last and the first position of a list with a destination.
LEMMA LastIsThere ==
  ASSUME NEW T, NEW t \in Seq(T), NEW d, At(t, d) # {}
  PROVE  Entry(t, d) \in 1 .. Len(t) /\ t[Entry(t, d)].dst = d
  <1> DEFINE S == At(t, d)
             N == {m \in Nat : \A j \in S : j <= m}
  <1>1. Len(t) \in Nat /\ S \subseteq 1 .. Len(t) /\ \A i \in S : t[i].dst = d
    BY DEF At
  <1>2. S # {}
    OBVIOUS
  <1> HIDE DEF S
  <1>3. N # {} /\ N \subseteq Nat
    <2>1. Len(t) \in N
      BY <1>1
    <2> QED BY <2>1
  <1>4. PICK m \in N : \A y \in N : m <= y
    <2> HIDE DEF N
    <2> QED BY <1>3, LeastNat
  <1>5. m \in Nat /\ \A j \in S : j <= m
    OBVIOUS
  <1>6. m \in S
    <2> SUFFICES ASSUME m \notin S PROVE FALSE
      OBVIOUS
    <2>1. \A j \in S : j <= m - 1
      BY <1>1, <1>5
    <2>2. m - 1 \in Nat
      <3>1. PICK j \in S : j \in 1 .. Len(t)
        BY <1>1, <1>2
      <3>2. j <= m - 1 /\ j \in Nat /\ j >= 1
        BY <1>1, <2>1, <3>1
      <3> QED BY <1>5, <3>2
    <2>3. m - 1 \in N
      BY <2>1, <2>2
    <2> QED BY <1>4, <1>5, <2>3
  <1>7. \E i \in S : \A j \in S : i >= j
    BY <1>1, <1>5, <1>6
  <1>8. LastOf(S) \in S
    BY <1>7 DEF LastOf
  <1>9. Entry(t, d) = LastOf(S)
    BY DEF Entry, S
  <1> QED BY <1>1, <1>8, <1>9

\* A route of a list is found at its destination.
LEMMA ListedIsFound ==
  ASSUME NEW T, NEW t \in Seq(T), NEW r \in Range(t)
  PROVE  At(t, r.dst) # {}
  <1>1. PICK j \in DOMAIN t : t[j] = r
    BY DEF Range
  <1>2. DOMAIN t = 1 .. Len(t)
    OBVIOUS
  <1>3. j \in At(t, r.dst)
    BY <1>1, <1>2 DEF At
  <1> QED BY <1>3

\* The incomplete route is the last of the list to the destination, and when it
\* is the only one, the one via the neighbour replaces it.
LEMMA GoodComplete ==
  ASSUME NEW s, Sound(s), NEW p \in Seen, p.dst \in Target, NEW id \in Nat, id \in DOMAIN s.t,
         s.t[id].dst = p.dst, TypedNeighbors, Unvisited(p) # {},
         \A r \in Range(s.k) :
           r.gtw = Temp => r.dst \in Peer \/ r = s.t[id]
  PROVE  Good(Complete(s, p, id))
  <1> DEFINE old == s.t[id]
             nh  == BestNeighbor(p)
             new == To(p.dst, nh, old.distance)
             s0  == DelRtRoute(s, {old})
             s1  == AddRtRoute(s0, new)
             s2  == [s1 EXCEPT !.n = @ \cup {p.dst}]
  <1>1. Complete(s, p, id) = IF nh \in SecPeer THEN s2 ELSE s1
    BY DEF Complete
  <1>2. s \in Handler /\ s.t \in Seq(Route \cup {Blank})
    BY Fields DEF Sound
  <1>3. old \in Route /\ old.distance \in Hops \cup {MAX_TTL}
    <2>1. old \in Route \cup {Blank} /\ old.dst \in Target
      BY <1>2
    <2> HIDE DEF old
    <2> QED BY <2>1, ListedIsRoute
  <1>4. nh \in Peer
    BY BestIsPeer
  <1> HIDE DEF old, nh
  <1>5. new \in Route \cup RefusedRoute /\ new.gtw # Temp
    <2>1. nh \in Via /\ nh # Temp
      BY <1>4, Special DEF Via
    <2> QED BY <1>3, <2>1, ToFacts
  <1> HIDE DEF new
  <1>6. Sound(s0) /\ s0 \in Handler /\ Range(s0.k) = Range(s.k) \ {old}
    BY <1>2, SoundDel, DelFacts DEF Sound
  <1>7. Completed(s0)
    BY <1>6 DEF Completed, old
  <1> HIDE DEF s0
  <1>8. Good(s1)
    BY <1>5, <1>6, <1>7, GoodAdd DEF Good
  <1> HIDE DEF s1
  <1>9. Good(s2)
    <2>1. s1 \in Handler /\ s1.n \subseteq Target /\ Sound(s1) /\ Completed(s1)
      BY <1>8, Fields DEF Good, Sound
    <2> DEFINE a == s1.n \cup {p.dst}
               u == [s1 EXCEPT !.n = a]
    <2>2. a \in SUBSET Target /\ s2 = u
      BY <2>1
    <2> HIDE DEF a
    <2>3. u \in Handler /\ u.k = s1.k /\ u.t = s1.t /\ u.i = s1.i /\ u.tm = s1.tm
      BY <2>1, <2>2, SetN
    <2> HIDE DEF u
    <2>4. Good(u)
      BY <2>1, <2>3 DEF Good, Sound, IdsInList, Timed, Completed
    <2> QED BY <2>2, <2>4
  <1> QED BY <1>1, <1>8, <1>9

\* send_to_next_neighbor, for a destination of which the list has no route but
\* those of a neighbour to itself.
LEMMA GoodSendToNextNeighbor ==
  ASSUME NEW s, Good(s), NEW p \in Seen, p.dst \in Target, TypedNeighbors,
         p.dst \notin Peer => \A e \in Range(s.k) \cup Range(s.t) : e.dst # p.dst
  PROVE  Good(SendToNextNeighbor(s, p))
  <1> DEFINE tr == To(p.dst, Temp, MAX_TTL)
             a  == Dump(s)
             b  == AddRtRoute(a, tr)
             s1 == Dump(b)
             id == Entry(s1.t, p.dst)
             s2 == AddRtInfo(s1, p.dst, NoSrc, id)
  <1>1. SendToNextNeighbor(s, p) =
          IF neigh_table = <<>> THEN a
          ELSE IF Unvisited(p) = {} THEN SendBack(s2, p)
          ELSE Complete(s2, p, id)
    BY DEF SendToNextNeighbor
  <1>2. s \in Handler /\ Completed(s)
    BY DEF Good, Sound
  <1>3. Good(a) /\ Sound(a) /\ a \in Handler
    BY GoodDump DEF Good, Sound
  <1>4. a.k = s.k /\ Range(a.t) \subseteq Range(s.k) \cup Range(s.t) \cup {Blank}
    BY <1>2, DumpFacts
  <1>5. /\ tr \in Route \cup RefusedRoute /\ tr.gtw \in Gateway
        /\ tr.dst = p.dst /\ tr.gtw = Temp
    <2>1. Temp \in Via /\ MAX_TTL \in Hops \cup {MAX_TTL}
      BY DEF Via
    <2> QED BY <2>1, ToFacts DEF Gateway
  <1> HIDE DEF a, tr
  <1>6. /\ Sound(b) /\ b \in Handler /\ b.t = a.t
        /\ Range(b.k) = Range(s.k) \cup {tr}
    BY <1>3, <1>4, <1>5, SoundAdd, AddFacts DEF Sound
  <1> HIDE DEF b
  <1>7. /\ Sound(s1) /\ s1 \in Handler /\ s1.k = b.k
        /\ Range(b.k) \subseteq Range(s1.t)
        /\ Range(s1.t) \subseteq Range(b.k) \cup Range(b.t) \cup {Blank}
    BY <1>6, SoundDump, DumpFacts DEF Sound
  <1> HIDE DEF s1
  <1>8. s1.t \in Seq(Route \cup {Blank})
    BY <1>7, Fields
  <1>9. id \in 1 .. Len(s1.t) /\ id \in Nat /\ id \in DOMAIN s1.t /\ s1.t[id].dst = p.dst
    <2>1. tr \in Range(s1.t)
      BY <1>6, <1>7
    <2> DEFINE t == s1.t
    <2>2. t \in Seq(Route \cup {Blank}) /\ tr \in Range(t)
      BY <1>8, <2>1
    <2> HIDE DEF t
    <2>3. At(t, p.dst) # {}
      BY <1>5, <2>2, ListedIsFound
    <2>4. Entry(t, p.dst) \in 1 .. Len(t) /\ t[Entry(t, p.dst)].dst = p.dst
      BY <2>2, <2>3, LastIsThere
    <2>5. DOMAIN t = 1 .. Len(t) /\ Len(t) \in Nat
      BY <2>2
    <2> QED BY <2>4, <2>5 DEF t
  <1> HIDE DEF id
  <1>10. Sound(s2) /\ s2 \in Handler /\ s2.k = s1.k /\ s2.t = s1.t
    <2>1. NoSrc \in Source
      BY DEF Source
    <2>2. Sound(s2)
      BY <1>7, <1>9, <2>1, SoundInfo
    <2>3. s2.k = s1.k /\ s2.t = s1.t
      BY <1>7, <1>9, <2>1, AddInfoFacts
    <2> QED BY <2>2, <2>3 DEF Sound
  <1> HIDE DEF s2
  <1>11. ASSUME NEW r \in Range(s2.k), r.gtw = Temp PROVE r.dst \in Peer \/ r = tr
    BY <1>2, <1>6, <1>7, <1>10, <1>11 DEF Completed
  <1>12. Good(SendBack(s2, p))
    <2>1. Range(s2.k) \subseteq Range(s2.t)
      BY <1>7, <1>10
    <2>2. \A r \in Range(s2.k) : r.gtw = Temp => r.dst \in Peer \/ r.dst = p.dst
      BY <1>5, <1>11
    <2> QED BY <1>10, <2>1, <2>2, GoodSendBack
  <1>13. ASSUME Unvisited(p) # {} PROVE Good(Complete(s2, p, id))
    <2>1. id \in DOMAIN s2.t /\ s2.t[id].dst = p.dst
      BY <1>9, <1>10
    <2>2. ASSUME p.dst \notin Peer PROVE s2.t[id] = tr
      <3>1. s2.t[id] \in Range(s1.t)
        BY <1>9, <1>10 DEF Range
      <3>2. s2.t[id] \in Range(s.k) \cup Range(s.t) \cup {Blank} \cup {tr}
        BY <1>4, <1>6, <1>7, <3>1
      <3>3. s2.t[id] # Blank
        BY <2>1, Special DEF Blank
      <3> QED BY <2>1, <2>2, <3>2, <3>3
    <2>3. \A r \in Range(s2.k) : r.gtw = Temp => r.dst \in Peer \/ r = s2.t[id]
      BY <1>5, <1>11, <2>2
    <2> QED BY <1>9, <1>10, <1>13, <2>1, <2>3, GoodComplete
  <1> QED BY <1>1, <1>3, <1>12, <1>13

-----------------------------------------------------------------------------
\* The loop of the reverse entry.
LEMMA GoodReplace ==
  ASSUME NEW s, Good(s), NEW done \in Copy, NEW p \in Seen, p.src \in Target
  PROVE  Good(Replace(s, done, p))
  <1> DEFINE old == RoutesTo(done, p.src)
             n == Len(old)
             Turn(u, r) == AddRtRoute(DelRtRoute(u, {r}), BackTo(p))
             St == {u \in Handler : Good(u)}
             h == [i \in 1 .. n |-> [u \in St |-> Turn(u, old[i])]]
             Turned(f) == f = [i \in 0 .. n |-> IF i = 0 THEN s ELSE Turn(f[i - 1], old[i])]
             turned == CHOOSE f : Turned(f)
  <1>1. Replace(s, done, p) = turned[n]
    BY DEF Replace
  <1>2. s \in St
    BY DEF Good, Sound
  <1>3. n \in Nat
    <2>1. old \in Seq(Route \cup {Blank})
      BY RoutesToFacts DEF Copy
    <2> HIDE DEF old
    <2> QED BY <2>1
  <1> HIDE DEF old, n
  <1>4. ASSUME NEW u \in St, NEW r PROVE Turn(u, r) \in St
    <2>1. Good(u) /\ Good(DelRtRoute(u, {r}))
      BY GoodDel
    <2> DEFINE v == DelRtRoute(u, {r})
    <2> HIDE DEF v
    <2>2. Good(AddRtRoute(v, BackTo(p)))
      BY <2>1, BackFacts, GoodAdd DEF v
    <2> QED BY <2>2 DEF Good, Sound, v
  <1> HIDE DEF Turn, St
  <1>5. h \in [1 .. n -> [St -> St]] /\ \A i \in 1 .. n, u \in St : h[i][u] = Turn(u, old[i])
    BY <1>4
  <1> HIDE DEF h
  <1>6. \E f : Turned(f)
    <2>1. PICK f \in [0 .. n -> St] : f[0] = s /\ \A i \in 1 .. n : f[i] = h[i][f[i - 1]]
      <3>1. s \in St /\ n \in Nat /\ h \in [1 .. n -> [St -> St]]
        BY <1>2, <1>3, <1>5
      <3> QED BY ONLY <3>1, LoopExists
    <2>2. \A i \in 0 .. n : i # 0 => i \in 1 .. n /\ f[i - 1] \in St
      BY <1>3
    <2>3. \A i \in 0 .. n : f[i] = IF i = 0 THEN s ELSE Turn(f[i - 1], old[i])
      BY <1>5, <2>1, <2>2
    <2>4. Turned(f)
      BY <2>3
    <2> QED BY <2>4
  <1>7. Turned(turned)
    BY <1>6
  <1> HIDE DEF turned
  <1>8. turned[0] = s /\ \A i \in 1 .. n : turned[i] = Turn(turned[i - 1], old[i])
    BY <1>3, <1>7
  <1> DEFINE I == {i \in 0 .. n : turned[i] \in St}
  <1>9. 0 \in I
    BY <1>2, <1>3, <1>8
  <1>10. ASSUME NEW i \in 1 .. n, i - 1 \in I PROVE i \in I
    BY <1>3, <1>4, <1>8, <1>10
  <1>11. n \in I
    <2>1. I \subseteq 0 .. n
      OBVIOUS
    <2> HIDE DEF I
    <2> QED BY <1>3, <1>9, <1>10, <2>1, LoopInvariant
  <1> QED BY <1>1, <1>11 DEF St

\* An entry of rt_info was made for a packet from another node, or from nobody:
\* a loop is never seen for a packet to this node.
LEMMA MadeForNode ==
  ASSUME NEW s \in Handler, NEW i, NEW x \in Target \cup {Me}, MadeFor(s, i, x)
  PROVE  x \in Target
  <1> DEFINE S == {j \in 1 .. Len(s.i) : s.i[j].id = i}
  <1>1. s.i \in Seq(Info)
    BY Fields
  <1>2. S # {} /\ s.i[FirstOf(S)].src = x
    BY DEF MadeFor
  <1>3. S \subseteq 1 .. Len(s.i) /\ S \subseteq Nat
    OBVIOUS
  <1> HIDE DEF S
  <1>4. FirstOf(S) \in S
    BY <1>2, <1>3, FirstIndex DEF FirstOf
  <1>5. s.i[FirstOf(S)] \in Info
    <2> DEFINE q == s.i
    <2>1. q \in Seq(Info) /\ FirstOf(S) \in 1 .. Len(q)
      BY <1>1, <1>3, <1>4
    <2> HIDE DEF q
    <2>2. q[FirstOf(S)] \in Info
      BY <2>1
    <2> QED BY <2>2 DEF q
  <1>6. s.i[FirstOf(S)].src \in Target \cup {Garbage}
    BY <1>5 DEF Info, Source, NoSrc
  <1> QED BY <1>2, <1>6, Special

\* The reverse entry, whatever the metric says of a loop.
LEMMA GoodReverseEntry ==
  ASSUME NEW s, Good(s), NEW p \in Seen, p.src \in Target, NEW loop
  PROVE  Good(ReverseEntry(s, p, loop).s)
  <1> DEFINE s1    == Dump(s)
             here  == At(s1.t, p.src)
             loops == {i \in here : loop /\ MadeFor(s1, i, p.dst)}
             done  == IF loops = {} THEN s1.t ELSE SubSeq(s1.t, 1, FirstOf(loops) - 1)
             s2    == IF here = {} THEN AddRtRoute(s1, BackTo(p)) ELSE Replace(s1, done, p)
  <1>1. ReverseEntry(s, p, loop).s = IF loops = {} THEN s2 ELSE ReturnFrom(s2, p)
    BY DEF ReverseEntry
  <1>2. Good(s1) /\ s1 \in Handler
    BY GoodDump DEF Good, Sound
  <1>3. s1.t \in Seq(Route \cup {Blank})
    BY <1>2, Fields
  <1>4. ASSUME loops # {} PROVE p.dst \in Target
    <2>1. PICK i \in loops : MadeFor(s1, i, p.dst)
      BY <1>4
    <2>2. p.dst \in Target \cup {Me}
      BY SeenFacts
    <2> QED BY <1>2, <2>1, <2>2, MadeForNode
  <1> HIDE DEF s1
  <1>5. loops \subseteq 1 .. Len(s1.t)
    BY DEF At
  <1> HIDE DEF loops, here
  <1>6. done \in Copy
    <2>1. CASE loops = {}
      BY <1>3, <2>1 DEF Copy
    <2>2. CASE loops # {}
      <3> DEFINE m == FirstOf(loops)
                 T == Route \cup {Blank}
                 t == s1.t
      <3>1. t \in Seq(T) /\ Len(t) \in Nat
        BY <1>3
      <3>2. loops \subseteq Nat
        BY <1>5, <3>1
      <3>3. m \in loops
        BY <2>2, <3>2, FirstIndex DEF FirstOf
      <3> HIDE DEF m, T
      <3>4. m - 1 \in Nat /\ m - 1 <= Len(t) /\ 1 <= m - 1 + 1
        BY <1>5, <3>1, <3>3
      <3> HIDE DEF t
      <3>5. SubSeq(t, 1, m - 1) \in Seq(T)
        <4> DEFINE a == 1
                   b == m - 1
        <4>1. a \in Nat /\ b \in Nat /\ a >= 1 /\ b <= Len(t) /\ a <= b + 1
          BY <3>4
        <4> HIDE DEF a, b
        <4>2. SubSeq(t, a, b) \in Seq(T)
          BY <3>1, <4>1, SubSeqFacts
        <4> QED BY <4>2 DEF a, b
      <3>6. done = SubSeq(t, 1, m - 1)
        BY <2>2 DEF t, m
      <3> HIDE DEF done
      <3> QED BY <3>5, <3>6 DEF Copy, T
    <2> QED BY <2>1, <2>2
  <1> HIDE DEF done
  <1>7. Good(AddRtRoute(s1, BackTo(p)))
    BY <1>2, BackFacts, GoodAdd
  <1>8. Good(Replace(s1, done, p))
    BY <1>2, <1>6, GoodReplace
  <1>9. Good(s2)
    BY <1>7, <1>8
  <1> HIDE DEF s2
  <1> QED BY <1>1, <1>4, <1>9, GoodReturnFrom

\* needs_join.
LEMMA GoodJoin ==
  ASSUME NEW s, Good(s), NEW p \in Seen, p.src \in Target, NEW g
  PROVE  Good(Join(s, p, g))
  <1> DEFINE s1 == Dump(s)
             S  == {i \in At(s1.t, p.src) : s1.t[i].gtw = g}
  <1>1. Join(s, p, g) = IF S = {} THEN s1 ELSE AddRtInfo(s1, p.src, p.src, FirstOf(S))
    BY DEF Join
  <1>2. Good(s1) /\ s1 \in Handler
    BY GoodDump DEF Good, Sound
  <1> HIDE DEF s1
  <1>3. S \subseteq 1 .. Len(s1.t) /\ Len(s1.t) \in Nat
    BY <1>2, Fields DEF At
  <1> HIDE DEF S
  <1>4. ASSUME S # {} PROVE Good(AddRtInfo(s1, p.src, p.src, FirstOf(S)))
    <2>1. S \subseteq Nat
      BY <1>3
    <2>2. FirstOf(S) \in S
      BY <1>4, <2>1, FirstIndex DEF FirstOf
    <2>3. FirstOf(S) \in Nat /\ FirstOf(S) \in 1 .. Len(s1.t)
      BY <1>3, <2>1, <2>2
    <2>4. p.src \in Source
      BY DEF Source
    <2> QED BY <1>2, <2>3, <2>4, GoodInfo
  <1> QED BY <1>1, <1>2, <1>4

\* The part of route after the reverse entry.
LEMMA GoodOnward ==
  ASSUME NEW s, Good(s), NEW p \in Seen, TypedNeighbors, NEW pre, NEW join, NEW g,
         join => p.src \in Target
  PROVE  Good(Onward(s, p, pre, join, g))
  <1> DEFINE s1   == Dump(s)
             S    == {i \in At(s1.t, p.dst) : s1.t[i].gtw # p.dst}
             back == pre /\ s1.t[FirstOf(S)].gtw = p.from
             s2   == IF back THEN ReturnFrom(s1, p) ELSE s1
  <1>1. Onward(s, p, pre, join, g) =
          IF p.dst = Me THEN s
          ELSE IF S = {} THEN SendToNextNeighbor(s1, p)
          ELSE IF join THEN Join(s2, p, g)
          ELSE s2
    BY DEF Onward
  <1>2. Good(s1) /\ s1 \in Handler
    BY GoodDump DEF Good, Sound
  <1>3. s \in Handler /\ s1.k = s.k /\ Range(s.k) \subseteq Range(s1.t)
    BY DumpFacts DEF Good, Sound
  <1>4. s1.t \in Seq(Route \cup {Blank})
    BY <1>2, Fields
  <1> HIDE DEF s1, back
  <1>5. ASSUME S = {}, p.dst \in Target, p.dst \notin Peer
        PROVE  \A e \in Range(s1.k) \cup Range(s1.t) : e.dst # p.dst
    <2> SUFFICES ASSUME NEW e \in Range(s1.t), e.dst = p.dst PROVE FALSE
      BY <1>3
    <2>1. PICK i \in DOMAIN s1.t : s1.t[i] = e
      BY DEF Range
    <2>2. e \in Route \cup {Blank} /\ i \in 1 .. Len(s1.t)
      BY <1>4, <2>1
    <2>3. e.gtw \in Gateway
      BY <1>5, <2>2, ListedIsRoute
    <2>4. e.gtw = p.dst
      BY <1>5, <2>1, <2>2 DEF At
    <2> QED BY <1>5, <2>3, <2>4, Special DEF Gateway
  <1> HIDE DEF S
  <1>6. ASSUME p.dst # Me PROVE p.dst \in Target
    BY <1>6, SeenFacts
  <1>7. ASSUME p.dst # Me, S = {} PROVE Good(SendToNextNeighbor(s1, p))
    BY <1>2, <1>5, <1>6, <1>7, GoodSendToNextNeighbor
  <1>8. ASSUME p.dst # Me PROVE Good(s2)
    BY <1>2, <1>6, <1>8, GoodReturnFrom
  <1> HIDE DEF s2
  <1>9. ASSUME p.dst # Me, join PROVE Good(Join(s2, p, g))
    BY <1>8, <1>9, GoodJoin
  <1> QED BY <1>1, <1>7, <1>8, <1>9

\* route.
LEMMA GoodRouteTo ==
  ASSUME NEW s, Good(s), NEW p \in Seen, TypedNeighbors, NEW pre, NEW loop,
         pre => p.src \in Target \cup {Me}
  PROVE  Good(RouteTo(s, p, pre, loop))
  <1> DEFINE r == ReverseEntry(s, p, loop)
  <1>1. RouteTo(s, p, pre, loop) =
          IF p.type = "join" \/ (p.src = Me /\ p.dst = Me) THEN s
          ELSE IF pre /\ p.src = Me THEN ReturnFrom(s, p)
          ELSE IF ForMe(p) THEN s
          ELSE IF ~NeedsReverse(p, pre) THEN Onward(s, p, pre, FALSE, p.from)
          ELSE IF r.looped THEN r.s
          ELSE Onward(r.s, p, pre, TRUE, r.gtw)
    BY DEF RouteTo
  <1>2. ASSUME ~ (p.src = Me /\ p.dst = Me), p.src = Me PROVE Good(ReturnFrom(s, p))
    <2>1. p.dst \in Target
      BY <1>2, SeenFacts
    <2> QED BY <2>1, GoodReturnFrom
  <1>3. Good(Onward(s, p, pre, FALSE, p.from))
    BY GoodOnward
  <1>4. ASSUME NeedsReverse(p, pre), ~ (pre /\ p.src = Me)
        PROVE  Good(r.s) /\ Good(Onward(r.s, p, pre, TRUE, r.gtw))
    <2>1. p.src \in Target
      BY <1>4 DEF NeedsReverse
    <2>2. Good(r.s)
      BY <2>1, GoodReverseEntry
    <2> HIDE DEF r
    <2> QED BY <2>1, <2>2, GoodOnward
  <1> HIDE DEF r
  <1> QED BY <1>1, <1>2, <1>3, <1>4

-----------------------------------------------------------------------------
\* The three invariants together say that no handler is running.
RInv == TypeInvariant /\ RouteHasTimer /\ IncompleteOnlyToPeers

Counters == packets \in 0 .. MaxPackets /\ changes \in 0 .. MaxChanges

LEMMA NowFields ==
  /\ Now.k = kernel /\ Now.t = route_t /\ Now.i = rt_info
  /\ Now.tm = rt_timer /\ Now.n = nat_table
  BY DEF Now

LEMMA InfoWithIds ==
  ASSUME NEW n \in Nat, NEW q
  PROVE  q \in Seq([dst : Target, src : Target \cup {NoSrc}, id : 1 .. n])
           <=> q \in Seq(Info) /\ \A e \in Range(q) : e.id \in 1 .. n
  <1> DEFINE E == [dst : Target, src : Target \cup {NoSrc}, id : 1 .. n]
  <1>1. \A e : e \in E <=> e \in Info /\ e.id \in 1 .. n
    BY DEF Info, Source
  <1> HIDE DEF E
  <1>2. ASSUME q \in Seq(E) PROVE q \in Seq(Info) /\ \A e \in Range(q) : e.id \in 1 .. n
    <2>1. \A j \in DOMAIN q : q[j] \in E
      BY <1>2
    <2>2. q \in Seq(Info)
      BY <1>1, <1>2
    <2> QED BY <1>1, <2>1, <2>2 DEF Range
  <1>3. ASSUME q \in Seq(Info), \A e \in Range(q) : e.id \in 1 .. n PROVE q \in Seq(E)
    <2>1. \A j \in 1 .. Len(q) : q[j] \in Info /\ q[j] \in Range(q)
      BY <1>3 DEF Range
    <2>2. \A j \in 1 .. Len(q) : q[j] \in E
      BY <1>1, <1>3, <2>1
    <2> QED BY <1>3, <2>2
  <1> QED BY <1>2, <1>3 DEF E

LEMMA InvIsGood ==
  RInv <=> Good(Now) /\ TypedNeighbors /\ Counters
  <1>1. Now \in Handler <=>
          /\ kernel \in Seq(Route) /\ route_t \in Seq(Route \cup {Blank})
          /\ rt_info \in Seq(Info) /\ rt_timer \in Seq(Alarm) /\ nat_table \subseteq Target
    BY DEF Now, Handler
  <1>2. IdsInList(Now) <=> \A e \in Range(rt_info) : e.id \in 1 .. Len(route_t)
    BY NowFields DEF IdsInList
  <1>3. Timed(Now) <=> RouteHasTimer
    BY NowFields DEF Timed, RouteHasTimer
  <1>4. Completed(Now) <=> IncompleteOnlyToPeers
    BY NowFields DEF Completed, IncompleteOnlyToPeers
  <1>5. ASSUME route_t \in Seq(Route \cup {Blank})
        PROVE  rt_info \in Seq([dst : Target, src : Target \cup {NoSrc}, id : 1 .. Len(route_t)])
                 <=> rt_info \in Seq(Info)
                       /\ \A e \in Range(rt_info) : e.id \in 1 .. Len(route_t)
    <2>1. Len(route_t) \in Nat
      BY <1>5
    <2> QED BY <2>1, InfoWithIds
  <1>6. TypeInvariant <=>
          /\ TypedNeighbors /\ Counters
          /\ kernel \in Seq(Route) /\ route_t \in Seq(Route \cup {Blank})
          /\ rt_timer \in Seq(Alarm) /\ nat_table \subseteq Target
          /\ rt_info \in Seq([dst : Target, src : Target \cup {NoSrc}, id : 1 .. Len(route_t)])
    BY DEF TypeInvariant, TypedNeighbors, Counters, Alarm
  <1> QED BY <1>1, <1>2, <1>3, <1>4, <1>5, <1>6 DEF RInv, Good, Sound

\* A handler that ends well leaves a good state.
LEMMA BecomesGood ==
  ASSUME NEW u, Good(u), Becomes(u)
  PROVE  Good(Now)'
  <1>1. /\ kernel' = u.k /\ route_t' = u.t /\ rt_info' = u.i
        /\ rt_timer' = u.tm /\ nat_table' = u.n
    BY DEF Becomes
  <1>2. Now' = [k |-> u.k, t |-> u.t, i |-> u.i, tm |-> u.tm, n |-> u.n]
    BY <1>1 DEF Now
  <1>3. u \in Handler
    BY DEF Good, Sound
  <1>4. Now' = u
    BY <1>2, <1>3 DEF Handler
  <1>5. Good(Now') <=> Good(Now)'
    BY DEF Good, Sound, IdsInList, Timed, Completed, Handler
  <1> QED BY <1>4, <1>5

\* The distance of two addresses is a number.
LEMMA DistNat ==
  ASSUME NEW a \in Addr, NEW b \in Addr
  PROVE  Dist(a, b) \in Nat
  <1>1. IsFiniteSet(Bits)
    BY DimAssumption, FS_Interval DEF Bits
  <1>2. Diff(a, b) \subseteq Bits
    BY DEF Diff, Addr
  <1>3. IsFiniteSet(Diff(a, b))
    BY <1>1, <1>2, FS_Subset
  <1> QED BY <1>3, FS_CardinalityType DEF Dist

\* LOCAL_IN: one of the neighbours is the nearest.
LEMMA NearestIsPeer ==
  ASSUME TypedNeighbors, neigh_table # <<>>, NEW x \in Addr
  PROVE  LET near == {i \in 1 .. Len(neigh_table) : \A j \in 1 .. Len(neigh_table) :
                        Dist(x, neigh_table[i]) <= Dist(x, neigh_table[j])}
         IN  neigh_table[FirstOf(near)] \in Peer
  <1> DEFINE n == Len(neigh_table)
             d(i) == Dist(x, neigh_table[i])
             near == {i \in 1 .. n : \A j \in 1 .. n : d(i) <= d(j)}
             D == {d(i) : i \in 1 .. n}
  <1>1. n \in Nat /\ n > 0 /\ \A i \in 1 .. n : neigh_table[i] \in Peer
    BY DEF TypedNeighbors
  <1>2. \A i \in 1 .. n : d(i) \in Nat
    BY <1>1, DistNat, RoutingAssumption
  <1> HIDE DEF n, d
  <1>3. D \subseteq Nat /\ D # {}
    <2>1. 1 \in 1 .. n
      BY <1>1
    <2> QED BY <1>2, <2>1
  <1>4. PICK v \in D : \A y \in D : v <= y
    <2> HIDE DEF D
    <2> QED BY <1>3, LeastNat
  <1>5. PICK i \in 1 .. n : v = d(i)
    OBVIOUS
  <1>6. i \in near
    BY <1>4, <1>5
  <1>7. near \subseteq 1 .. n /\ near \subseteq Nat /\ near # {}
    BY <1>1, <1>6
  <1> DEFINE m == FirstOf(near)
  <1>8. m \in near
    <2> HIDE DEF near
    <2> QED BY <1>7, FirstIndex DEF FirstOf
  <1> HIDE DEF m
  <1>9. neigh_table[m] \in Peer
    BY <1>1, <1>7, <1>8
  <1> QED BY <1>9 DEF m, n, d

-----------------------------------------------------------------------------
LEMMA InitGood == Init => RInv
  <1> SUFFICES ASSUME Init PROVE RInv
    OBVIOUS
  <1> DEFINE T == Route \cup {Blank}
             B == Blank
  <1>1. kernel \in Seq(Route) /\ Range(kernel) = {} /\ rt_info \in Seq(Info)
        /\ Range(rt_info) = {} /\ rt_timer \in Seq(Alarm) /\ nat_table \subseteq Target
    BY DEF Init, Range
  <1>2. TypedNeighbors
    BY DEF Init, TypedNeighbors
  <1>3. Counters
    BY RoutingAssumption DEF Init, Counters
  <1>4. route_t \in Seq(Route \cup {Blank})
    <2>1. B \in T
      OBVIOUS
    <2> HIDE DEF B, T
    <2>2. <<B>> \in Seq(T)
      BY <2>1
    <2> QED BY <2>2 DEF Init, B, T
  <1>5. Now \in Handler
    BY <1>1, <1>4 DEF Now, Handler
  <1>6. Good(Now)
    BY <1>1, <1>5, NowFields DEF Good, Sound, IdsInList, Timed, Completed
  <1> QED BY <1>2, <1>3, <1>6, InvIsGood

\* The packets are as the handlers see them.
LEMMA PacketFacts ==
  ASSUME NEW p \in Packet
  PROVE  p \in Seen /\ p.src \in Target \cup {Me}
  BY PacketAssumption DEF Seen

\* What a packet leaves alone.
LEMMA ComesKeeps ==
  ASSUME RInv, Comes
  PROVE  TypedNeighbors' /\ Counters'
  BY InvIsGood, RoutingAssumption DEF Comes, TypedNeighbors, Counters

LEMMA PrimeInv ==
  ASSUME Good(Now)', TypedNeighbors', Counters'
  PROVE  RInv'
  BY InvIsGood, PTL

\* One step for each kind of packet.
LEMMA PreRoutingKeeps ==
  ASSUME RInv, NEW p \in Packet, PreRouting(p)
  PROVE  RInv'
  <1>1. Good(Now) /\ TypedNeighbors
    BY InvIsGood
  <1>2. p \in Seen /\ p.src \in Target \cup {Me}
    BY PacketFacts
  <1>3. PICK loop \in BOOLEAN : Becomes(RouteTo(Now, p, TRUE, loop))
    BY DEF PreRouting
  <1>4. Good(RouteTo(Now, p, TRUE, loop))
    BY <1>1, <1>2, GoodRouteTo
  <1>5. Good(Now)'
    BY <1>3, <1>4, BecomesGood
  <1> QED BY <1>5, ComesKeeps, PrimeInv DEF PreRouting

LEMMA ForwardKeeps ==
  ASSUME RInv, NEW p \in Packet, Forward(p)
  PROVE  RInv'
  <1>1. Good(Now) /\ TypedNeighbors
    BY InvIsGood
  <1>2. p \in Seen /\ Becomes(RouteTo(Now, p, FALSE, FALSE))
    BY PacketFacts DEF Forward
  <1>3. Good(RouteTo(Now, p, FALSE, FALSE))
    BY <1>1, <1>2, GoodRouteTo
  <1>4. Good(Now)'
    BY <1>2, <1>3, BecomesGood
  <1> QED BY <1>4, ComesKeeps, PrimeInv DEF Forward

LEMMA LocalOutKeeps ==
  ASSUME RInv, NEW p \in Packet, LocalOut(p)
  PROVE  RInv'
  <1> DEFINE q == IF p.dst \in nat_table THEN [p EXCEPT !.src = Garbage, !.type = "data"] ELSE p
  <1>1. Good(Now) /\ TypedNeighbors
    BY InvIsGood
  <1>2. p \in Seen /\ Becomes(RouteTo(Now, q, FALSE, FALSE))
    BY PacketFacts DEF LocalOut
  <1>3. q \in Seen
    BY <1>2 DEF Seen
  <1> HIDE DEF q
  <1>4. Good(RouteTo(Now, q, FALSE, FALSE))
    BY <1>1, <1>3, GoodRouteTo
  <1>5. Good(Now)'
    BY <1>2, <1>4, BecomesGood
  <1> QED BY <1>5, ComesKeeps, PrimeInv DEF LocalOut

\* Whatever it is, the gateway of an echo reply is not the one of incomplete routes.
LEMMA ReplyGatewayFacts ==
  ASSUME TypedNeighbors, NEW x \in Addr, NEW gw \in ReplyGateway(x)
  PROVE  gw \in Via /\ gw # Temp
  <1>1. CASE neigh_table = <<>>
    BY <1>1, Special DEF ReplyGateway, Via
  <1>2. CASE neigh_table # <<>>
    <2>1. gw \in Peer
      BY <1>2, NearestIsPeer DEF ReplyGateway
    <2> QED BY <2>1, Special DEF Via
  <1> QED BY <1>1, <1>2

LEMMA LocalInKeeps ==
  ASSUME RInv, NEW p \in Packet, LocalIn(p)
  PROVE  RInv'
  <1>1. Good(Now) /\ TypedNeighbors
    BY InvIsGood
  <1>2. PICK gw \in ReplyGateway(p.src) : Becomes(AddRtRoute(Now, To(p.src, gw, MAX_TTL)))
    BY DEF LocalIn
  <1>3. p.src \in Target /\ p.src \in Addr
    BY PacketFacts, RoutingAssumption DEF LocalIn, Target
  <1> DEFINE r == To(p.src, gw, MAX_TTL)
  <1>4. gw \in Via /\ gw # Temp
    BY <1>1, <1>3, ReplyGatewayFacts
  <1>5. r \in Route \cup RefusedRoute /\ r.gtw # Temp
    BY <1>3, <1>4, ToFacts
  <1>6. Becomes(AddRtRoute(Now, r))
    BY <1>2
  <1> HIDE DEF r
  <1>7. Good(AddRtRoute(Now, r))
    BY <1>1, <1>5, GoodAdd
  <1>8. Good(Now)'
    BY <1>6, <1>7, BecomesGood
  <1> QED BY <1>8, ComesKeeps, PrimeInv DEF LocalIn

\* A timer that is served takes the route that it names with it.
LEMMA ExpireKeeps ==
  ASSUME RInv, Expire
  PROVE  RInv'
  <1> DEFINE t == Head(rt_timer)
             q == Without(kernel, {t.route})
  <1>1. /\ rt_timer # <<>> /\ kernel' = q /\ rt_timer' = Tail(rt_timer)
        /\ rt_info' \in DelRtInfo(t.route)
        /\ UNCHANGED <<neigh_table, route_t, nat_table, packets, changes>>
    BY DEF Expire
  <1>2. /\ Good(Now) /\ TypedNeighbors /\ Counters
        /\ kernel \in Seq(Route) /\ route_t \in Seq(Route \cup {Blank})
        /\ rt_info \in Seq(Info) /\ rt_timer \in Seq(Alarm) /\ nat_table \subseteq Target
    BY InvIsGood DEF Good, Sound, Now, Handler
  <1>3. /\ \A e \in Range(rt_info) : e.id \in 1 .. Len(route_t)
        /\ \A r \in Range(kernel) : \E a \in Range(rt_timer) : a.route = r
        /\ \A r \in Range(kernel) : r.gtw = Temp => r.dst \in Peer
    BY <1>2, NowFields DEF Good, Sound, IdsInList, Timed, Completed
  <1>4. q \in Seq(Route) /\ Range(q) = Range(kernel) \ {t.route}
    BY <1>2, WithoutFacts
  <1>5. Tail(rt_timer) \in Seq(Alarm)
        /\ \A a \in Range(rt_timer) : a = t \/ a \in Range(Tail(rt_timer))
    <2>1. /\ Tail(rt_timer) \in Seq(Alarm) /\ Len(rt_timer) \in Nat /\ t = rt_timer[1]
          /\ DOMAIN rt_timer = 1 .. Len(rt_timer)
          /\ DOMAIN Tail(rt_timer) = 1 .. Len(rt_timer) - 1
          /\ \A i \in 1 .. Len(rt_timer) - 1 : Tail(rt_timer)[i] = rt_timer[i + 1]
      BY <1>1, <1>2
    <2>2. ASSUME NEW i \in 1 .. Len(rt_timer), i # 1
          PROVE  i - 1 \in DOMAIN Tail(rt_timer) /\ Tail(rt_timer)[i - 1] = rt_timer[i]
      <3>1. i - 1 \in 1 .. Len(rt_timer) - 1 /\ i - 1 + 1 = i
        BY <2>1, <2>2
      <3> QED BY <2>1, <3>1
    <2> DEFINE u == Tail(rt_timer)
    <2> HIDE DEF t, u
    <2>3. ASSUME NEW a \in Range(rt_timer) PROVE a = t \/ a \in Range(u)
      <3>1. PICK i \in 1 .. Len(rt_timer) : a = rt_timer[i]
        BY <2>1 DEF Range
      <3>2. CASE i = 1
        BY <2>1, <3>1, <3>2
      <3>3. CASE i # 1
        <4>1. i - 1 \in DOMAIN u /\ u[i - 1] = a
          BY <2>2, <3>1, <3>3 DEF u
        <4> QED BY <4>1 DEF Range
      <3> QED BY <3>2, <3>3
    <2> QED BY <2>1, <2>3 DEF u
  <1>6. rt_info' \in Seq(Info) /\ \A e \in Range(rt_info') : e \in Range(rt_info)
    <2>1. CASE rt_info' = rt_info
      BY <1>2, <2>1
    <2>2. CASE rt_info' # rt_info
      <3>1. PICK j \in 1 .. Len(rt_info) : rt_info' = RemoveAt(rt_info, j)
        BY <1>1, <2>2 DEF DelRtInfo
      <3>2. j \in DOMAIN rt_info /\ DOMAIN rt_info = 1 .. Len(rt_info) /\ Len(rt_info) \in Nat
        BY <1>2
      <3>3. /\ RemoveAt(rt_info, j) \in Seq(Info)
            /\ DOMAIN RemoveAt(rt_info, j) = 1 .. Len(rt_info) - 1
            /\ \A i \in 1 .. Len(rt_info) - 1 :
                 RemoveAt(rt_info, j)[i] = IF i < j THEN rt_info[i] ELSE rt_info[i + 1]
        BY <1>2, <3>2, RemoveAtFacts
      <3>4. \A i \in 1 .. Len(rt_info) - 1 :
              i \in 1 .. Len(rt_info) /\ i + 1 \in 1 .. Len(rt_info)
        BY <3>2
      <3> QED BY <3>1, <3>2, <3>3, <3>4 DEF Range
    <2> QED BY <2>1, <2>2
  <1> HIDE DEF q
  <1>7. Good(Now)'
    <2>1. (Now \in Handler)'
      BY <1>1, <1>2, <1>4, <1>5, <1>6 DEF Now, Handler
    <2>2. IdsInList(Now)'
      BY <1>1, <1>3, <1>6 DEF IdsInList, Now
    <2>3. Timed(Now)'
      <3>1. \A r \in Range(kernel') : \E a \in Range(rt_timer') : a.route = r
        BY <1>1, <1>3, <1>4, <1>5
      <3> QED BY <3>1 DEF Timed, Now
    <2>4. Completed(Now)'
      <3>1. \A r \in Range(kernel') : r.gtw = Temp => r.dst \in Peer
        BY <1>1, <1>3, <1>4
      <3> QED BY <3>1 DEF Completed, Now
    <2> QED BY <2>1, <2>2, <2>3, <2>4 DEF Good, Sound
  <1>8. TypedNeighbors' /\ Counters'
    BY <1>1, <1>2 DEF TypedNeighbors, Counters
  <1> QED BY <1>7, <1>8, PrimeInv

\* Time passes: the routes of the timers are what they were.
LEMMA TickKeeps ==
  ASSUME RInv, Tick
  PROVE  RInv'
  <1> DEFINE q == [i \in 1 .. Len(rt_timer) |-> [rt_timer[i] EXCEPT !.age = @ + 1]]
  <1>1. /\ \A a \in Range(rt_timer) : a.age < T_ROUTE
        /\ rt_timer' = q
        /\ UNCHANGED <<neigh_table, kernel, route_t, rt_info, nat_table, packets, changes>>
    BY DEF Tick
  <1>2. TypeInvariant /\ RouteHasTimer /\ IncompleteOnlyToPeers
    BY DEF RInv
  <1>3. rt_timer \in Seq(Alarm) /\ Len(rt_timer) \in Nat /\ DOMAIN rt_timer = 1 .. Len(rt_timer)
    BY <1>2 DEF TypeInvariant, Alarm
  <1>4. ASSUME NEW i \in 1 .. Len(rt_timer)
        PROVE  q[i] \in Alarm /\ q[i].route = rt_timer[i].route
    <2> DEFINE a == rt_timer[i]
    <2>1. a \in Alarm /\ a.age < T_ROUTE
      BY <1>1, <1>3 DEF Range
    <2>2. q[i] = [a EXCEPT !.age = @ + 1]
      OBVIOUS
    <2> HIDE DEF a, q
    <2>3. a.age + 1 \in 0 .. T_ROUTE
      BY <2>1, RoutingAssumption DEF Alarm
    <2>4. q[i] \in Alarm /\ q[i].route = a.route
      BY <2>1, <2>2, <2>3 DEF Alarm
    <2> QED BY <2>4 DEF a
  <1>5. q \in Seq(Alarm) /\ DOMAIN q = 1 .. Len(rt_timer)
    <2>1. DOMAIN q = 1 .. Len(rt_timer) /\ q = [i \in 1 .. Len(rt_timer) |-> q[i]]
      OBVIOUS
    <2> HIDE DEF q
    <2> QED BY <1>3, <1>4, <2>1
  <1> HIDE DEF q
  <1>6. \A a \in Range(rt_timer) : \E b \in Range(q) : b.route = a.route
    BY <1>3, <1>4, <1>5 DEF Range
  <1>7. RouteHasTimer'
    BY <1>1, <1>2, <1>6 DEF RouteHasTimer
  <1>8. TypeInvariant' /\ IncompleteOnlyToPeers'
    BY <1>1, <1>2, <1>5 DEF TypeInvariant, IncompleteOnlyToPeers, Alarm
  <1> QED BY <1>7, <1>8 DEF RInv

\* The neighbours change.
LEMMA NeighborsKeep ==
  ASSUME RInv, NEW n \in Peer, NeighborComes(n) \/ NeighborGoes(n)
  PROVE  RInv'
  <1>1. TypeInvariant /\ RouteHasTimer /\ IncompleteOnlyToPeers
    BY DEF RInv
  <1>2. neigh_table \in Seq(Peer) /\ changes' \in 0 .. MaxChanges
        /\ UNCHANGED <<kernel, route_t, rt_info, rt_timer, nat_table, packets>>
    BY <1>1, RoutingAssumption
       DEF TypeInvariant, NeighborComes, NeighborGoes, Changes, routing
  <1>3. neigh_table' \in Seq(Peer)
    <2>1. CASE NeighborComes(n)
      BY <1>2, <2>1, AppendFacts DEF NeighborComes
    <2>2. CASE NeighborGoes(n)
      <3> DEFINE K == {i \in DOMAIN neigh_table : neigh_table[i] # n}
      <3>1. neigh_table' = Those(neigh_table, K)
        BY <2>2 DEF NeighborGoes
      <3> HIDE DEF K
      <3> QED BY <1>2, <3>1, ThoseFacts
    <2> QED BY <2>1, <2>2
  <1> QED BY <1>1, <1>2, <1>3 DEF RInv, TypeInvariant, RouteHasTimer, IncompleteOnlyToPeers

LEMMA NextKeeps ==
  ASSUME RInv, [Next]_vars
  PROVE  RInv'
  <1>1. CASE UNCHANGED vars
    BY <1>1 DEF vars, routing, RInv, TypeInvariant, RouteHasTimer, IncompleteOnlyToPeers
  <1>2. CASE \E p \in Packet : PreRouting(p)
    BY <1>2, PreRoutingKeeps
  <1>3. CASE \E p \in Packet : Forward(p)
    BY <1>3, ForwardKeeps
  <1>4. CASE \E p \in Packet : LocalOut(p)
    BY <1>4, LocalOutKeeps
  <1>5. CASE \E p \in Packet : LocalIn(p)
    BY <1>5, LocalInKeeps
  <1>6. CASE Expire
    BY <1>6, ExpireKeeps
  <1>7. CASE Tick
    BY <1>7, TickKeeps
  <1>8. CASE \E n \in Peer : NeighborComes(n) \/ NeighborGoes(n)
    BY <1>8, NeighborsKeep
  <1> QED BY <1>1, <1>2, <1>3, <1>4, <1>5, <1>6, <1>7, <1>8 DEF Next

LEMMA Invariant == Spec => []RInv
  <1>1. RInv /\ [Next]_vars => RInv'
    BY NextKeeps
  <1> QED BY InitGood, <1>1, PTL DEF Spec

-----------------------------------------------------------------------------
\* The table of the kernel, its copy with the entries of an earlier one behind
\* it, the entries of rt_info and the timers are what the program takes them for.
THEOREM TypeCorrect == Spec => []TypeInvariant
  <1>1. RInv => TypeInvariant
    BY DEF RInv
  <1> QED BY <1>1, Invariant, PTL

\* However often a route is replaced, turned round or added again, none is
\* without a timer that will delete it (labels.h:63, add_rt_route).
THEOREM RoutesHaveTimers == Spec => []RouteHasTimer
  <1>1. RInv => RouteHasTimer
    BY DEF RInv
  <1> QED BY <1>1, Invariant, PTL

\* send_to_next_neighbor completes the route that it adds without a gateway, or
\* turns it round, before the packet goes on; for a neighbour it may stay.
THEOREM RoutesAreCompleted == Spec => []IncompleteOnlyToPeers
  <1>1. RInv => IncompleteOnlyToPeers
    BY DEF RInv
  <1> QED BY <1>1, Invariant, PTL

=============================================================================
