-------------------------- MODULE HcbAddressProofs --------------------------
(***************************************************************************)
(* Theorems about HcbAddress, for any nodes, links, dimension and bounds.  *)
(*                                                                         *)
(* 1. Types.  The type invariant is not inductive: a node takes the        *)
(*    address of the PAP it chose, and a PAP need not have one.  IInv adds *)
(*    that every PAP with a mask has an address, in flight, collected or   *)
(*    chosen.                                                              *)
(*                                                                         *)
(* 2. The arithmetic of Hypercube that the assignment of addresses rests   *)
(*    on.                                                                  *)
(*                                                                         *)
(* 3. Nodes that join one by one (OneByOne) obtain spaces that nobody else *)
(*    has.  A PAP reserves nothing: that what it offers is still there     *)
(*    when the PAN comes follows from what can be in flight (Control), and *)
(*    from what the proposer would give away for it (Stands, Spaces).      *)
(*    AInv == IInv /\ Control /\ Spaces is inductive as long as what        *)
(*    check_neighbors takes back is free (RecoverableIsFree) and a network *)
(*    gets a new number (NewNetworkIsNew); then the assignment implements  *)
(*    AddressSpace.                                                        *)
(*                                                                         *)
(* 4. Where nobody stops, links work both ways and there is one network    *)
(*    (Undisturbed), these two are theorems (Calm), so that the assignment *)
(*    implements AddressSpace without a premise about its states.          *)
(***************************************************************************)
EXTENDS HcbAddress, ListLemmas, FiniteSetTheorems, TLAPS

FlightOK(flight) ==
  /\ flight \subseteq Message
  /\ \A m \in flight : m.type = "PAP" /\ m.pap.mask # 0 => m.pap.addr \in Addr

JoinOK ==
  /\ pc \in [Node -> {"off", "paps", "panc", "up", "hung"}]
  /\ prim_addr \in [Node -> Addr]
  /\ prim_mask_inicial \in [Node -> Mask]
  /\ red_numero \in [Node -> Red]
  /\ flag_conexion \in [Node -> {0, 1}]
  /\ v_pap \in [Node -> Seq(Pap)]
  /\ chosen \in [Node -> Pap]
  /\ \A n \in Node : \A i \in 1 .. Len(v_pap[n]) : v_pap[n][i].addr \in Addr
  /\ \A n \in Node : pc[n] = "panc" => chosen[n].addr \in Addr

SpaceOK ==
  /\ prim_mask \in [Node -> Mask]
  /\ rcvd_addr \in [Node -> Seq(Recovered)]
  /\ rcvd_offered \in [Node -> Addr \cup {NoAddr}]

TableOK == neigh_table \in [Node -> SUBSET Recovered]

IInv == JoinOK /\ SpaceOK /\ TableOK /\ FlightOK(msgs) /\ crashes \in 0 .. MaxCrashes

LEMMA IInvImpliesType == IInv => TypeInvariant
  BY DEF IInv, JoinOK, SpaceOK, TableOK, FlightOK, TypeInvariant

-----------------------------------------------------------------------------
\* The operators that the actions are built from.

\* Best returns one of the PAPs.
LEMMA BestIsOne ==
  ASSUME NEW paps \in Seq(Pap), paps # <<>>
  PROVE  \E i \in 1 .. Len(paps) : Best(paps) = paps[i]
  <1> DEFINE Masks == {paps[i].mask : i \in 1 .. Len(paps)}
  <1>1. ASSUME NEW i \in 1 .. Len(paps) PROVE paps[i].mask \in Nat
    <2>1. paps[i] \in Pap
      OBVIOUS
    <2> QED BY <2>1 DEF Pap, Mask
  <1>2. 1 \in 1 .. Len(paps) /\ Len(paps) \in Nat
    OBVIOUS
  <1>3. PICK least \in Masks : \A x \in Masks : least <= x
    <2>1. Masks \subseteq Nat /\ Masks # {}
      BY <1>1, <1>2
    <2> QED BY <2>1, LeastNat
  <1> DEFINE Lowest == {i \in 1 .. Len(paps) : paps[i].mask = least}
  <1>4. PICK f \in Lowest : \A i \in Lowest : f <= i
    <2>1. Lowest \subseteq Nat /\ Lowest # {}
      OBVIOUS
    <2> HIDE DEF Lowest
    <2> QED BY <2>1, LeastNat
  <1> DEFINE First(i) == \A j \in DOMAIN paps :
                           \/ paps[i].mask < paps[j].mask
                           \/ paps[i].mask = paps[j].mask /\ i <= j
  <1>5. f \in DOMAIN paps /\ First(f)
    <2> SUFFICES ASSUME NEW j \in 1 .. Len(paps)
                 PROVE  \/ paps[f].mask < paps[j].mask
                        \/ paps[f].mask = paps[j].mask /\ f <= j
      OBVIOUS
    <2>1. paps[f].mask = least /\ least <= paps[j].mask /\ least \in Nat
          /\ paps[j].mask \in Nat
      BY <1>1, <1>3
    <2>2. CASE paps[j].mask = least
      BY <1>4, <2>1, <2>2
    <2>3. CASE paps[j].mask # least
      BY <2>1, <2>3
    <2> QED BY <2>2, <2>3
  <1>6. Best(paps) = paps[CHOOSE i \in DOMAIN paps : First(i)]
    BY DEF Best
  <1>7. (CHOOSE i \in DOMAIN paps : First(i)) \in DOMAIN paps
    BY <1>5
  <1>8. DOMAIN paps = 1 .. Len(paps)
    OBVIOUS
  <1> HIDE DEF First
  <1> QED BY <1>6, <1>7, <1>8

LEMMA FlipType ==
  ASSUME NEW a \in Addr, NEW b \in Bits
  PROVE  Flip(a, b) \in Addr
  BY DEF Flip, Addr

LEMMA RootType == Root \in Addr
  BY DimAssumption DEF Root, Addr, Bits

LEMMA MacType ==
  ASSUME NEW n \in Node
  PROVE  Mac[n] \in Red /\ 0 \in Red
  BY DEF Red

\* send_pap: the space that a node offers has an address, or mask 0.
LEMMA OfferType ==
  ASSUME IInv, NEW n \in Node
  PROVE  /\ Offer(n).addr \in Addr \cup {NoAddr}
         /\ Offer(n).mask \in Mask
         /\ Offer(n).mask # 0 => Offer(n).addr \in Addr
         /\ OffersRecovered(n) => Offer(n).addr \in Addr
  <1>1. rcvd_addr[n] \in Seq(Recovered) /\ prim_mask[n] \in Nat /\ prim_addr[n] \in Addr
    BY DEF IInv, SpaceOK, JoinOK, Mask
  <1>2. CASE OffersRecovered(n)
    <2>1. Offer(n) = rcvd_addr[n][Len(rcvd_addr[n])]
      BY <1>2 DEF Offer
    <2>2. Offer(n) \in Recovered
      BY <1>1, <1>2, <2>1 DEF OffersRecovered
    <2> QED BY <2>2 DEF Recovered
  <1>3. CASE ~OffersRecovered(n) /\ prim_mask[n] >= Dim
    BY <1>3 DEF Offer, Mask
  <1>4. CASE ~OffersRecovered(n) /\ ~(prim_mask[n] >= Dim)
    <2>1. Offer(n) = [addr |-> Flip(prim_addr[n], prim_mask[n]), mask |-> prim_mask[n] + 1]
      BY <1>4 DEF Offer
    <2>2. Flip(prim_addr[n], prim_mask[n]) \in Addr
      BY <1>1, <1>4, DimAssumption, FlipType DEF Bits
    <2> QED BY <1>1, <1>4, <2>1, <2>2 DEF Mask
  <1> QED BY <1>2, <1>3, <1>4

\* add_neighbor adds an entry with an address and a mask.
LEMMA AddNeighborType ==
  ASSUME NEW table \in SUBSET Recovered, NEW a \in Addr, NEW g \in Mask
  PROVE  AddNeighbor(table, a, g) \in SUBSET Recovered
  BY DEF AddNeighbor, Recovered

\* del_rcvd_addr_table leaves a list of recovered spaces.
LEMMA WithoutFirstType ==
  ASSUME NEW list \in Seq(Recovered), NEW a
  PROVE  WithoutFirst(list, a) \in Seq(Recovered)
  <1> DEFINE hits == {i \in DOMAIN list : list[i].addr = a}
             at   == CHOOSE i \in hits : \A j \in hits : i <= j
  <1>1. CASE hits = {}
    BY <1>1 DEF WithoutFirst
  <1>2. CASE hits # {}
    <2>1. hits \subseteq Nat /\ hits \subseteq 1 .. Len(list)
      OBVIOUS
    <2>2. at \in hits
      <3> HIDE DEF hits
      <3> QED BY <1>2, <2>1, LeastNat
    <2>3. at \in 1 .. Len(list)
      BY <2>1, <2>2
    <2>4. WithoutFirst(list, a) = SubSeq(list, 1, at - 1) \o SubSeq(list, at + 1, Len(list))
      BY <1>2 DEF WithoutFirst
    <2> HIDE DEF at
    <2>5. /\ SubSeq(list, 1, at - 1) \in Seq(Recovered)
          /\ SubSeq(list, at + 1, Len(list)) \in Seq(Recovered)
      BY <2>3
    <2> QED BY <2>4, <2>5
  <1> QED BY <1>1, <1>2

-----------------------------------------------------------------------------
\* Messages.

LEMMA FlightUnion ==
  ASSUME NEW flight, NEW more, FlightOK(flight), FlightOK(more)
  PROVE  FlightOK(flight \cup more)
  BY DEF FlightOK

LEMMA ParType ==
  ASSUME NEW n \in Node
  PROVE  FlightOK(Par(n))
  <1> SUFFICES ASSUME NEW k \in Listeners(n)
               PROVE  [type |-> "PAR", src |-> n, dst |-> k] \in Message
    BY DEF FlightOK, Par
  <1> QED BY DEF Listeners, Message

LEMMA PanType ==
  ASSUME NEW n \in Node, NEW pap \in Pap
  PROVE  FlightOK(Pan(n, pap))
  <1> SUFFICES ASSUME NEW k \in Listeners(n)
               PROVE  [type |-> "PAN", src |-> n, dst |-> k,
                       owner |-> pap.owner, addr |-> pap.addr, red |-> pap.red] \in Message
    BY DEF FlightOK, Pan
  <1>1. pap.owner \in Addr /\ pap.addr \in Addr \cup {NoAddr} /\ pap.red \in Red /\ k \in Node
    BY DEF Pap, Listeners
  <1> QED BY <1>1 DEF Message

LEMMA PapType ==
  ASSUME NEW n \in Node, NEW k \in Node, NEW pap \in Pap, pap.mask # 0 => pap.addr \in Addr
  PROVE  FlightOK({[type |-> "PAP", src |-> n, dst |-> k, pap |-> pap]})
  BY DEF FlightOK, Message

LEMMA PancType ==
  ASSUME NEW n \in Node, NEW k \in Node, NEW a \in Addr
  PROVE  FlightOK({[type |-> "PANC", src |-> n, dst |-> k, owner |-> a]})
  BY DEF FlightOK, Message

\* A datagram has the fields of its type.
LEMMA MessageFields ==
  ASSUME NEW m \in Message
  PROVE  /\ m.src \in Node /\ m.dst \in Node
         /\ m.type = "PAP" => m.pap \in Pap
         /\ m.type = "PAN" => m.owner \in Addr /\ m.red \in Red
         /\ m.type = "PANC" => m.owner \in Addr
  BY DEF Message

\* What is in flight stays sound when a datagram is read or lost.
LEMMA FlightLess ==
  ASSUME NEW flight, NEW less, FlightOK(flight), less \subseteq flight
  PROVE  FlightOK(less)
  BY DEF FlightOK

LEMMA NoPapType == NoPap \in Pap
  BY DEF NoPap, Pap, Addr, Mask, Red

-----------------------------------------------------------------------------
\* The steps.

LEMMA InitIInv == Init => IInv
  <1> SUFFICES ASSUME Init PROVE IInv
    OBVIOUS
  <1>1. JoinOK
    <2>1. v_pap \in [Node -> Seq(Pap)] /\ \A n \in Node : Len(v_pap[n]) = 0
      BY DEF Init
    <2> QED BY <2>1, RootType, NoPapType DEF Init, JoinOK, Mask, Red
  <1>2. SpaceOK /\ TableOK
    BY DEF Init, SpaceOK, TableOK, Mask
  <1>3. FlightOK(msgs) /\ crashes \in 0 .. MaxCrashes
    BY BoundsAssumption DEF Init, FlightOK
  <1> QED BY <1>1, <1>2, <1>3 DEF IInv

\* goto start of get_prim_addr.
LEMMA RestartType ==
  ASSUME IInv, NEW n \in Node, NEW flight, FlightOK(flight), Restart(n, flight)
  PROVE  JoinOK' /\ FlightOK(msgs')
  <1>1. FlightOK(msgs')
    BY ParType, FlightUnion DEF Restart
  <1>2. JoinOK'
    BY NoPapType DEF Restart, IInv, JoinOK
  <1> QED BY <1>1, <1>2

\* A packet that get_prim_addr does not wait for.
LEMMA NotAwaitedType ==
  ASSUME IInv, NEW n \in Node, NEW flight, FlightOK(flight),
         NEW reds, reds \subseteq Red, NotAwaited(n, flight, reds)
  PROVE  JoinOK' /\ FlightOK(msgs')
  <1>1. CASE msgs' = flight /\ UNCHANGED joinVars
    BY <1>1 DEF joinVars, IInv, JoinOK
  <1>2. CASE /\ \E r \in reds : red_numero' = [red_numero EXCEPT ![n] = r]
             /\ msgs' = flight
             /\ UNCHANGED <<pc, prim_addr, prim_mask_inicial, flag_conexion, v_pap, chosen>>
    BY <1>2 DEF IInv, JoinOK
  <1>3. CASE Restart(n, flight)
    BY <1>3, RestartType
  <1> QED BY <1>1, <1>2, <1>3 DEF NotAwaited

\* prim_addr_init.
LEMMA FreshType ==
  ASSUME IInv, NEW n \in Node, Fresh(n),
         NEW where \in {"off", "paps"}, pc' = [pc EXCEPT ![n] = where]
  PROVE  JoinOK' /\ SpaceOK' /\ TableOK'
  <1>1. SpaceOK' /\ TableOK'
    BY DEF Fresh, IInv, SpaceOK, TableOK, Mask
  <1>2. \A k \in Node : \A i \in 1 .. Len(v_pap'[k]) : v_pap'[k][i].addr \in Addr
    <2> SUFFICES ASSUME NEW k \in Node, NEW i \in 1 .. Len(v_pap'[k])
                 PROVE  v_pap'[k][i].addr \in Addr
      OBVIOUS
    <2>1. CASE k = n
      BY <2>1 DEF Fresh, IInv, JoinOK
    <2>2. CASE k # n
      BY <2>2 DEF Fresh, IInv, JoinOK
    <2> QED BY <2>1, <2>2
  <1>3. \A k \in Node : pc'[k] = "panc" => chosen'[k].addr \in Addr
    BY DEF Fresh, IInv, JoinOK
  <1>4. v_pap' \in [Node -> Seq(Pap)]
    BY DEF Fresh, IInv, JoinOK
  <1>5. /\ pc' \in [Node -> {"off", "paps", "panc", "up", "hung"}]
        /\ prim_addr' \in [Node -> Addr]
        /\ prim_mask_inicial' \in [Node -> Mask]
        /\ red_numero' \in [Node -> Red]
        /\ flag_conexion' \in [Node -> {0, 1}]
        /\ chosen' \in [Node -> Pap]
    BY RootType, NoPapType, MacType DEF Fresh, IInv, JoinOK, Mask
  <1> QED BY <1>1, <1>2, <1>3, <1>4, <1>5 DEF JoinOK

LEMMA SendPanType ==
  ASSUME IInv, NEW n \in Node, SendPan(n)
  PROVE  IInv'
  <1> DEFINE best == Best(v_pap[n])
  <1>1. v_pap[n] \in Seq(Pap) /\ v_pap[n] # <<>>
    BY DEF SendPan, IInv, JoinOK
  <1>2. PICK i \in 1 .. Len(v_pap[n]) : best = v_pap[n][i]
    BY <1>1, BestIsOne
  <1>3. best \in Pap /\ best.addr \in Addr
    BY <1>1, <1>2 DEF IInv, JoinOK
  <1>4. best.red \in Red
    BY <1>3 DEF Pap
  <1> HIDE DEF best
  <1>5. FlightOK(msgs')
    <2>1. msgs' = msgs \cup Pan(n, best)
      BY DEF SendPan, best
    <2> QED BY <1>3, <2>1, PanType, FlightUnion DEF IInv
  <1>6. JoinOK'
    <2>1. /\ pc' = [pc EXCEPT ![n] = "panc"]
          /\ chosen' = [chosen EXCEPT ![n] = best]
          /\ red_numero' = [red_numero EXCEPT ![n] = best.red]
          /\ v_pap' = [v_pap EXCEPT ![n] = <<>>]
          /\ UNCHANGED <<prim_addr, prim_mask_inicial, flag_conexion>>
      BY DEF SendPan, best
    <2>2. v_pap' \in [Node -> Seq(Pap)]
      BY <2>1 DEF IInv, JoinOK
    <2>3. \A k \in Node : \A j \in 1 .. Len(v_pap'[k]) : v_pap'[k][j].addr \in Addr
      <3> SUFFICES ASSUME NEW k \in Node, NEW j \in 1 .. Len(v_pap'[k])
                   PROVE  v_pap'[k][j].addr \in Addr
        OBVIOUS
      <3>1. k # n
        BY <2>1 DEF IInv, JoinOK
      <3> QED BY <2>1, <3>1 DEF IInv, JoinOK
    <2> QED BY <1>3, <1>4, <2>1, <2>2, <2>3 DEF IInv, JoinOK
  <1> QED BY <1>5, <1>6 DEF SendPan, IInv, spaceVars, SpaceOK, TableOK

LEMMA ReceiveOfferType ==
  ASSUME IInv, NEW n \in Node, NEW m \in msgs, ReceiveOffer(n, m)
  PROVE  IInv'
  <1>1. m.pap \in Pap /\ m.pap.addr \in Addr /\ m.pap.red \in Red
    <2>1. m \in Message /\ m.type = "PAP" /\ m.pap.mask # 0
      BY DEF ReceiveOffer, IInv, FlightOK
    <2>2. m.pap \in Pap /\ m.pap.addr \in Addr
      BY <2>1, MessageFields DEF IInv, FlightOK
    <2> QED BY <2>2 DEF Pap
  <1>2. v_pap[n] \in Seq(Pap)
    BY DEF IInv, JoinOK
  <1>3. v_pap' \in [Node -> Seq(Pap)]
    <2>1. Append(v_pap[n], m.pap) \in Seq(Pap)
      BY <1>1, <1>2
    <2> QED BY <2>1 DEF ReceiveOffer, IInv, JoinOK
  <1>4. \A k \in Node : \A i \in 1 .. Len(v_pap'[k]) : v_pap'[k][i].addr \in Addr
    <2> SUFFICES ASSUME NEW k \in Node, NEW i \in 1 .. Len(v_pap'[k])
                 PROVE  v_pap'[k][i].addr \in Addr
      OBVIOUS
    <2>1. CASE k # n
      BY <2>1 DEF ReceiveOffer, IInv, JoinOK
    <2>2. CASE k = n
      <3>1. v_pap'[n] = Append(v_pap[n], m.pap)
        BY DEF ReceiveOffer, IInv, JoinOK
      <3>2. CASE i = Len(v_pap[n]) + 1
        BY <1>1, <1>2, <2>2, <3>1, <3>2
      <3>3. CASE i # Len(v_pap[n]) + 1
        <4>1. i \in 1 .. Len(v_pap[n]) /\ v_pap'[n][i] = v_pap[n][i]
          BY <1>1, <1>2, <2>2, <3>1, <3>3
        <4> QED BY <2>2, <4>1 DEF IInv, JoinOK
      <3> QED BY <3>2, <3>3
    <2> QED BY <2>1, <2>2
  <1>5. JoinOK'
    BY <1>1, <1>3, <1>4 DEF ReceiveOffer, IInv, JoinOK
  <1>6. FlightOK(msgs')
    BY FlightLess DEF ReceiveOffer, IInv
  <1> QED BY <1>5, <1>6 DEF ReceiveOffer, IInv, spaceVars, SpaceOK, TableOK

\* send_pap.
LEMMA ReceiveParType ==
  ASSUME IInv, NEW n \in Node, NEW m \in msgs, ReceivePar(n, m)
  PROVE  IInv'
  <1> DEFINE pap == [owner |-> prim_addr[n], addr |-> Offer(n).addr,
                     mask |-> Offer(n).mask, red |-> red_numero[n]]
             answer == {[type |-> "PAP", src |-> n, dst |-> m.src, pap |-> pap]}
  <1>1. pap \in Pap /\ (pap.mask # 0 => pap.addr \in Addr)
    BY OfferType DEF Pap, IInv, JoinOK
  <1>2. m.src \in Node
    BY MessageFields DEF IInv, FlightOK
  <1> HIDE DEF pap
  <1>3. FlightOK((msgs \ {m}) \cup answer)
    <2>1. FlightOK(answer)
      BY <1>1, <1>2, PapType
    <2> HIDE DEF answer
    <2> QED BY <2>1, FlightLess, FlightUnion DEF IInv
  <1>4. NotAwaited(n, (msgs \ {m}) \cup answer, Red)
    BY DEF ReceivePar, pap
  <1> HIDE DEF answer
  <1>5. JoinOK' /\ FlightOK(msgs')
    BY <1>3, <1>4, NotAwaitedType
  <1>6. SpaceOK' /\ TableOK' /\ crashes' = crashes
    BY OfferType DEF ReceivePar, IInv, SpaceOK, TableOK
  <1> QED BY <1>5, <1>6 DEF IInv

\* send_panc.
LEMMA ReceivePanType ==
  ASSUME IInv, NEW n \in Node, NEW m \in msgs, ReceivePan(n, m)
  PROVE  IInv'
  <1> DEFINE answer == {[type |-> "PANC", src |-> n, dst |-> m.src, owner |-> m.owner]}
  <1>1. m.src \in Node /\ m.owner \in Addr /\ m.red \in Red
    BY MessageFields DEF ReceivePan, IInv, FlightOK
  <1>2. FlightOK((msgs \ {m}) \cup answer)
    <2>1. FlightOK(answer)
      BY <1>1, PancType
    <2> HIDE DEF answer
    <2> QED BY <2>1, FlightLess, FlightUnion DEF IInv
  <1>3. NotAwaited(n, (msgs \ {m}) \cup answer, {m.red})
    BY DEF ReceivePan
  <1> HIDE DEF answer
  <1>4. JoinOK' /\ FlightOK(msgs')
    BY <1>1, <1>2, <1>3, NotAwaitedType
  <1>5. prim_mask' \in [Node -> Mask] /\ rcvd_addr' \in [Node -> Seq(Recovered)]
    <2>1. CASE /\ rcvd_addr' = [rcvd_addr EXCEPT ![n] = WithoutFirst(@, m.addr)]
               /\ UNCHANGED prim_mask
      BY <2>1, WithoutFirstType DEF IInv, SpaceOK
    <2>2. CASE prim_mask' = [prim_mask EXCEPT ![n] = @ + 1] /\ UNCHANGED rcvd_addr
      BY <2>2 DEF IInv, SpaceOK, Mask
    <2> QED BY <2>1, <2>2 DEF ReceivePan, GiveAway
  <1> QED BY <1>4, <1>5 DEF ReceivePan, IInv, SpaceOK, TableOK

\* The packets that are of no use to n.
LEMMA ReceiveOtherType ==
  ASSUME IInv, NEW n \in Node, NEW m \in msgs,
         ReceiveOtherPap(n, m) \/ ReceiveOtherPan(n, m) \/ ReceiveOtherPanc(n, m)
  PROVE  IInv'
  <1>1. FlightOK(msgs \ {m})
    BY FlightLess DEF IInv
  <1>2. PICK reds \in SUBSET Red : NotAwaited(n, msgs \ {m}, reds)
    <2>1. CASE ReceiveOtherPap(n, m)
      <3>1. m.pap \in Pap
        BY <2>1, MessageFields DEF ReceiveOtherPap, IInv, FlightOK
      <3>2. {m.pap.red} \in SUBSET Red
        BY <3>1 DEF Pap
      <3> QED BY <2>1, <3>2 DEF ReceiveOtherPap
    <2>2. CASE ReceiveOtherPan(n, m)
      <3>1. {m.red} \in SUBSET Red
        BY <2>2, MessageFields DEF ReceiveOtherPan, IInv, FlightOK
      <3> QED BY <2>2, <3>1 DEF ReceiveOtherPan
    <2>3. CASE ReceiveOtherPanc(n, m)
      BY <2>3 DEF ReceiveOtherPanc
    <2> QED BY <2>1, <2>2, <2>3
  <1>3. JoinOK' /\ FlightOK(msgs')
    BY <1>1, <1>2, NotAwaitedType
  <1>4. UNCHANGED <<spaceVars, neigh_table, crashes>>
    BY DEF ReceiveOtherPap, ReceiveOtherPan, ReceiveOtherPanc
  <1> QED BY <1>3, <1>4 DEF IInv, spaceVars, SpaceOK, TableOK

\* The awaited PANC: the chosen address is an address.
LEMMA ReceivePancType ==
  ASSUME IInv, NEW n \in Node, NEW m \in msgs, ReceivePanc(n, m)
  PROVE  IInv'
  <1>1. chosen[n] \in Pap /\ chosen[n].addr \in Addr /\ chosen[n].mask \in Mask
    BY DEF ReceivePanc, IInv, JoinOK, Pap
  <1>2. JoinOK'
    BY <1>1, NoPapType DEF ReceivePanc, IInv, JoinOK
  <1>3. FlightOK(msgs')
    BY FlightLess DEF ReceivePanc, IInv
  <1>4. SpaceOK'
    BY <1>1 DEF ReceivePanc, IInv, SpaceOK
  <1>5. TableOK'
    <2>1. m.owner \in Addr /\ StackMasks \subseteq Mask /\ prim_mask_inicial[n] \in Mask
      BY MessageFields, BoundsAssumption DEF ReceivePanc, IInv, FlightOK, JoinOK, Mask
    <2>2. \A k \in Node : AddNeighbor(neigh_table[k], Root, prim_mask_inicial[n])
                            \in SUBSET Recovered
      BY <2>1, RootType, AddNeighborType DEF IInv, TableOK
    <2>3. \A g \in StackMasks : AddNeighbor(neigh_table[n], m.owner, g) \in SUBSET Recovered
      BY <2>1, AddNeighborType DEF IInv, TableOK
    <2>4. PICK hear \in SUBSET Node, own \in SUBSET Recovered :
            neigh_table' = [k \in Node |->
              IF k = n THEN own
              ELSE IF k \in hear THEN AddNeighbor(neigh_table[k], Root, prim_mask_inicial[n])
              ELSE neigh_table[k]]
      <3> DEFINE Owns == {neigh_table[n]} \cup
                           {AddNeighbor(neigh_table[n], m.owner, g) :
                              g \in {x \in StackMasks : m.owner # prim_addr[n]}}
      <3>1. Owns \subseteq SUBSET Recovered
        BY <2>3 DEF IInv, TableOK
      <3>2. \E hear \in SUBSET Node, own \in Owns :
              neigh_table' = [k \in Node |->
                IF k = n THEN own
                ELSE IF k \in hear THEN AddNeighbor(neigh_table[k], Root, prim_mask_inicial[n])
                ELSE neigh_table[k]]
        BY DEF ReceivePanc
      <3> HIDE DEF Owns
      <3> QED BY <3>1, <3>2
    <2> QED BY <2>2, <2>4 DEF IInv, TableOK
  <1> QED BY <1>2, <1>3, <1>4, <1>5 DEF ReceivePanc, IInv

\* process_hb.
LEMMA HearHbType ==
  ASSUME IInv, NEW k \in Node, NEW n \in Node, HearHb(k, n)
  PROVE  IInv'
  <1>1. red_numero[n] \in Red /\ prim_addr[n] \in Addr /\ prim_mask_inicial[n] \in Mask
    BY DEF IInv, JoinOK
  <1>2. JoinOK' /\ FlightOK(msgs')
    <2>1. NotAwaited(k, msgs, {red_numero[n]}) /\ FlightOK(msgs)
      BY DEF HearHb, IInv
    <2> QED BY <1>1, <2>1, NotAwaitedType
  <1>3. TableOK'
    <2>1. AddNeighbor(neigh_table[k], prim_addr[n], prim_mask_inicial[n]) \in SUBSET Recovered
      BY <1>1, AddNeighborType DEF IInv, TableOK
    <2> QED BY <2>1 DEF HearHb, IInv, TableOK
  <1> QED BY <1>2, <1>3 DEF HearHb, IInv, spaceVars, SpaceOK

\* check_neighbors.
LEMMA CheckNeighborsType ==
  ASSUME IInv, NEW n \in Node, NEW e \in neigh_table[n], CheckNeighbors(n, e)
  PROVE  IInv'
  <1>1. e \in Recovered /\ rcvd_addr[n] \in Seq(Recovered)
    BY DEF IInv, TableOK, SpaceOK
  <1>2. Append(rcvd_addr[n], e) \in Seq(Recovered)
    BY <1>1
  <1>3. SpaceOK' /\ TableOK'
    BY <1>2 DEF CheckNeighbors, IInv, SpaceOK, TableOK
  <1>4. pc' = pc \/ pc' = [pc EXCEPT ![n] = "hung"]
    BY DEF CheckNeighbors
  <1>5. JoinOK'
    BY <1>4 DEF CheckNeighbors, IInv, JoinOK
  <1> QED BY <1>3, <1>5 DEF CheckNeighbors, IInv

LEMMA StepIInv == IInv /\ [Next]_vars => IInv'
  <1> SUFFICES ASSUME IInv, [Next]_vars PROVE IInv'
    OBVIOUS
  <1>1. ASSUME NEW n \in Node, Boot(n) PROVE IInv'
    <2>1. JoinOK' /\ SpaceOK' /\ TableOK'
      BY <1>1, FreshType DEF Boot
    <2>2. FlightOK(msgs')
      BY <1>1, ParType, FlightUnion DEF Boot, IInv
    <2> QED BY <1>1, <2>1, <2>2 DEF Boot, IInv
  <1>2. ASSUME NEW n \in Node, Found(n) PROVE IInv'
    BY <1>2, MacType DEF Found, IInv, JoinOK, SpaceOK, TableOK, Mask
  <1>3. ASSUME NEW n \in Node, PancTimeout(n) PROVE IInv'
    <2>1. JoinOK' /\ FlightOK(msgs')
      BY <1>3, RestartType DEF PancTimeout, IInv
    <2> QED BY <1>3, <2>1 DEF PancTimeout, IInv, spaceVars, SpaceOK, TableOK
  <1>4. ASSUME NEW n \in Node, ResetAlone(n) PROVE IInv'
    BY <1>4, MacType, RootType DEF ResetAlone, IInv, JoinOK, SpaceOK, TableOK, Mask
  <1>5. ASSUME NEW n \in Node, Crash(n) PROVE IInv'
    <2>1. JoinOK' /\ SpaceOK' /\ TableOK'
      BY <1>5, FreshType DEF Crash
    <2>2. FlightOK(msgs')
      BY <1>5, FlightLess DEF Crash, IInv
    <2>3. crashes' \in 0 .. MaxCrashes
      BY <1>5, BoundsAssumption DEF Crash, IInv
    <2> QED BY <2>1, <2>2, <2>3 DEF IInv
  <1>6. ASSUME NEW m \in msgs, Lose(m) PROVE IInv'
    <2>1. FlightOK(msgs')
      BY <1>6, FlightLess DEF Lose, IInv
    <2> QED BY <1>6, <2>1 DEF Lose, joinVars, spaceVars, IInv, JoinOK, SpaceOK, TableOK
  <1>7. CASE UNCHANGED vars
    BY <1>7 DEF vars, joinVars, spaceVars, IInv, JoinOK, SpaceOK, TableOK
  <1>8. ASSUME NEW m \in msgs PROVE m.dst \in Node
    BY MessageFields DEF IInv, FlightOK
  <1> QED BY <1>1, <1>2, <1>3, <1>4, <1>5, <1>6, <1>7, <1>8, SendPanType, ReceiveOfferType,
             ReceiveParType, ReceivePanType, ReceiveOtherType, ReceivePancType, HearHbType,
             CheckNeighborsType DEF Next

\* IInv holds in every state.
THEOREM SpecIInv == Spec => []IInv
  BY InitIInv, StepIInv, PTL DEF Spec

\* Addresses, masks, lists and datagrams have their types; in particular a node
\* never takes the address of a PAP that carries none (hcb_address.c:570).
THEOREM SpecTypeInvariant == Spec => []TypeInvariant
  BY SpecIInv, IInvImpliesType, PTL

-----------------------------------------------------------------------------
(***************************************************************************)
(* The spaces: what a node gives away and what it keeps (send_pap and      *)
(* send_panc), and whose space it takes back (check_succesor).             *)
(***************************************************************************)
\* An address is in the space it names.
LEMMA OwnSpace ==
  ASSUME NEW a \in Addr, NEW m \in Nat
  PROVE  a \in Space(a, m)
  BY DEF Space, InSpace

LEMMA FlipOne ==
  ASSUME NEW a \in Addr, NEW m \in Bits
  PROVE  /\ Flip(a, m) \in Addr
         /\ m \in Flip(a, m) <=> m \notin a
         /\ \A b \in Bits \ {m} : b \in Flip(a, m) <=> b \in a
  BY DEF Flip, Addr

(***************************************************************************)
(* The space that send_pap offers, the address with bit prim_mask flipped  *)
(* and mask prim_mask + 1, and the one that is left when send_panc adds    *)
(* one to prim_mask, have nothing in common, and nothing is lost.          *)
(***************************************************************************)
THEOREM SpaceSplit ==
  ASSUME NEW a \in Addr, NEW m \in Bits
  PROVE  /\ Space(a, m) = Space(a, m + 1) \cup Space(Flip(a, m), m + 1)
         /\ Space(a, m + 1) \cap Space(Flip(a, m), m + 1) = {}
  <1>1. m \in Nat /\ \A b \in Bits : b \in Nat /\ (b < m + 1 <=> b < m \/ b = m)
    BY DimAssumption DEF Bits
  <1>2. \A b \in Bits : b < m => b # m
    BY <1>1
  <1>3. ASSUME NEW x \in Addr
        PROVE  /\ InSpace(x, a, m + 1) <=> InSpace(x, a, m) /\ (m \in x <=> m \in a)
               /\ InSpace(x, Flip(a, m), m + 1) <=> InSpace(x, a, m) /\ (m \in x <=> m \notin a)
    <2>1. InSpace(x, a, m + 1) <=> InSpace(x, a, m) /\ (m \in x <=> m \in a)
      BY <1>1, Zenon DEF InSpace
    <2>2. \A b \in Bits : b < m => (b \in Flip(a, m) <=> b \in a)
      BY <1>2, FlipOne
    <2>3. InSpace(x, Flip(a, m), m + 1)
            <=> (\A b \in Bits : b < m => (b \in x <=> b \in Flip(a, m)))
                /\ (m \in x <=> m \in Flip(a, m))
      BY <1>1, Zenon DEF InSpace
    <2> QED BY <2>1, <2>2, <2>3, FlipOne DEF InSpace
  <1> QED BY <1>3 DEF Space

\* With all bits spoken for, an address has no space but itself: send_pap has
\* nothing to offer.
THEOREM SpaceOfLastBit ==
  ASSUME NEW a \in Addr
  PROVE  Space(a, Dim) = {a}
  <1>1. ASSUME NEW x \in Addr, InSpace(x, a, Dim) PROVE x = a
    <2>1. \A b \in Bits : b \in x <=> b \in a
      BY <1>1, DimAssumption DEF InSpace, Bits
    <2> QED BY <2>1 DEF Addr
  <1>2. a \in Space(a, Dim)
    BY OwnSpace, DimAssumption
  <1> QED BY <1>1, <1>2 DEF Space

\* A longer mask names a part of the space.
THEOREM SpaceShrinks ==
  ASSUME NEW a \in Addr, NEW m \in Nat, NEW k \in Nat, m <= k
  PROVE  Space(a, k) \subseteq Space(a, m)
  <1>1. \A b \in Bits : b < m => b < k
    BY DimAssumption DEF Bits
  <1> QED BY <1>1 DEF Space, InSpace

\* Two addresses that one bit tells apart.
LEMMA DiffOne ==
  ASSUME NEW a \in Addr, NEW m \in Bits
  PROVE  Diff(a, Flip(a, m)) = {m} /\ Diff(Flip(a, m), a) = {m} /\ FirstBit({m}) = m
  <1>1. Diff(a, Flip(a, m)) = {m} /\ Diff(Flip(a, m), a) = {m}
    BY FlipOne DEF Diff, Addr
  <1>2. FirstBit({m}) = m
    BY DimAssumption DEF FirstBit, Bits
  <1> QED BY <1>1, <1>2

\* A flip changes nothing behind the bit it flips.
LEMMA LaterBits ==
  ASSUME NEW a \in Addr, NEW m \in Bits
  PROVE  /\ LaterInWord(m) \cap (a \cup Flip(a, m)) = LaterInWord(m) \cap a
         /\ LaterInWord(m) \cap (Flip(a, m) \cup a) = LaterInWord(m) \cap a
  <1>1. m \notin LaterInWord(m)
    BY DimAssumption DEF LaterInWord, Bits
  <1> QED BY <1>1 DEF Flip

(***************************************************************************)
(* What check_succesor makes of an address that send_pap made: the giver   *)
(* takes it for a successor exactly when a zero was flipped and only zeros *)
(* follow in the word.                                                     *)
(***************************************************************************)
THEOREM GivenIsSuccesor ==
  ASSUME NEW a \in Addr, NEW m \in Bits
  PROVE  CheckSuccesor(a, Flip(a, m)) = "succesor" <=> m \notin a /\ LaterInWord(m) \cap a = {}
  <1>1. Diff(a, Flip(a, m)) = {m} /\ FirstBit({m}) = m
    BY DiffOne
  <1>2. LaterInWord(m) \cap (a \cup Flip(a, m)) = LaterInWord(m) \cap a
    BY LaterBits
  <1> QED BY <1>1, <1>2 DEF CheckSuccesor

(***************************************************************************)
(* Seen from the other end: the one that got the address takes its giver   *)
(* for a successor exactly when a one was flipped (the last bit of the     *)
(* root, hcb_address.c:183) and only zeros follow in the word.  In all     *)
(* other cases it does not recover space from its giver.                   *)
(***************************************************************************)
THEOREM GiverIsSuccesor ==
  ASSUME NEW a \in Addr, NEW m \in Bits
  PROVE  CheckSuccesor(Flip(a, m), a) = "succesor" <=> m \in a /\ LaterInWord(m) \cap a = {}
  <1>1. Diff(Flip(a, m), a) = {m} /\ FirstBit({m}) = m /\ (m \in Flip(a, m) <=> m \notin a)
    BY DiffOne, FlipOne
  <1>2. LaterInWord(m) \cap (Flip(a, m) \cup a) = LaterInWord(m) \cap a
    BY LaterBits
  <1> QED BY <1>1, <1>2 DEF CheckSuccesor

(***************************************************************************)
(* So a node that keeps the last bit of the root, as every node does that  *)
(* has space of its own to give, recognises nobody to whom it gave half    *)
(* its space in the last word: that half is not recovered when its owner   *)
(* leaves (heart_beat.c:358).                                              *)
(***************************************************************************)
THEOREM LastWordIsLost ==
  ASSUME NEW a \in Addr, NEW m \in Bits, Dim - 1 \in a, WordOf(m) = WordOf(Dim - 1)
  PROVE  CheckSuccesor(a, Flip(a, m)) # "succesor"
  <1>1. m <= Dim - 1 /\ m \in Nat /\ Dim - 1 \in Bits
    BY DimAssumption DEF Bits
  <1>2. CASE m = Dim - 1
    BY <1>2, GivenIsSuccesor
  <1>3. CASE m # Dim - 1
    <2>1. Dim - 1 \in LaterInWord(m)
      BY <1>1, <1>3, DimAssumption DEF LaterInWord
    <2> QED BY <2>1, GivenIsSuccesor
  <1> QED BY <1>2, <1>3

-----------------------------------------------------------------------------
(***************************************************************************)
(* Nodes that join one by one: at most one node is in get_prim_addr,       *)
(* answers that are not lost arrive before T_PAP and T_PANC are over, and  *)
(* the vector of PAPs has room for an offer of everybody else.             *)
(***************************************************************************)
OneByOne ==
  /\ Prompt /\ MaxJoining = 1
  /\ IsFiniteSet(Node) /\ Cardinality(Node) <= MaxRcvdPap

\* The node that joins with m, and the one that answers it.
Client(m) == IF m.type \in {"PAR", "PAN"} THEN m.src ELSE m.dst
Server(m) == IF m.type \in {"PAR", "PAN"} THEN m.dst ELSE m.src

IsAsk(m) == m.type \in {"PAR", "PAP"}

\* At most one node joins, and what is in flight is between it and another one.
OneJoiner == \A n, k \in Joining : n = k

OwnPackets == \A m \in msgs : Server(m) # Client(m) /\ \A n \in Joining : Client(m) = n

\* A node is asked once, and answers once.
AskedOnce == \A m, k \in msgs : IsAsk(m) /\ IsAsk(k) /\ Server(m) = Server(k) => m = k

\* The nodes whose offers are in the vector of n can be told apart, and n expects no more of them.
Proposers(n, f) ==
  /\ f \in [1 .. Len(v_pap[n]) -> Node \ {n}]
  /\ \A i, j \in 1 .. Len(v_pap[n]) : f[i] = f[j] => i = j
  /\ \A m \in msgs : IsAsk(m) => \A i \in 1 .. Len(v_pap[n]) : f[i] # Server(m)

VectorFits == \A n \in Node : pc[n] = "paps" => \E f : Proposers(n, f)

\* What get_prim_addr collects and has chosen, it forgets; who joins has nothing to offer.
WhileWaiting ==
  \A n \in Node :
    /\ pc[n] # "paps" => v_pap[n] = <<>>
    /\ pc[n] # "panc" => chosen[n] = NoPap
    /\ \A i \in 1 .. Len(v_pap[n]) : v_pap[n][i].mask # 0
    /\ pc[n] \in {"off", "paps", "panc"} => rcvd_addr[n] = <<>> /\ rcvd_offered[n] = NoAddr

\* What is in flight after the PAN is about the offer that was chosen.
ChosenStands ==
  \A n \in Node : pc[n] = "panc" =>
    /\ red_numero[n] = chosen[n].red /\ chosen[n].mask # 0
    /\ \A m \in msgs :
         /\ m.type \in {"PAN", "PANC"}
         /\ m.type = "PAN" => /\ m.owner = chosen[n].owner /\ m.addr = chosen[n].addr
                              /\ m.red = chosen[n].red

Control == OneJoiner /\ OwnPackets /\ AskedOnce /\ VectorFits /\ WhileWaiting /\ ChosenStands

\* The space of a node's own address, and the i-th one it recovered.
Own(n) == Space(prim_addr[n], prim_mask[n])
Rcvd(n, i) == Space(rcvd_addr[n][i].addr, rcvd_addr[n][i].mask)

\* A node has every address once, and does not offer what it uses.
OwnSpace1(n) ==
  /\ \A i \in 1 .. Len(rcvd_addr[n]) : Rcvd(n, i) \cap Own(n) = {}
  /\ \A i, j \in 1 .. Len(rcvd_addr[n]) : i # j => Rcvd(n, i) \cap Rcvd(n, j) = {}
  /\ rcvd_offered[n] \notin Own(n)

OwnSpaces == \A n \in Node : OwnSpace1(n)

\* No two nodes of a network administer the same address.
HeldApart == \A n, k \in Up : n # k /\ red_numero[n] = red_numero[k] => Held(n) \cap Held(k) = {}

\* What p will give away for o: a recovered space, half of its own, or nothing any more.
InList(p, o) ==
  /\ rcvd_offered[p] = o.addr
  /\ \E i \in 1 .. Len(rcvd_addr[p]) : rcvd_addr[p][i].addr = o.addr /\ rcvd_addr[p][i].mask = o.mask

IsHalf(p, o) ==
  /\ prim_mask[p] < Dim
  /\ o.addr = Flip(prim_addr[p], prim_mask[p]) /\ o.mask = prim_mask[p] + 1
  /\ rcvd_offered[p] # o.addr

Stands(p, o) == InList(p, o) \/ IsHalf(p, o) \/ Space(o.addr, o.mask) \cap Held(p) = {}

\* As long as the proposer runs, it will give o away, or has, and nobody else has any of it.
GoodOffer(o) ==
  \A p \in Up : red_numero[p] = o.red /\ prim_addr[p] = o.owner =>
    /\ Stands(p, o)
    /\ \A k \in Up \ {p} : red_numero[k] = o.red => Held(k) \cap Space(o.addr, o.mask) = {}

GoodOffers == \A n \in Joining : \A o \in Offers(n) : o.mask # 0 => GoodOffer(o)

-----------------------------------------------------------------------------
\* Held, with the names above.
LEMMA Holds ==
  ASSUME NEW n \in Node, rcvd_addr[n] \in Seq(Recovered)
  PROVE  /\ Own(n) \subseteq Held(n)
         /\ \A i \in 1 .. Len(rcvd_addr[n]) : Rcvd(n, i) \subseteq Held(n)
         /\ \A x \in Held(n) : x \in Own(n) \/ \E i \in 1 .. Len(rcvd_addr[n]) : x \in Rcvd(n, i)
  BY DEF Held, Own, Rcvd

\* The spaces of n, and what it offered, are what they were.
SameSpaces(n) ==
  /\ prim_addr'[n] = prim_addr[n] /\ prim_mask'[n] = prim_mask[n]
  /\ rcvd_addr'[n] = rcvd_addr[n] /\ rcvd_offered'[n] = rcvd_offered[n]

LEMMA SameHeld ==
  ASSUME NEW n \in Node, SameSpaces(n)
  PROVE  /\ Held(n)' = Held(n)
         /\ OwnSpace1(n) => OwnSpace1(n)'
         /\ \A o : Stands(n, o) <=> Stands(n, o)'
  <1>1. Held(n)' = Held(n)
    BY DEF SameSpaces, Held
  <1>2. OwnSpace1(n) => OwnSpace1(n)'
    BY DEF SameSpaces, OwnSpace1, Own, Rcvd
  <1>3. ASSUME NEW o PROVE Stands(n, o) <=> Stands(n, o)'
    BY <1>1 DEF SameSpaces, Stands, InList, IsHalf
  <1> QED BY <1>1, <1>2, <1>3

\* Nobody new is up, and nobody has more than before.
NobodyGains ==
  \A k \in Node : pc'[k] = "up" =>
    /\ pc[k] = "up" /\ red_numero'[k] = red_numero[k] /\ prim_addr'[k] = prim_addr[k]
    /\ Held(k)' \subseteq Held(k)

LEMMA StillApart ==
  ASSUME HeldApart, NobodyGains
  PROVE  HeldApart'
  BY DEF HeldApart, NobodyGains, Up

LEMMA StillGood ==
  ASSUME NEW o, GoodOffer(o), NobodyGains,
         \A p \in Node : pc'[p] = "up" /\ Stands(p, o) => Stands(p, o)'
  PROVE  GoodOffer(o)'
  BY DEF GoodOffer, NobodyGains, Up

LEMMA StillFree ==
  ASSUME ConfirmedIsFree, NobodyGains,
         \A n \in Node : pc'[n] = "panc" =>
           pc[n] = "panc" /\ chosen'[n] = chosen[n] /\ red_numero'[n] = red_numero[n],
         \A m \in msgs' : m.type = "PANC" => m \in msgs
  PROVE  ConfirmedIsFree'
  BY DEF ConfirmedIsFree, NobodyGains, Up

\* n joins, and everything in flight is to it or of it
LEMMA AllMine ==
  ASSUME Control, NEW n \in Joining, Settled(n)
  PROVE  msgs = {}
  BY DEF Control, OwnPackets, Settled, Client

-----------------------------------------------------------------------------
\* Control: who joins, and what is in flight.

\* Who reads a packet that a joining node sends has an address already.
LEMMA ServerIsUp ==
  ASSUME Control, NEW n \in Node, NEW m \in msgs, Reads(n, m), m.type \in {"PAR", "PAN"}
  PROVE  pc[n] = "up"
  <1>1. Server(m) = n /\ Client(m) # n
    BY DEF Reads, Server, Client, Control, OwnPackets
  <1> QED BY <1>1 DEF Reads, Awake, Control, OwnPackets, Joining

\* The vector of PAPs does not fill up.
LEMMA NeverFull ==
  ASSUME OneByOne, IInv, Control, NEW n \in Node, pc[n] = "paps"
  PROVE  Len(v_pap[n]) \in Nat /\ Len(v_pap[n]) < MaxRcvdPap
  <1>1. PICK f : Proposers(n, f)
    BY DEF Control, VectorFits
  <1>2. Len(v_pap[n]) \in Nat
    BY DEF IInv, JoinOK
  <1>3. /\ IsFiniteSet(Node \ {n}) /\ Cardinality(Node \ {n}) = Cardinality(Node) - 1
        /\ Cardinality(Node) \in Nat
    BY FS_RemoveElement, FS_CardinalityType DEF OneByOne
  <1>4. f \in [1 .. Len(v_pap[n]) -> Node \ {n}]
        /\ \A i, j \in 1 .. Len(v_pap[n]) : f[i] = f[j] => i = j
    BY <1>1 DEF Proposers
  <1>5. IsFiniteSet(1 .. Len(v_pap[n])) /\ Cardinality(1 .. Len(v_pap[n])) = Len(v_pap[n])
    BY <1>2, FS_Interval, SMTT(30)
  <1>6. ~ (Cardinality(Node \ {n}) < Len(v_pap[n]))
    BY <1>3, <1>4, <1>5, FS_PigeonHole
  <1> QED BY <1>2, <1>3, <1>5, <1>6, BoundsAssumption DEF OneByOne

\* When get_prim_addr stops to wait, nothing is in flight.
LEMMA NothingComes ==
  ASSUME OneByOne, IInv, Control, NEW n \in Node,
         Collected(n) \/ (pc[n] = "panc" /\ Expired(n))
  PROVE  msgs = {} /\ n \in Joining
  <1>1. n \in Joining /\ Settled(n)
    BY NeverFull DEF Collected, Expired, Joining, OneByOne
  <1> QED BY <1>1, AllMine

\* The vector says the same as long as nobody is asked again.
LEMMA SameProposers ==
  ASSUME NEW n \in Node, v_pap'[n] = v_pap[n],
         \A m \in msgs' : IsAsk(m) => \E k \in msgs : IsAsk(k) /\ Server(k) = Server(m),
         \E f : Proposers(n, f)
  PROVE  (\E f : Proposers(n, f))'
  <1>1. PICK f : Proposers(n, f)
    OBVIOUS
  <1>2. Proposers(n, f)'
    BY <1>1 DEF Proposers
  <1> QED BY <1>2

\* A step that moves nobody towards an address, and adds at most the answer to
\* a datagram that it removes.
Answers(m, k) ==
  /\ Server(m) = Server(k) /\ Client(m) = Client(k)
  /\ \/ m.type = "PAP" /\ k.type = "PAR"
     \/ m.type = "PANC" /\ k.type = "PAN"

LEMMA KeepsControl ==
  ASSUME Control, v_pap' = v_pap, chosen' = chosen,
         \A n \in Node : pc'[n] = pc[n] \/ (pc[n] = "up" /\ pc'[n] = "hung"),
         \A n \in Node : pc'[n] = "panc" => red_numero'[n] = red_numero[n],
         \A n \in Node : pc[n] # "up" =>
           rcvd_addr'[n] = rcvd_addr[n] /\ rcvd_offered'[n] = rcvd_offered[n],
         \A m \in msgs' : m \in msgs \/ \E k \in msgs \ msgs' : Answers(m, k),
         \A m, k \in msgs' \ msgs : m = k
  PROVE  Control'
  <1>1. OneJoiner'
    BY DEF Control, OneJoiner, Joining
  <1>2. OwnPackets'
    BY DEF Control, OwnPackets, Joining, Answers, Client, Server
  <1>3. AskedOnce'
    BY DEF Control, AskedOnce, Answers, IsAsk
  <1>4. VectorFits'
    <2> SUFFICES ASSUME NEW n \in Node, pc'[n] = "paps"
                 PROVE  (\E f : Proposers(n, f))'
      BY DEF VectorFits
    <2>1. \E f : Proposers(n, f)
      BY DEF Control, VectorFits
    <2>2. \A m \in msgs' : IsAsk(m) => \E k \in msgs : IsAsk(k) /\ Server(k) = Server(m)
      BY DEF Answers, IsAsk
    <2> QED BY <2>1, <2>2, SameProposers
  <1>5. WhileWaiting'
    BY DEF Control, WhileWaiting
  <1>6. ChosenStands'
    BY DEF Control, ChosenStands, Answers
  <1> QED BY <1>1, <1>2, <1>3, <1>4, <1>5, <1>6 DEF Control

\* Only n joins, and sends a PAR.
LEMMA AskingControl ==
  ASSUME Control, NEW n \in Node, NEW flight \in SUBSET msgs,
         \A k \in Joining : k = n,
         \A m \in flight : ~IsAsk(m) /\ Client(m) = n /\ Server(m) # n,
         pc' = [pc EXCEPT ![n] = "paps"], msgs' = flight \cup Par(n), IInv,
         v_pap'[n] = <<>>, chosen'[n] = NoPap,
         rcvd_addr'[n] = <<>>, rcvd_offered'[n] = NoAddr,
         \A k \in Node \ {n} : /\ v_pap'[k] = v_pap[k] /\ chosen'[k] = chosen[k]
                               /\ rcvd_addr'[k] = rcvd_addr[k]
                               /\ rcvd_offered'[k] = rcvd_offered[k]
  PROVE  Control'
  <1>1. pc'[n] = "paps" /\ \A k \in Node \ {n} : pc'[k] = pc[k] /\ k \notin Joining
    BY DEF IInv, JoinOK
  <1>2. \A m \in Par(n) : /\ m.type = "PAR" /\ Client(m) = n /\ Server(m) # n
                        /\ m = [type |-> "PAR", src |-> n, dst |-> Server(m)]
    <2> SUFFICES ASSUME NEW m \in Par(n)
                 PROVE  /\ m.type = "PAR" /\ Client(m) = n /\ Server(m) # n
                        /\ m = [type |-> "PAR", src |-> n, dst |-> Server(m)]
      OBVIOUS
    <2>1. PICK k \in Listeners(n) : m = [type |-> "PAR", src |-> n, dst |-> k]
      BY DEF Par
    <2>2. k # n
      BY LinkAssumption DEF Listeners
    <2> QED BY <2>1, <2>2 DEF Client, Server
  <1>3. OneJoiner'
    BY <1>1 DEF OneJoiner, Joining
  <1>4. OwnPackets'
    <2>1. \A m \in msgs' : Client(m) = n /\ Server(m) # n
      BY <1>2
    <2> QED BY <1>1, <2>1 DEF OwnPackets, Joining, Client, Server
  <1>5. AskedOnce'
    BY <1>2 DEF AskedOnce, IsAsk
  <1>6. VectorFits'
    <2>1. (Proposers(n, <<>>))'
      BY <1>1 DEF Proposers
    <2> QED BY <1>1, <2>1 DEF VectorFits, Joining
  <1>7. WhileWaiting'
    BY <1>1 DEF Control, WhileWaiting
  <1>8. ChosenStands'
    BY <1>1 DEF ChosenStands, Joining
  <1> QED BY <1>3, <1>4, <1>5, <1>6, <1>7, <1>8 DEF Control

\* The wait for the PANC is given up.
LEMMA RestartControl ==
  ASSUME IInv, Control, NEW n \in Node, NEW flight \in SUBSET msgs,
         pc[n] = "panc", Restart(n, flight), UNCHANGED <<rcvd_addr, rcvd_offered>>
  PROVE  Control'
  <1>1. n \in Joining /\ \A k \in Joining : k = n
    BY DEF Control, OneJoiner, Joining
  <1>2. \A m \in flight : ~IsAsk(m) /\ Client(m) = n /\ Server(m) # n
    <2> SUFFICES ASSUME NEW m \in flight
                 PROVE  ~IsAsk(m) /\ Client(m) = n /\ Server(m) # n
      OBVIOUS
    <2>1. m.type \in {"PAN", "PANC"}
      BY DEF Control, ChosenStands
    <2>2. Client(m) = n /\ Server(m) # Client(m)
      BY <1>1 DEF Control, OwnPackets
    <2> QED BY <2>1, <2>2 DEF IsAsk
  <1>3. /\ v_pap[n] = <<>> /\ rcvd_addr[n] = <<>> /\ rcvd_offered[n] = NoAddr
        /\ v_pap' = v_pap /\ chosen' = [chosen EXCEPT ![n] = NoPap]
        /\ pc' = [pc EXCEPT ![n] = "paps"] /\ msgs' = flight \cup Par(n)
    BY DEF Control, WhileWaiting, Restart
  <1>4. chosen'[n] = NoPap /\ \A k \in Node \ {n} : chosen'[k] = chosen[k]
    BY <1>3 DEF IInv, JoinOK
  <1> QED BY <1>1, <1>2, <1>3, <1>4, AskingControl

\* A packet that is not awaited.
LEMMA NotAwaitedControl ==
  ASSUME IInv, Control, NEW n \in Node, NEW flight \in SUBSET msgs, NEW reds,
         NotAwaited(n, flight, reds), UNCHANGED <<rcvd_addr, rcvd_offered>>
  PROVE  Control'
  <1>0. /\ \A k \in Node : pc[k] # "up" =>
             rcvd_addr'[k] = rcvd_addr[k] /\ rcvd_offered'[k] = rcvd_offered[k]
        /\ \A m, k \in flight \ msgs : m = k
    OBVIOUS
  <1>1. CASE pc[n] = "up" /\ msgs' = flight /\ UNCHANGED joinVars
    <2>1. /\ v_pap' = v_pap /\ chosen' = chosen /\ pc' = pc
          /\ \A k \in Node : pc'[k] = "panc" => red_numero'[k] = red_numero[k]
          /\ \A m \in msgs' : m \in msgs
      BY <1>1 DEF joinVars
    <2> QED BY <1>0, <1>1, <2>1, KeepsControl
  <1>2. CASE /\ pc[n] = "paps" /\ \E r \in reds : red_numero' = [red_numero EXCEPT ![n] = r]
             /\ msgs' = flight
             /\ UNCHANGED <<pc, prim_addr, prim_mask_inicial, flag_conexion, v_pap, chosen>>
    <2>1. /\ \A k \in Node : pc'[k] = "panc" => red_numero'[k] = red_numero[k]
          /\ \A m \in msgs' : m \in msgs
      BY <1>2 DEF IInv, JoinOK
    <2> QED BY <1>0, <1>2, <2>1, KeepsControl
  <1>3. CASE pc[n] = "panc" /\ Restart(n, flight)
    BY <1>3, RestartControl
  <1> QED BY <1>1, <1>2, <1>3 DEF NotAwaited

LEMMA BootControl ==
  ASSUME OneByOne, IInv, Control, NEW n \in Node, Boot(n)
  PROVE  Control' /\ Joining = {}
  <1>1. Joining = {}
    <2>1. IsFiniteSet(Joining) /\ Cardinality(Joining) \in Nat
      BY FS_Subset, FS_CardinalityType DEF OneByOne, Joining
    <2>2. Cardinality(Joining) = 0
      BY <2>1 DEF Boot, OneByOne
    <2> QED BY <2>1, <2>2, FS_EmptySet
  <1> DEFINE flight == {}
  <1>2. /\ pc' = [pc EXCEPT ![n] = "paps"] /\ msgs' = flight \cup Par(n)
        /\ flight \in SUBSET msgs /\ \A k \in Joining : k = n
        /\ \A m \in flight : ~IsAsk(m) /\ Client(m) = n /\ Server(m) # n
    BY <1>1 DEF Boot, OneByOne
  <1> HIDE DEF flight
  <1>3. /\ v_pap'[n] = <<>> /\ chosen'[n] = NoPap
        /\ rcvd_addr'[n] = <<>> /\ rcvd_offered'[n] = NoAddr
        /\ \A k \in Node \ {n} : /\ v_pap'[k] = v_pap[k] /\ chosen'[k] = chosen[k]
                                /\ rcvd_addr'[k] = rcvd_addr[k]
                                /\ rcvd_offered'[k] = rcvd_offered[k]
    BY DEF Boot, Fresh, IInv, JoinOK, SpaceOK
  <1>4. Control'
    <2>1. /\ pc' = [pc EXCEPT ![n] = "paps"] /\ msgs' = flight \cup Par(n)
          /\ v_pap'[n] = <<>> /\ chosen'[n] = NoPap
          /\ rcvd_addr'[n] = <<>> /\ rcvd_offered'[n] = NoAddr
      BY <1>2, <1>3
    <2>2. \A k \in Node \ {n} : /\ v_pap'[k] = v_pap[k] /\ chosen'[k] = chosen[k]
                                /\ rcvd_addr'[k] = rcvd_addr[k]
                                /\ rcvd_offered'[k] = rcvd_offered[k]
      BY <1>3
    <2>3. flight \in SUBSET msgs
      BY <1>2
    <2>4. \A k \in Joining : k = n
      BY <1>2
    <2>5. \A m \in flight : ~IsAsk(m) /\ Client(m) = n /\ Server(m) # n
      BY <1>2
    <2> QED BY <2>1, <2>2, <2>3, <2>4, <2>5, AskingControl, Zenon
  <1> QED BY <1>1, <1>4

\* n has made its choice: it is one of the offers it collected.
LEMMA SendPanFacts ==
  ASSUME OneByOne, IInv, Control, NEW n \in Node, SendPan(n)
  PROVE  /\ msgs = {} /\ n \in Joining
         /\ \E i \in 1 .. Len(v_pap[n]) : chosen'[n] = v_pap[n][i]
         /\ chosen'[n].mask # 0 /\ red_numero'[n] = chosen'[n].red
         /\ \A m \in msgs' : /\ m.type = "PAN" /\ Client(m) = n /\ Server(m) # n
                            /\ m.owner = chosen'[n].owner /\ m.addr = chosen'[n].addr
                            /\ m.red = chosen'[n].red
  <1>1. msgs = {} /\ n \in Joining
    <2>1. Collected(n)
      BY DEF SendPan
    <2> QED BY <2>1, NothingComes
  <1>2. v_pap[n] \in Seq(Pap) /\ v_pap[n] # <<>>
    BY DEF SendPan, IInv, JoinOK
  <1>3. PICK i \in 1 .. Len(v_pap[n]) : Best(v_pap[n]) = v_pap[n][i]
    BY <1>2, BestIsOne
  <1> DEFINE best == Best(v_pap[n])
  <1>4. chosen'[n] = best /\ red_numero'[n] = best.red /\ best.mask # 0
    BY <1>3 DEF SendPan, IInv, JoinOK, Control, WhileWaiting
  <1>5. ASSUME NEW m \in msgs'
        PROVE  /\ m.type = "PAN" /\ Client(m) = n /\ Server(m) # n
               /\ m.owner = best.owner /\ m.addr = best.addr /\ m.red = best.red
    <2>1. msgs' = Pan(n, best)
      BY <1>1 DEF SendPan
    <2> HIDE DEF best
    <2>2. PICK k \in Listeners(n) :
            m = [type |-> "PAN", src |-> n, dst |-> k,
                 owner |-> best.owner, addr |-> best.addr, red |-> best.red]
      BY <2>1 DEF Pan
    <2>3. k # n
      BY LinkAssumption DEF Listeners
    <2> QED BY <2>2, <2>3 DEF Client, Server
  <1> QED BY <1>1, <1>3, <1>4, <1>5

LEMMA SendPanControl ==
  ASSUME OneByOne, IInv, Control, NEW n \in Node, SendPan(n)
  PROVE  Control'
  <1>1. \A k \in Joining : k = n
    BY SendPanFacts DEF Control, OneJoiner
  <1>2. /\ pc'[n] = "panc" /\ v_pap'[n] = <<>>
        /\ \A k \in Node \ {n} : pc'[k] = pc[k] /\ v_pap'[k] = v_pap[k] /\ chosen'[k] = chosen[k]
        /\ rcvd_addr' = rcvd_addr /\ rcvd_offered' = rcvd_offered
    BY DEF SendPan, IInv, JoinOK, spaceVars
  <1>3. pc[n] = "paps"
    BY DEF SendPan, Collected
  <1>4. OneJoiner' /\ VectorFits'
    BY <1>1, <1>2 DEF OneJoiner, VectorFits, Joining
  <1>5. OwnPackets'
    BY <1>1, <1>2, SendPanFacts DEF OwnPackets, Joining, Client, Server
  <1>6. AskedOnce'
    BY SendPanFacts DEF AskedOnce, IsAsk
  <1>7. WhileWaiting'
    BY <1>2, <1>3 DEF Control, WhileWaiting
  <1>8. ChosenStands'
    BY <1>1, <1>2, SendPanFacts DEF ChosenStands, Joining
  <1> QED BY <1>4, <1>5, <1>6, <1>7, <1>8 DEF Control

\* Nobody waits any more for an answer to n, who has an address or stopped.
LEMMA LeavingControl ==
  ASSUME IInv, Control, NEW n \in Node, NEW where \in {"off", "up"},
         pc' = [pc EXCEPT ![n] = where], msgs' \subseteq msgs,
         v_pap'[n] = <<>>, chosen'[n] = NoPap,
         where = "off" => rcvd_addr'[n] = <<>> /\ rcvd_offered'[n] = NoAddr,
         \A k \in Node \ {n} : /\ v_pap'[k] = v_pap[k] /\ chosen'[k] = chosen[k]
                               /\ red_numero'[k] = red_numero[k]
                               /\ rcvd_addr'[k] = rcvd_addr[k]
                               /\ rcvd_offered'[k] = rcvd_offered[k]
  PROVE  Control'
  <1>1. pc'[n] = where /\ \A k \in Node \ {n} : pc'[k] = pc[k]
    BY DEF IInv, JoinOK
  <1>2. OneJoiner' /\ OwnPackets'
    BY <1>1 DEF Control, OneJoiner, OwnPackets, Joining, Client, Server
  <1>3. AskedOnce'
    BY DEF Control, AskedOnce
  <1>4. VectorFits'
    <2> SUFFICES ASSUME NEW k \in Node, pc'[k] = "paps"
                 PROVE  (\E f : Proposers(k, f))'
      BY DEF VectorFits
    <2>1. k # n /\ pc[k] = "paps" /\ v_pap'[k] = v_pap[k]
      BY <1>1
    <2>2. \E f : Proposers(k, f)
      BY <2>1 DEF Control, VectorFits
    <2> QED BY <2>1, <2>2, SameProposers
  <1>5. WhileWaiting'
    BY <1>1 DEF Control, WhileWaiting
  <1>6. ChosenStands'
    BY <1>1 DEF Control, ChosenStands
  <1> QED BY <1>2, <1>3, <1>4, <1>5, <1>6 DEF Control

\* A PAR or a PAN is answered in the main loop.
LEMMA AnswerFacts ==
  ASSUME Control, NEW n \in Node, NEW m \in msgs, Reads(n, m), m.type \in {"PAR", "PAN"},
         NEW a, NEW reds, NotAwaited(n, (msgs \ {m}) \cup {a}, reds)
  PROVE  pc[n] = "up" /\ msgs' = (msgs \ {m}) \cup {a} /\ UNCHANGED joinVars
  <1>1. pc[n] = "up"
    BY ServerIsUp
  <1> QED BY <1>1 DEF NotAwaited

LEMMA AnswerControl ==
  ASSUME Control, NEW n \in Node, NEW m \in msgs, NEW a, Answers(a, m),
         msgs' = (msgs \ {m}) \cup {a}, UNCHANGED joinVars, pc[n] = "up",
         \A k \in Node \ {n} : rcvd_addr'[k] = rcvd_addr[k] /\ rcvd_offered'[k] = rcvd_offered[k]
  PROVE  Control'
  <1>1. m \in msgs \ msgs'
    BY DEF Answers
  <1>2. v_pap' = v_pap /\ chosen' = chosen /\ pc' = pc /\ red_numero' = red_numero
    BY DEF joinVars
  <1>3. \A x \in msgs' : x \in msgs \/ \E k \in msgs \ msgs' : Answers(x, k)
    BY <1>1
  <1>4. \A x, y \in msgs' \ msgs : x = y
    OBVIOUS
  <1>5. \A k \in Node : pc[k] # "up" =>
          rcvd_addr'[k] = rcvd_addr[k] /\ rcvd_offered'[k] = rcvd_offered[k]
    OBVIOUS
  <1> QED BY <1>2, <1>3, <1>4, <1>5, KeepsControl

\* The PAP that send_pap answers with.
PapOf(n) == [owner |-> prim_addr[n], addr |-> Offer(n).addr,
             mask |-> Offer(n).mask, red |-> red_numero[n]]

LEMMA ReceiveParFacts ==
  ASSUME IInv, Control, NEW n \in Node, NEW m \in msgs, ReceivePar(n, m)
  PROVE  /\ pc[n] = "up" /\ UNCHANGED joinVars /\ Control'
         /\ msgs' = (msgs \ {m})
                      \cup {[type |-> "PAP", src |-> n, dst |-> m.src, pap |-> PapOf(n)]}
         /\ UNCHANGED <<prim_mask, rcvd_addr>>
         /\ rcvd_offered' = [rcvd_offered EXCEPT
               ![n] = IF OffersRecovered(n) THEN Offer(n).addr ELSE @]
  <1> DEFINE a == [type |-> "PAP", src |-> n, dst |-> m.src, pap |-> PapOf(n)]
  <1>1. /\ Reads(n, m) /\ m.type = "PAR" /\ UNCHANGED <<prim_mask, rcvd_addr>>
        /\ NotAwaited(n, (msgs \ {m}) \cup {a}, Red)
        /\ rcvd_offered' = [rcvd_offered EXCEPT
              ![n] = IF OffersRecovered(n) THEN Offer(n).addr ELSE @]
    BY DEF ReceivePar, PapOf
  <1>2. Answers(a, m)
    BY <1>1 DEF Answers, Client, Server, Reads
  <1> HIDE DEF a
  <1>3. pc[n] = "up" /\ msgs' = (msgs \ {m}) \cup {a} /\ UNCHANGED joinVars
    BY <1>1, AnswerFacts
  <1>4. \A k \in Node \ {n} : rcvd_addr'[k] = rcvd_addr[k] /\ rcvd_offered'[k] = rcvd_offered[k]
    BY <1>1 DEF IInv, SpaceOK
  <1>5. Control'
    BY <1>2, <1>3, <1>4, AnswerControl
  <1> USE DEF a
  <1> QED BY <1>1, <1>3, <1>5

LEMMA ReceivePanFacts ==
  ASSUME IInv, Control, NEW n \in Node, NEW m \in msgs, ReceivePan(n, m)
  PROVE  /\ pc[n] = "up" /\ UNCHANGED joinVars /\ Control'
         /\ msgs' = (msgs \ {m})
                      \cup {[type |-> "PANC", src |-> n, dst |-> m.src, owner |-> m.owner]}
         /\ UNCHANGED rcvd_offered /\ GiveAway(n, m) /\ NamesMe(n, m)
         /\ m.type = "PAN"
  <1> DEFINE a == [type |-> "PANC", src |-> n, dst |-> m.src, owner |-> m.owner]
  <1>1. /\ Reads(n, m) /\ m.type = "PAN" /\ UNCHANGED rcvd_offered
        /\ GiveAway(n, m) /\ NamesMe(n, m)
        /\ NotAwaited(n, (msgs \ {m}) \cup {a}, {m.red})
    BY DEF ReceivePan
  <1>2. Answers(a, m)
    BY <1>1 DEF Answers, Client, Server, Reads
  <1> HIDE DEF a
  <1>3. pc[n] = "up" /\ msgs' = (msgs \ {m}) \cup {a} /\ UNCHANGED joinVars
    BY <1>1, AnswerFacts
  <1>4. \A k \in Node \ {n} : rcvd_addr'[k] = rcvd_addr[k] /\ rcvd_offered'[k] = rcvd_offered[k]
    BY <1>1 DEF IInv, SpaceOK, GiveAway
  <1>5. Control'
    BY <1>2, <1>3, <1>4, AnswerControl
  <1> USE DEF a
  <1> QED BY <1>1, <1>3, <1>5

\* One more offer in the vector: its sender has not made one that is in it.
LEMMA ReceiveOfferControl ==
  ASSUME IInv, Control, NEW n \in Node, NEW m \in msgs, ReceiveOffer(n, m)
  PROVE  Control'
  <1>1. /\ pc[n] = "paps" /\ m.type = "PAP" /\ m.dst = n /\ m.pap.mask # 0
        /\ v_pap[n] \in Seq(Pap) /\ m.pap \in Pap /\ m.src \in Node
    BY MessageFields DEF ReceiveOffer, Reads, IInv, JoinOK, FlightOK
  <1>2. /\ v_pap'[n] = Append(v_pap[n], m.pap)
        /\ \A k \in Node \ {n} : v_pap'[k] = v_pap[k] /\ red_numero'[k] = red_numero[k]
        /\ pc' = pc /\ chosen' = chosen /\ rcvd_addr' = rcvd_addr
        /\ rcvd_offered' = rcvd_offered /\ msgs' = msgs \ {m}
    BY DEF ReceiveOffer, IInv, JoinOK, spaceVars
  <1>3. \A k \in Joining : k = n
    BY <1>1 DEF Control, OneJoiner, Joining
  <1>4. OneJoiner' /\ OwnPackets' /\ AskedOnce'
    BY <1>2 DEF Control, OneJoiner, OwnPackets, AskedOnce, Joining
  <1>5. VectorFits'
    <2>1. PICK f : Proposers(n, f)
      BY <1>1 DEF Control, VectorFits
    <2>0. PICK len \in Nat : len = Len(v_pap[n])
      BY <1>1
    <2> DEFINE g == [i \in 1 .. len + 1 |-> IF i = len + 1 THEN m.src ELSE f[i]]
    <2>2. len \in Nat /\ Len(v_pap'[n]) = len + 1
      BY <1>1, <1>2, <2>0
    <2>3. IsAsk(m) /\ Server(m) = m.src /\ m.src # n
      BY <1>1 DEF IsAsk, Server, Client, Control, OwnPackets
    <2>4. \A i \in 1 .. len : f[i] # m.src /\ f[i] \in Node \ {n}
      BY <2>0, <2>1, <2>3 DEF Proposers
    <2>5. \A k \in msgs' : IsAsk(k) => Server(k) # m.src
      BY <1>2, <2>3 DEF Control, AskedOnce
    <2>6. \A i \in 1 .. len + 1 : i = len + 1 \/ i \in 1 .. len
      BY <2>2
    <2>7. g \in [1 .. len + 1 -> Node \ {n}]
      BY <1>1, <2>3, <2>4, <2>6
    <2>8. \A i, j \in 1 .. len + 1 : g[i] = g[j] => i = j
      BY <2>0, <2>1, <2>4, <2>6 DEF Proposers
    <2>9. \A k \in msgs' : IsAsk(k) => \A i \in 1 .. len + 1 : g[i] # Server(k)
      BY <1>2, <2>0, <2>1, <2>5, <2>6 DEF Proposers
    <2> HIDE DEF g
    <2>10. (Proposers(n, g))'
      BY <2>2, <2>7, <2>8, <2>9 DEF Proposers
    <2> QED BY <1>2, <1>3, <2>10 DEF VectorFits, Joining
  <1>6. WhileWaiting'
    <2>1. \A i \in 1 .. Len(v_pap'[n]) : v_pap'[n][i].mask # 0
      <3>1. \A i \in 1 .. Len(v_pap'[n]) :
              IF i = Len(v_pap[n]) + 1 THEN v_pap'[n][i] = m.pap
              ELSE i \in 1 .. Len(v_pap[n]) /\ v_pap'[n][i] = v_pap[n][i]
        BY <1>1, <1>2
      <3> QED BY <1>1, <3>1 DEF Control, WhileWaiting
    <2> SUFFICES ASSUME NEW k \in Node
                 PROVE  /\ pc[k] # "paps" => v_pap'[k] = <<>>
                        /\ pc[k] # "panc" => chosen[k] = NoPap
                        /\ \A i \in 1 .. Len(v_pap'[k]) : v_pap'[k][i].mask # 0
                        /\ pc[k] \in {"off", "paps", "panc"}
                             => rcvd_addr[k] = <<>> /\ rcvd_offered[k] = NoAddr
      BY <1>2 DEF WhileWaiting
    <2>2. CASE k = n
      BY <1>1, <2>1, <2>2 DEF Control, WhileWaiting
    <2>3. CASE k # n
      BY <1>2, <2>3 DEF Control, WhileWaiting
    <2> QED BY <2>2, <2>3
  <1>7. ChosenStands'
    BY <1>1, <1>2, <1>3 DEF ChosenStands, Joining
  <1> QED BY <1>4, <1>5, <1>6, <1>7 DEF Control

LEMMA FoundControl ==
  ASSUME OneByOne, IInv, Control, NEW n \in Node, Found(n)
  PROVE  Control' /\ msgs = {} /\ pc[n] = "paps"
  <1>1. Collected(n) /\ pc[n] = "paps"
    BY DEF Found, Collected
  <1>2. msgs = {}
    BY <1>1, NothingComes
  <1>3. /\ pc' = [pc EXCEPT ![n] = "up"] /\ msgs' \subseteq msgs
        /\ v_pap'[n] = <<>> /\ chosen'[n] = NoPap
        /\ \A k \in Node \ {n} : /\ v_pap'[k] = v_pap[k] /\ chosen'[k] = chosen[k]
                                /\ red_numero'[k] = red_numero[k]
                                /\ rcvd_addr'[k] = rcvd_addr[k]
                                /\ rcvd_offered'[k] = rcvd_offered[k]
    BY <1>1 DEF Found, IInv, JoinOK, Control, WhileWaiting
  <1>4. Control'
    BY <1>3, LeavingControl
  <1> QED BY <1>1, <1>2, <1>4

LEMMA ReceivePancControl ==
  ASSUME IInv, Control, NEW n \in Node, NEW m \in msgs, ReceivePanc(n, m)
  PROVE  Control' /\ pc[n] = "panc"
  <1>1. /\ pc[n] = "panc" /\ v_pap[n] = <<>> /\ v_pap' = v_pap
        /\ chosen' = [chosen EXCEPT ![n] = NoPap] /\ pc' = [pc EXCEPT ![n] = "up"]
        /\ red_numero' = red_numero /\ rcvd_addr' = rcvd_addr
        /\ rcvd_offered' = rcvd_offered /\ msgs' \subseteq msgs
    BY DEF ReceivePanc, Control, WhileWaiting
  <1>2. /\ v_pap'[n] = <<>> /\ chosen'[n] = NoPap
        /\ \A k \in Node \ {n} : /\ v_pap'[k] = v_pap[k] /\ chosen'[k] = chosen[k]
                                /\ red_numero'[k] = red_numero[k]
                                /\ rcvd_addr'[k] = rcvd_addr[k]
                                /\ rcvd_offered'[k] = rcvd_offered[k]
    BY <1>1 DEF IInv, JoinOK
  <1>3. Control'
    BY <1>1, <1>2, LeavingControl
  <1> QED BY <1>1, <1>3

LEMMA CrashControl ==
  ASSUME IInv, Control, NEW n \in Node, Crash(n)
  PROVE  Control'
  <1>1. /\ pc' = [pc EXCEPT ![n] = "off"] /\ msgs' \subseteq msgs
        /\ v_pap'[n] = <<>> /\ chosen'[n] = NoPap
        /\ rcvd_addr'[n] = <<>> /\ rcvd_offered'[n] = NoAddr
        /\ \A k \in Node \ {n} : /\ v_pap'[k] = v_pap[k] /\ chosen'[k] = chosen[k]
                                /\ red_numero'[k] = red_numero[k]
                                /\ rcvd_addr'[k] = rcvd_addr[k]
                                /\ rcvd_offered'[k] = rcvd_offered[k]
    BY DEF Crash, Fresh, IInv, JoinOK, SpaceOK
  <1> QED BY <1>1, LeavingControl

LEMMA CheckNeighborsControl ==
  ASSUME IInv, Control, NEW n \in Node, NEW e \in neigh_table[n], CheckNeighbors(n, e)
  PROVE  Control'
  <1>1. /\ v_pap' = v_pap /\ chosen' = chosen /\ msgs' = msgs /\ red_numero' = red_numero
        /\ \A k \in Node : pc'[k] = pc[k] \/ (pc[k] = "up" /\ pc'[k] = "hung")
        /\ \A k \in Node : pc[k] # "up" =>
             rcvd_addr'[k] = rcvd_addr[k] /\ rcvd_offered'[k] = rcvd_offered[k]
    BY DEF CheckNeighbors, IInv, JoinOK, SpaceOK
  <1>2. /\ \A k \in Node : pc'[k] = "panc" => red_numero'[k] = red_numero[k]
        /\ \A m \in msgs' : m \in msgs
        /\ \A m, k \in msgs' \ msgs : m = k
    BY <1>1
  <1> QED BY <1>1, <1>2, KeepsControl

LEMMA ResetAloneControl ==
  ASSUME IInv, Control, NEW n \in Node, ResetAlone(n)
  PROVE  Control'
  <1>1. /\ v_pap' = v_pap /\ chosen' = chosen /\ msgs' = msgs /\ pc' = pc
        /\ \A k \in Node : pc'[k] = "panc" => red_numero'[k] = red_numero[k]
        /\ \A k \in Node : pc[k] # "up" =>
             rcvd_addr'[k] = rcvd_addr[k] /\ rcvd_offered'[k] = rcvd_offered[k]
    BY DEF ResetAlone, IInv, JoinOK, SpaceOK
  <1>2. /\ \A m \in msgs' : m \in msgs
        /\ \A m, k \in msgs' \ msgs : m = k
    BY <1>1
  <1> QED BY <1>1, <1>2, KeepsControl

\* Steps that read a packet which is of no use, hear a heartbeat, lose a
\* packet, or give up to wait.
Idle ==
  \/ \E n, k \in Node : HearHb(n, k)
  \/ \E n \in Node : PancTimeout(n)
  \/ \E n \in Node, m \in msgs :
       \/ ReceiveOtherPap(n, m) \/ ReceiveOtherPan(n, m) \/ ReceiveOtherPanc(n, m)
       \/ Lose(m)
  \/ UNCHANGED vars

\* What they have in common.
IdleStep ==
  /\ UNCHANGED spaceVars
  /\ \E flight \in SUBSET msgs :
       \/ \E n \in Node, reds \in SUBSET Red : NotAwaited(n, flight, reds)
       \/ \E n \in Node : pc[n] = "panc" /\ Restart(n, flight)
       \/ msgs' = flight /\ UNCHANGED joinVars

LEMMA IdleFacts ==
  ASSUME IInv, Idle
  PROVE  IdleStep
  <1>1. ASSUME NEW n \in Node, NEW k \in Node, HearHb(n, k) PROVE IdleStep
    <2>1. red_numero[k] \in Red
      BY DEF IInv, JoinOK
    <2> QED BY <1>1, <2>1 DEF HearHb, IdleStep
  <1>2. ASSUME NEW n \in Node, PancTimeout(n) PROVE IdleStep
    BY <1>2 DEF PancTimeout, IdleStep
  <1>3. ASSUME NEW n \in Node, NEW m \in msgs,
               ReceiveOtherPap(n, m) \/ ReceiveOtherPan(n, m) \/ ReceiveOtherPanc(n, m)
        PROVE  IdleStep
    <2>1. m \in Message
      BY DEF IInv, FlightOK
    <2>2. m.type = "PAP" => m.pap.red \in Red
      BY <2>1, MessageFields DEF Pap
    <2>3. m.type = "PAN" => m.red \in Red
      BY <2>1, MessageFields
    <2>4. \E reds \in SUBSET Red : NotAwaited(n, msgs \ {m}, reds) /\ UNCHANGED spaceVars
      BY <1>3, <2>2, <2>3 DEF ReceiveOtherPap, ReceiveOtherPan, ReceiveOtherPanc
    <2>5. msgs \ {m} \in SUBSET msgs
      OBVIOUS
    <2> QED BY <2>4, <2>5 DEF IdleStep
  <1>4. ASSUME NEW m \in msgs, Lose(m) PROVE IdleStep
    <2>1. msgs \ {m} \in SUBSET msgs
      OBVIOUS
    <2>2. msgs' = msgs \ {m} /\ UNCHANGED joinVars /\ UNCHANGED spaceVars
      BY <1>4 DEF Lose
    <2> QED BY <2>1, <2>2 DEF IdleStep
  <1>5. ASSUME UNCHANGED vars PROVE IdleStep
    <2>1. msgs' = msgs /\ UNCHANGED joinVars /\ UNCHANGED spaceVars
      BY <1>5 DEF vars
    <2> QED BY <2>1 DEF IdleStep
  <1> QED BY <1>1, <1>2, <1>3, <1>4, <1>5 DEF Idle

LEMMA IdleControl ==
  ASSUME IInv, Control, IdleStep
  PROVE  Control'
  <1>1. UNCHANGED <<rcvd_addr, rcvd_offered>>
    BY DEF IdleStep, spaceVars
  <1>2. PICK flight \in SUBSET msgs :
          \/ \E n \in Node, reds \in SUBSET Red : NotAwaited(n, flight, reds)
          \/ \E n \in Node : pc[n] = "panc" /\ Restart(n, flight)
          \/ msgs' = flight /\ UNCHANGED joinVars
    BY DEF IdleStep
  <1>3. ASSUME NEW n \in Node, NEW reds, NotAwaited(n, flight, reds) PROVE Control'
    BY <1>1, <1>3, NotAwaitedControl
  <1>4. ASSUME NEW n \in Node, pc[n] = "panc", Restart(n, flight) PROVE Control'
    BY <1>1, <1>4, RestartControl
  <1>5. ASSUME msgs' = flight, UNCHANGED joinVars PROVE Control'
    <2>1. v_pap' = v_pap /\ chosen' = chosen /\ pc' = pc /\ red_numero' = red_numero
      BY <1>5 DEF joinVars
    <2>2. /\ \A k \in Node : pc'[k] = "panc" => red_numero'[k] = red_numero[k]
          /\ \A k \in Node : pc[k] # "up" =>
               rcvd_addr'[k] = rcvd_addr[k] /\ rcvd_offered'[k] = rcvd_offered[k]
          /\ \A m \in msgs' : m \in msgs
          /\ \A m, k \in msgs' \ msgs : m = k
      BY <1>1, <1>5, <2>1
    <2> QED BY <2>1, <2>2, KeepsControl
  <1> QED BY <1>2, <1>3, <1>4, <1>5

\* Next, with the steps that do nothing for an address taken together.
NodeStep(n) ==
  \/ Boot(n) \/ SendPan(n) \/ Found(n) \/ ResetAlone(n) \/ Crash(n)
  \/ \E e \in neigh_table[n] : CheckNeighbors(n, e)
  \/ \E m \in msgs : \/ ReceivePar(n, m) \/ ReceiveOffer(n, m)
                     \/ ReceivePan(n, m) \/ ReceivePanc(n, m)

LEMMA NextCases ==
  ASSUME IInv, [Next]_vars
  PROVE  (\E n \in Node : NodeStep(n)) \/ Idle
  <1>1. ASSUME NEW n \in Node,
               \/ Boot(n) \/ SendPan(n) \/ Found(n) \/ PancTimeout(n) \/ ResetAlone(n) \/ Crash(n)
               \/ \E k \in Node : HearHb(n, k)
               \/ \E e \in neigh_table[n] : CheckNeighbors(n, e)
        PROVE  NodeStep(n) \/ Idle
    BY <1>1 DEF NodeStep, Idle
  <1>2. ASSUME NEW m \in msgs,
               \/ ReceivePar(m.dst, m) \/ ReceiveOffer(m.dst, m) \/ ReceiveOtherPap(m.dst, m)
               \/ ReceivePan(m.dst, m) \/ ReceiveOtherPan(m.dst, m)
               \/ ReceivePanc(m.dst, m) \/ ReceiveOtherPanc(m.dst, m) \/ Lose(m)
        PROVE  NodeStep(m.dst) \/ Idle
    <2>1. m.dst \in Node
      BY MessageFields DEF IInv, FlightOK
    <2> QED BY <1>2, <2>1 DEF NodeStep, Idle
  <1>3. \A m \in msgs : m.dst \in Node
    BY MessageFields DEF IInv, FlightOK
  <1>4. CASE UNCHANGED vars
    BY <1>4 DEF Idle
  <1>5. CASE Next
    BY <1>1, <1>2, <1>3, <1>5 DEF Next
  <1> QED BY <1>4, <1>5

LEMMA StepControl ==
  ASSUME OneByOne, IInv, Control, [Next]_vars
  PROVE  Control'
  <1>1. (\E n \in Node : NodeStep(n)) \/ Idle
    BY NextCases
  <1> QED BY <1>1, BootControl, SendPanControl, FoundControl, ResetAloneControl, CrashControl,
             CheckNeighborsControl, ReceiveParFacts, ReceiveOfferControl, ReceivePanFacts,
             ReceivePancControl, IdleFacts, IdleControl DEF NodeStep

-----------------------------------------------------------------------------
\* Spaces: who administers what, and what is on offer.

Spaces == OwnSpaces /\ HeldApart /\ GoodOffers /\ ConfirmedIsFree

\* Nobody is offered more than before.
LEMMA SameOffers ==
  ASSUME NEW n \in Node, v_pap'[n] = v_pap[n] \/ v_pap'[n] = <<>>,
         chosen'[n] = chosen[n] \/ chosen'[n] = NoPap,
         \A m \in msgs' : m.type = "PAP" => m \in msgs
  PROVE  \A o \in (Offers(n))' : o.mask # 0 => o \in Offers(n)
  <1>1. NoPap.mask = 0
    BY DEF NoPap
  <1> SUFFICES ASSUME NEW o \in (Offers(n))', o.mask # 0
               PROVE  o \in Offers(n)
    OBVIOUS
  <1>2. CASE o \in {m.pap : m \in {k \in msgs' : k.type = "PAP" /\ k.dst = n}}
    BY <1>2 DEF Offers
  <1>3. CASE o \in {v_pap'[n][i] : i \in DOMAIN v_pap'[n]}
    BY <1>3 DEF Offers
  <1>4. CASE o = chosen'[n]
    BY <1>1, <1>4 DEF Offers
  <1> QED BY <1>2, <1>3, <1>4 DEF Offers

NoMoreOffers ==
  \A n \in Node : n \in Joining' =>
    \A o \in (Offers(n))' : o.mask # 0 => n \in Joining /\ o \in Offers(n)

\* Steps after which nobody has, is offered or is confirmed more than before.
LEMMA QuietSpaces ==
  ASSUME Spaces,
         \A k \in Node : pc'[k] = "up" =>
           pc[k] = "up" /\ red_numero'[k] = red_numero[k] /\ SameSpaces(k),
         \A k \in Node : SameSpaces(k) \/ (rcvd_addr'[k] = <<>> /\ rcvd_offered'[k] = NoAddr),
         NoMoreOffers,
         \A n \in Node, m \in msgs' :
           pc'[n] = "panc" /\ m.type = "PANC" /\ m.dst = n /\ m.owner = chosen'[n].owner =>
             /\ pc[n] = "panc" /\ chosen'[n] = chosen[n] /\ red_numero'[n] = red_numero[n]
             /\ m \in msgs
  PROVE  Spaces'
  <1>1. ASSUME NEW k \in Node, pc'[k] = "up"
        PROVE  /\ pc[k] = "up" /\ red_numero'[k] = red_numero[k]
               /\ prim_addr'[k] = prim_addr[k] /\ (Held(k))' = Held(k)
               /\ \A o : Stands(k, o) => (Stands(k, o))'
    BY <1>1, SameHeld DEF SameSpaces
  <1>2. OwnSpaces'
    <2> SUFFICES ASSUME NEW k \in Node PROVE (OwnSpace1(k))'
      BY DEF OwnSpaces
    <2>1. CASE SameSpaces(k)
      BY <2>1, SameHeld DEF Spaces, OwnSpaces
    <2>2. CASE rcvd_addr'[k] = <<>> /\ rcvd_offered'[k] = NoAddr
      BY <2>2, NoAddrAssumption DEF OwnSpace1, Own, Space
    <2> QED BY <2>1, <2>2
  <1>3. NobodyGains
    BY <1>1 DEF NobodyGains
  <1>4. HeldApart'
    BY <1>3, StillApart DEF Spaces
  <1>5. GoodOffers'
    <2> SUFFICES ASSUME NEW n \in Joining', NEW o \in (Offers(n))', o.mask # 0
                 PROVE  (GoodOffer(o))'
      BY DEF GoodOffers
    <2>1. n \in Joining /\ o \in Offers(n)
      BY DEF Joining, NoMoreOffers
    <2>2. GoodOffer(o)
      BY <2>1 DEF Spaces, GoodOffers
    <2> QED BY <1>1, <1>3, <2>2, StillGood
  <1>6. ConfirmedIsFree'
    <2> SUFFICES ASSUME NEW n \in Node, NEW m \in msgs', pc'[n] = "panc",
                        m.type = "PANC", m.dst = n, m.owner = chosen'[n].owner,
                        NEW k \in Up', red_numero'[k] = red_numero'[n]
                 PROVE  (Held(k))' \cap Space(chosen'[n].addr, chosen'[n].mask) = {}
      BY DEF ConfirmedIsFree
    <2>1. /\ pc[n] = "panc" /\ chosen'[n] = chosen[n] /\ red_numero'[n] = red_numero[n]
          /\ m \in msgs
      OBVIOUS
    <2>2. k \in Up /\ red_numero'[k] = red_numero[k] /\ (Held(k))' = Held(k)
      BY <1>1 DEF Up
    <2> QED BY <2>1, <2>2 DEF Spaces, ConfirmedIsFree
  <1> QED BY <1>2, <1>4, <1>5, <1>6 DEF Spaces

LEMMA IdleEffect ==
  ASSUME IInv, IdleStep
  PROVE  /\ prim_addr' = prim_addr /\ prim_mask' = prim_mask
         /\ prim_mask_inicial' = prim_mask_inicial
         /\ rcvd_addr' = rcvd_addr /\ rcvd_offered' = rcvd_offered /\ v_pap' = v_pap
         /\ \A k \in Node : pc'[k] = pc[k] \/ (pc[k] = "panc" /\ pc'[k] = "paps")
         /\ \A k \in Node : pc[k] = "up" => red_numero'[k] = red_numero[k]
         /\ \A k \in Node : pc'[k] = "panc" => /\ pc[k] = "panc" /\ chosen'[k] = chosen[k]
                                              /\ red_numero'[k] = red_numero[k]
         /\ \A k \in Node : chosen'[k] = chosen[k] \/ chosen'[k] = NoPap
         /\ \A m \in msgs' : m \in msgs \/ (m.type = "PAR" /\ \E n \in Node : m \in Par(n))
         /\ NoMoreOffers
  <1>1. /\ prim_addr' = prim_addr /\ prim_mask' = prim_mask
        /\ prim_mask_inicial' = prim_mask_inicial
        /\ rcvd_addr' = rcvd_addr /\ rcvd_offered' = rcvd_offered /\ v_pap' = v_pap
        /\ \A k \in Node : pc'[k] = pc[k] \/ (pc[k] = "panc" /\ pc'[k] = "paps")
        /\ \A k \in Node : pc[k] = "up" => red_numero'[k] = red_numero[k]
        /\ \A k \in Node : pc'[k] = "panc" => /\ pc[k] = "panc" /\ chosen'[k] = chosen[k]
                                             /\ red_numero'[k] = red_numero[k]
        /\ \A k \in Node : chosen'[k] = chosen[k] \/ chosen'[k] = NoPap
        /\ \A m \in msgs' : m \in msgs \/ (m.type = "PAR" /\ \E n \in Node : m \in Par(n))
    <2>1. prim_mask' = prim_mask /\ rcvd_addr' = rcvd_addr /\ rcvd_offered' = rcvd_offered
      BY DEF IdleStep, spaceVars
    <2>2. PICK flight \in SUBSET msgs :
            \/ \E n \in Node, reds \in SUBSET Red : NotAwaited(n, flight, reds)
            \/ \E n \in Node : pc[n] = "panc" /\ Restart(n, flight)
            \/ msgs' = flight /\ UNCHANGED joinVars
      BY DEF IdleStep
    <2>3. \/ \E n \in Node : pc[n] = "panc" /\ Restart(n, flight)
          \/ msgs' = flight /\ UNCHANGED joinVars
          \/ \E n \in Node : /\ pc[n] = "paps" /\ msgs' = flight
                           /\ \E r \in Red : red_numero' = [red_numero EXCEPT ![n] = r]
                           /\ UNCHANGED <<pc, prim_addr, prim_mask_inicial, v_pap, chosen>>
      BY <2>2 DEF NotAwaited
    <2>4. CASE \E n \in Node : pc[n] = "panc" /\ Restart(n, flight)
      <3>1. PICK n \in Node : pc[n] = "panc" /\ Restart(n, flight)
        BY <2>4
      <3>2. \A m \in Par(n) : m.type = "PAR"
        BY DEF Par
      <3> QED BY <2>1, <3>1, <3>2 DEF Restart, IInv, JoinOK
    <2>5. CASE msgs' = flight /\ UNCHANGED joinVars
      BY <2>1, <2>5 DEF joinVars
    <2>6. CASE \E n \in Node : /\ pc[n] = "paps" /\ msgs' = flight
                            /\ \E r \in Red : red_numero' = [red_numero EXCEPT ![n] = r]
                            /\ UNCHANGED <<pc, prim_addr, prim_mask_inicial, v_pap, chosen>>
      BY <2>1, <2>6 DEF IInv, JoinOK
    <2> QED BY <2>3, <2>4, <2>5, <2>6
  <1>2. ASSUME NEW n \in Node, n \in Joining', NEW o \in (Offers(n))', o.mask # 0
        PROVE  n \in Joining /\ o \in Offers(n)
    <2>1. n \in Joining
      <3>1. pc'[n] \in {"paps", "panc"}
        BY <1>2 DEF Joining
      <3> QED BY <1>1, <3>1 DEF Joining
    <2>2. \A m \in msgs' : m.type = "PAP" => m \in msgs
      BY <1>1
    <2>3. v_pap'[n] = v_pap[n] /\ (chosen'[n] = chosen[n] \/ chosen'[n] = NoPap)
      BY <1>1
    <2> QED BY <1>2, <2>1, <2>2, <2>3, SameOffers
  <1> QED BY <1>1, <1>2 DEF NoMoreOffers

LEMMA IdleSpaces ==
  ASSUME IInv, Control, Spaces, IdleStep
  PROVE  Spaces'
  <1>1. \A k \in Node : SameSpaces(k)
    BY IdleEffect DEF SameSpaces
  <1>2. \A n \in Node, m \in msgs' :
          pc'[n] = "panc" /\ m.type = "PANC" /\ m.dst = n /\ m.owner = chosen'[n].owner =>
            /\ pc[n] = "panc" /\ chosen'[n] = chosen[n] /\ red_numero'[n] = red_numero[n]
            /\ m \in msgs
    BY IdleEffect
  <1>3. \A k \in Node : pc'[k] = "up" =>
          pc[k] = "up" /\ red_numero'[k] = red_numero[k] /\ SameSpaces(k)
    BY <1>1, IdleEffect
  <1> QED BY <1>1, <1>2, <1>3, IdleEffect, QuietSpaces

\* A new process, or the memory of one that stopped.
LEMMA FreshFacts ==
  ASSUME IInv, NEW n \in Node, Fresh(n)
  PROVE  /\ \A k \in Node \ {n} : SameSpaces(k) /\ red_numero'[k] = red_numero[k]
         /\ rcvd_addr'[n] = <<>> /\ rcvd_offered'[n] = NoAddr
         /\ v_pap'[n] = <<>> /\ chosen'[n] = NoPap
         /\ \A k \in Node \ {n} : v_pap'[k] = v_pap[k] /\ chosen'[k] = chosen[k]
  BY DEF Fresh, SameSpaces, IInv, JoinOK, SpaceOK

LEMMA BootSpaces ==
  ASSUME OneByOne, IInv, Control, Spaces, NEW n \in Node, Boot(n)
  PROVE  Spaces'
  <1>1. /\ pc'[n] = "paps" /\ \A k \in Node \ {n} : pc'[k] = pc[k]
        /\ msgs = {} /\ msgs' = Par(n) /\ Fresh(n)
    BY DEF Boot, OneByOne, IInv, JoinOK
  <1>2. \A m \in msgs' : m.type = "PAR"
    BY <1>1 DEF Par
  <1>3. Joining = {}
    BY BootControl
  <1>4. \A k \in Node : k \in Joining' => k = n
    BY <1>1, <1>3 DEF Joining
  <1>5. \A o \in (Offers(n))' : o.mask = 0
    <2>1. \A o \in (Offers(n))' : o = NoPap
      BY <1>1, <1>2, FreshFacts DEF Offers
    <2> QED BY <2>1 DEF NoPap
  <1>6. \A k \in Node : pc'[k] = "up" =>
          pc[k] = "up" /\ red_numero'[k] = red_numero[k] /\ SameSpaces(k)
    BY <1>1, FreshFacts
  <1>7. \A k \in Node : SameSpaces(k) \/ (rcvd_addr'[k] = <<>> /\ rcvd_offered'[k] = NoAddr)
    BY <1>1, FreshFacts
  <1>8. NoMoreOffers
    BY <1>4, <1>5 DEF NoMoreOffers
  <1>9. \A k \in Node, m \in msgs' :
          pc'[k] = "panc" /\ m.type = "PANC" /\ m.dst = k /\ m.owner = chosen'[k].owner =>
            /\ pc[k] = "panc" /\ chosen'[k] = chosen[k] /\ red_numero'[k] = red_numero[k]
            /\ m \in msgs
    BY <1>2
  <1> QED BY <1>6, <1>7, <1>8, <1>9, QuietSpaces

LEMMA CrashSpaces ==
  ASSUME IInv, Spaces, NEW n \in Node, Crash(n)
  PROVE  Spaces'
  <1>1. /\ pc'[n] = "off" /\ \A k \in Node \ {n} : pc'[k] = pc[k]
        /\ msgs' \subseteq msgs /\ Fresh(n)
    BY DEF Crash, IInv, JoinOK
  <1>2. \A k \in Node : k \in Joining' => k \in Joining /\ k # n
    BY <1>1 DEF Joining
  <1>3. \A k \in Node : pc'[k] = "up" =>
          pc[k] = "up" /\ red_numero'[k] = red_numero[k] /\ SameSpaces(k)
    BY <1>1, FreshFacts
  <1>4. \A k \in Node : SameSpaces(k) \/ (rcvd_addr'[k] = <<>> /\ rcvd_offered'[k] = NoAddr)
    BY <1>1, FreshFacts
  <1>5. ASSUME NEW k \in Node, k \in Joining', NEW o \in (Offers(k))', o.mask # 0
        PROVE  k \in Joining /\ o \in Offers(k)
    <2>1. v_pap'[k] = v_pap[k] /\ chosen'[k] = chosen[k]
      BY <1>1, <1>2, <1>5, FreshFacts
    <2>2. \A m \in msgs' : m.type = "PAP" => m \in msgs
      BY <1>1
    <2> QED BY <1>2, <1>5, <2>1, <2>2, SameOffers
  <1>6. \A k \in Node, m \in msgs' :
          pc'[k] = "panc" /\ m.type = "PANC" /\ m.dst = k /\ m.owner = chosen'[k].owner =>
            /\ pc[k] = "panc" /\ chosen'[k] = chosen[k] /\ red_numero'[k] = red_numero[k]
            /\ m \in msgs
    BY <1>1, FreshFacts
  <1>7. NoMoreOffers
    BY <1>5 DEF NoMoreOffers
  <1> QED BY <1>3, <1>4, <1>6, <1>7, QuietSpaces

LEMMA SendPanOffers ==
  ASSUME OneByOne, IInv, Control, NEW n \in Node, SendPan(n)
  PROVE  NoMoreOffers
  <1>1. /\ pc' = [pc EXCEPT ![n] = "panc"] /\ v_pap' = [v_pap EXCEPT ![n] = <<>>]
    BY DEF SendPan
  <1>2. \A k \in Joining : k = n
    BY SendPanFacts DEF Control, OneJoiner
  <1>3. \A k \in Node : k \in Joining' => k = n
    BY <1>1, <1>2 DEF Joining, IInv, JoinOK
  <1>4. \A o \in (Offers(n))' : n \in Joining /\ o \in Offers(n)
    <2>1. \A m \in msgs' : m.type = "PAN"
      BY SendPanFacts
    <2>2. v_pap'[n] = <<>>
      BY <1>1 DEF IInv, JoinOK
    <2>3. \A o \in (Offers(n))' : o = chosen'[n]
      BY <2>1, <2>2 DEF Offers
    <2>4. chosen'[n] \in Offers(n)
      <3>1. v_pap[n] \in Seq(Pap)
        BY DEF IInv, JoinOK
      <3> QED BY <3>1, SendPanFacts DEF Offers
    <2> QED BY <2>3, <2>4, SendPanFacts
  <1> QED BY <1>3, <1>4 DEF NoMoreOffers

LEMMA SendPanSpaces ==
  ASSUME OneByOne, IInv, Control, Spaces, NEW n \in Node, SendPan(n)
  PROVE  Spaces'
  <1>1. /\ pc' = [pc EXCEPT ![n] = "panc"] /\ prim_addr' = prim_addr
        /\ prim_mask' = prim_mask /\ rcvd_addr' = rcvd_addr /\ rcvd_offered' = rcvd_offered
        /\ red_numero' = [red_numero EXCEPT ![n] = Best(v_pap[n]).red]
    BY DEF SendPan, spaceVars
  <1>2. \A k \in Node : SameSpaces(k)
    BY <1>1 DEF SameSpaces
  <1>3. \A k \in Node : pc'[k] = "up" =>
          pc[k] = "up" /\ red_numero'[k] = red_numero[k] /\ SameSpaces(k)
    BY <1>1, <1>2 DEF IInv, JoinOK
  <1>4. NoMoreOffers
    BY SendPanOffers
  <1>5. \A k \in Node, m \in msgs' :
          pc'[k] = "panc" /\ m.type = "PANC" /\ m.dst = k /\ m.owner = chosen'[k].owner =>
            /\ pc[k] = "panc" /\ chosen'[k] = chosen[k] /\ red_numero'[k] = red_numero[k]
            /\ m \in msgs
    <2>1. \A m \in msgs' : m.type = "PAN"
      BY SendPanFacts
    <2> QED BY <2>1
  <1>6. \A k \in Node : SameSpaces(k) \/ (rcvd_addr'[k] = <<>> /\ rcvd_offered'[k] = NoAddr)
    BY <1>2
  <1> QED BY <1>3, <1>4, <1>5, <1>6, QuietSpaces

LEMMA ReceiveOfferOffers ==
  ASSUME IInv, Control, NEW n \in Node, NEW m \in msgs, ReceiveOffer(n, m)
  PROVE  NoMoreOffers
  <1>1. /\ pc[n] = "paps" /\ m.type = "PAP" /\ m.dst = n
        /\ v_pap[n] \in Seq(Pap) /\ m.pap \in Pap
    BY MessageFields DEF ReceiveOffer, Reads, IInv, JoinOK, FlightOK
  <1>2. /\ v_pap'[n] = Append(v_pap[n], m.pap)
        /\ \A k \in Node \ {n} : v_pap'[k] = v_pap[k] /\ red_numero'[k] = red_numero[k]
        /\ pc' = pc /\ chosen' = chosen /\ rcvd_addr' = rcvd_addr /\ prim_addr' = prim_addr
        /\ rcvd_offered' = rcvd_offered /\ prim_mask' = prim_mask /\ msgs' = msgs \ {m}
    BY DEF ReceiveOffer, IInv, JoinOK, spaceVars
  <1>3. \A k \in Joining : k = n
    BY <1>1 DEF Control, OneJoiner, Joining
  <1>4. \A o \in (Offers(n))' : o \in Offers(n)
    <2> SUFFICES ASSUME NEW o \in (Offers(n))' PROVE o \in Offers(n)
      OBVIOUS
    <2>1. CASE o \in {k.pap : k \in {x \in msgs' : x.type = "PAP" /\ x.dst = n}}
      BY <1>2, <2>1 DEF Offers
    <2>2. CASE \E i \in 1 .. Len(v_pap'[n]) : o = v_pap'[n][i]
      <3>1. PICK i \in 1 .. Len(v_pap'[n]) : o = v_pap'[n][i]
        BY <2>2
      <3>2. \/ o = m.pap
            \/ i \in 1 .. Len(v_pap[n]) /\ o = v_pap[n][i]
        BY <1>1, <1>2, <3>1
      <3> QED BY <1>1, <3>2 DEF Offers
    <2>3. CASE o = chosen'[n]
      BY <1>2, <2>3 DEF Offers
    <2>4. Append(v_pap[n], m.pap) \in Seq(Pap)
      BY <1>1
    <2> QED BY <1>2, <2>1, <2>2, <2>3, <2>4 DEF Offers
  <1> QED BY <1>1, <1>2, <1>3, <1>4 DEF Joining, NoMoreOffers

LEMMA ReceiveOfferSpaces ==
  ASSUME IInv, Control, Spaces, NEW n \in Node, NEW m \in msgs, ReceiveOffer(n, m)
  PROVE  Spaces'
  <1>1. /\ pc[n] = "paps" /\ m.type = "PAP" /\ m.dst = n
        /\ v_pap[n] \in Seq(Pap) /\ m.pap \in Pap
    BY MessageFields DEF ReceiveOffer, Reads, IInv, JoinOK, FlightOK
  <1>2. /\ v_pap'[n] = Append(v_pap[n], m.pap)
        /\ \A k \in Node \ {n} : v_pap'[k] = v_pap[k] /\ red_numero'[k] = red_numero[k]
        /\ pc' = pc /\ chosen' = chosen /\ rcvd_addr' = rcvd_addr /\ prim_addr' = prim_addr
        /\ rcvd_offered' = rcvd_offered /\ prim_mask' = prim_mask /\ msgs' = msgs \ {m}
    BY DEF ReceiveOffer, IInv, JoinOK, spaceVars
  <1>3. \A k \in Node : SameSpaces(k)
    BY <1>2 DEF SameSpaces
  <1>4. \A k \in Node : pc'[k] = "up" =>
          pc[k] = "up" /\ red_numero'[k] = red_numero[k] /\ SameSpaces(k)
    BY <1>1, <1>2, <1>3
  <1>5. NoMoreOffers
    BY ReceiveOfferOffers
  <1>6. \A k \in Node, x \in msgs' :
          pc'[k] = "panc" /\ x.type = "PANC" /\ x.dst = k /\ x.owner = chosen'[k].owner =>
            /\ pc[k] = "panc" /\ chosen'[k] = chosen[k] /\ red_numero'[k] = red_numero[k]
            /\ x \in msgs
    BY <1>1, <1>2
  <1>7. \A k \in Node : SameSpaces(k) \/ (rcvd_addr'[k] = <<>> /\ rcvd_offered'[k] = NoAddr)
    BY <1>3
  <1> QED BY <1>4, <1>5, <1>6, <1>7, QuietSpaces

\* n comes up with a space that nobody has, and nobody joins any more.
LEMMA TakeSpaces ==
  ASSUME Spaces, NEW n \in Node, pc'[n] = "up",
         rcvd_addr'[n] = <<>>, rcvd_offered'[n] = NoAddr,
         \A k \in Node \ {n} : SameSpaces(k) /\ pc'[k] = pc[k] /\ red_numero'[k] = red_numero[k],
         \A k \in Up \ {n} : red_numero[k] = red_numero'[n] => Held(k) \cap (Held(n))' = {},
         \A k \in Node : pc'[k] \notin {"paps", "panc"}
  PROVE  Spaces'
  <1>1. OwnSpaces'
    <2> SUFFICES ASSUME NEW k \in Node PROVE (OwnSpace1(k))'
      BY DEF OwnSpaces
    <2>1. CASE k # n
      BY <2>1, SameHeld DEF Spaces, OwnSpaces
    <2>2. CASE k = n
      BY <2>2, NoAddrAssumption DEF OwnSpace1, Own, Space
    <2> QED BY <2>1, <2>2
  <1>2. \A k \in Node \ {n} : (Held(k))' = Held(k)
    BY SameHeld
  <1>3. HeldApart'
    BY <1>2 DEF Spaces, HeldApart, Up
  <1>4. GoodOffers' /\ ConfirmedIsFree'
    BY DEF GoodOffers, ConfirmedIsFree, Joining
  <1> QED BY <1>1, <1>3, <1>4 DEF Spaces

LEMMA FoundSpaces ==
  ASSUME OneByOne, IInv, Control, Spaces, NewNetworkIsNew, NEW n \in Node, Found(n)
  PROVE  Spaces'
  <1>1. pc[n] = "paps" /\ Collected(n) /\ MayFound(n) /\ v_pap[n] = <<>>
    BY DEF Found, Collected
  <1>2. /\ pc'[n] = "up" /\ red_numero'[n] = Mac[n]
        /\ rcvd_addr'[n] = <<>> /\ rcvd_offered'[n] = NoAddr
        /\ \A k \in Node \ {n} : SameSpaces(k) /\ pc'[k] = pc[k] /\ red_numero'[k] = red_numero[k]
    BY <1>1 DEF Found, SameSpaces, IInv, JoinOK, SpaceOK, Control, WhileWaiting
  <1>3. \A k \in Up : red_numero[k] # Mac[n]
    BY <1>1 DEF NewNetworkIsNew
  <1>4. \A k \in Node : pc'[k] \notin {"paps", "panc"}
    BY <1>1, <1>2 DEF Control, OneJoiner, Joining
  <1> QED BY <1>2, <1>3, <1>4, TakeSpaces

LEMMA ResetAloneSpaces ==
  ASSUME IInv, Spaces, NewNetworkIsNew, NEW n \in Node, ResetAlone(n)
  PROVE  Spaces'
  <1>1. pc[n] = "up" /\ n \in Up /\ Alone(n) /\ Leaf(n) /\ MayFound(n)
    BY DEF ResetAlone, Up
  <1>2. /\ \A k \in Up \ {n} : red_numero[k] # Mac[n]
        /\ Joining = {} /\ rcvd_offered[n] = NoAddr
    BY <1>1 DEF NewNetworkIsNew
  <1>3. /\ pc' = pc /\ red_numero'[n] = Mac[n]
        /\ rcvd_addr'[n] = <<>> /\ rcvd_offered'[n] = NoAddr
        /\ \A k \in Node \ {n} : SameSpaces(k) /\ red_numero'[k] = red_numero[k]
    BY <1>2 DEF ResetAlone, SameSpaces, IInv, JoinOK, SpaceOK
  <1>4. \A k \in Node : pc'[k] \notin {"paps", "panc"}
    BY <1>2, <1>3 DEF Joining
  <1> QED BY <1>1, <1>2, <1>3, <1>4, TakeSpaces

LEMMA ReceivePancSpaces ==
  ASSUME IInv, Control, Spaces, NEW n \in Node, NEW m \in msgs, ReceivePanc(n, m)
  PROVE  Spaces'
  <1>1. pc[n] = "panc" /\ m.type = "PANC" /\ m.dst = n /\ m.owner = chosen[n].owner
    BY DEF ReceivePanc, Reads
  <1>2. /\ pc'[n] = "up" /\ red_numero' = red_numero
        /\ rcvd_addr'[n] = <<>> /\ rcvd_offered'[n] = NoAddr
        /\ prim_addr'[n] = chosen[n].addr /\ prim_mask'[n] = chosen[n].mask
        /\ \A k \in Node \ {n} : SameSpaces(k) /\ pc'[k] = pc[k]
    BY <1>1 DEF ReceivePanc, SameSpaces, IInv, JoinOK, SpaceOK, Control, WhileWaiting
  <1>3. (Held(n))' = Space(chosen[n].addr, chosen[n].mask)
    BY <1>2 DEF Held
  <1>4. \A k \in Up : red_numero[k] = red_numero[n] => Held(k) \cap (Held(n))' = {}
    BY <1>1, <1>3 DEF Spaces, ConfirmedIsFree
  <1>5. \A k \in Node : pc'[k] \notin {"paps", "panc"}
    BY <1>1, <1>2 DEF Control, OneJoiner, Joining
  <1> QED BY <1>2, <1>4, <1>5, TakeSpaces

\* The offers of a node that runs are for a part of what it has.
LEMMA OfferIsMine ==
  ASSUME IInv, Spaces, NEW p \in Up, Offer(p).mask # 0
  PROVE  /\ Offer(p).addr \in Addr /\ Space(Offer(p).addr, Offer(p).mask) \subseteq Held(p)
         /\ IF OffersRecovered(p)
              THEN \E i \in 1 .. Len(rcvd_addr[p]) : /\ rcvd_addr[p][i].addr = Offer(p).addr
                                                   /\ rcvd_addr[p][i].mask = Offer(p).mask
              ELSE IsHalf(p, Offer(p))
  <1>1. /\ p \in Node /\ rcvd_addr[p] \in Seq(Recovered) /\ prim_mask[p] \in Nat
        /\ prim_addr[p] \in Addr
    BY DEF Up, IInv, SpaceOK, JoinOK, Mask
  <1>2. Offer(p).addr \in Addr
    BY <1>1, OfferType
  <1>3. CASE OffersRecovered(p)
    <2> DEFINE i == Len(rcvd_addr[p])
    <2>1. Offer(p) = rcvd_addr[p][i] /\ i \in 1 .. Len(rcvd_addr[p])
      BY <1>1, <1>3 DEF Offer, OffersRecovered
    <2>2. Space(Offer(p).addr, Offer(p).mask) = Rcvd(p, i)
      BY <2>1 DEF Rcvd
    <2> HIDE DEF i
    <2> QED BY <1>1, <1>2, <1>3, <2>1, <2>2, Holds
  <1>4. CASE ~OffersRecovered(p)
    <2>1. /\ prim_mask[p] < Dim
          /\ Offer(p) = [addr |-> Flip(prim_addr[p], prim_mask[p]), mask |-> prim_mask[p] + 1]
      BY <1>1, <1>4, DimAssumption DEF Offer
    <2>2. prim_mask[p] \in Bits
      BY <1>1, <2>1, DimAssumption DEF Bits
    <2>3. Space(Offer(p).addr, Offer(p).mask) \subseteq Own(p)
      BY <1>1, <2>1, <2>2, SpaceSplit DEF Own
    <2>4. Offer(p).addr \in Space(Offer(p).addr, Offer(p).mask)
      BY <1>1, <1>2, <2>1, OwnSpace
    <2>5. rcvd_offered[p] # Offer(p).addr
      BY <1>1, <2>3, <2>4 DEF Spaces, OwnSpaces, OwnSpace1
    <2> QED BY <1>1, <1>2, <1>4, <2>1, <2>3, <2>5, Holds DEF IsHalf
  <1> QED BY <1>3, <1>4

LEMMA OfferIsPap ==
  ASSUME IInv, NEW n \in Joining, NEW o \in Offers(n)
  PROVE  o \in Pap
  <1>1. n \in Node /\ v_pap[n] \in Seq(Pap) /\ chosen[n] \in Pap
    BY DEF Joining, IInv, JoinOK
  <1>2. CASE o \in {m.pap : m \in {k \in msgs : k.type = "PAP" /\ k.dst = n}}
    BY <1>2, MessageFields DEF IInv, FlightOK
  <1>3. CASE o \in {v_pap[n][i] : i \in DOMAIN v_pap[n]}
    BY <1>1, <1>3
  <1>4. CASE o = chosen[n]
    BY <1>1, <1>4
  <1> QED BY <1>2, <1>3, <1>4 DEF Offers

\* What is on offer, in flight, collected or chosen, has an address.
LEMMA OfferHasAddress ==
  ASSUME IInv, Control, NEW n \in Joining, NEW o \in Offers(n), o.mask # 0
  PROVE  o.addr \in Addr
  <1>1. n \in Node /\ v_pap[n] \in Seq(Pap) /\ NoPap.mask = 0
    BY DEF Joining, IInv, JoinOK, NoPap
  <1>2. CASE o \in {m.pap : m \in {k \in msgs : k.type = "PAP" /\ k.dst = n}}
    BY <1>2 DEF IInv, FlightOK
  <1>3. CASE o \in {v_pap[n][i] : i \in DOMAIN v_pap[n]}
    BY <1>1, <1>3 DEF IInv, JoinOK
  <1>4. CASE o = chosen[n]
    BY <1>1, <1>4 DEF Control, WhileWaiting, IInv, JoinOK
  <1> QED BY <1>2, <1>3, <1>4 DEF Offers

LEMMA ReceiveParSpaces ==
  ASSUME IInv, Control, Spaces, NEW n \in Node, NEW m \in msgs, ReceivePar(n, m)
  PROVE  Spaces'
  <1>1. /\ n \in Up /\ pc' = pc /\ prim_addr' = prim_addr /\ red_numero' = red_numero
        /\ v_pap' = v_pap /\ chosen' = chosen /\ prim_mask' = prim_mask
        /\ rcvd_addr' = rcvd_addr
    BY ReceiveParFacts DEF joinVars, Up
  <1>2. /\ rcvd_offered'[n] = IF OffersRecovered(n) THEN Offer(n).addr ELSE rcvd_offered[n]
        /\ \A k \in Node \ {n} : SameSpaces(k)
    BY <1>1, ReceiveParFacts DEF IInv, SpaceOK, SameSpaces
  <1>3. \A k \in Node : (Held(k))' = Held(k)
    BY <1>1 DEF Held
  <1>4. \A k \in Node \ {n} : \A o : Stands(k, o) => (Stands(k, o))'
    BY <1>2, SameHeld
  <1>5. rcvd_addr[n] \in Seq(Recovered) /\ prim_addr[n] \in Addr /\ prim_mask[n] \in Nat
    BY DEF IInv, SpaceOK, JoinOK, Mask
  <1>6. OffersRecovered(n) =>
          /\ rcvd_offered[n] = NoAddr /\ Offer(n).addr \in Addr /\ Offer(n).addr \notin Own(n)
    <2> SUFFICES ASSUME OffersRecovered(n)
                 PROVE  /\ rcvd_offered[n] = NoAddr
                        /\ Offer(n).addr \in Addr /\ Offer(n).addr \notin Own(n)
      OBVIOUS
    <2> DEFINE i == Len(rcvd_addr[n])
    <2>1. Offer(n) = rcvd_addr[n][i] /\ i \in 1 .. Len(rcvd_addr[n])
      BY <1>5 DEF Offer, OffersRecovered
    <2>2. Offer(n).addr \in Addr /\ Offer(n).mask \in Nat
      BY OfferType DEF Mask
    <2>3. Offer(n).addr \in Rcvd(n, i)
      BY <2>1, <2>2, OwnSpace DEF Rcvd
    <2> HIDE DEF i
    <2> QED BY <2>1, <2>2, <2>3 DEF OffersRecovered, Spaces, OwnSpaces, OwnSpace1
  <1>7. (Own(n))' = Own(n) /\ \A i : (Rcvd(n, i))' = Rcvd(n, i)
    BY <1>1 DEF Own, Rcvd
  <1>8. OwnSpaces'
    <2> SUFFICES ASSUME NEW k \in Node PROVE (OwnSpace1(k))'
      BY DEF OwnSpaces
    <2>1. CASE k # n
      BY <1>2, <2>1, SameHeld DEF Spaces, OwnSpaces
    <2>2. CASE k = n
      <3>1. OwnSpace1(n)
        BY DEF Spaces, OwnSpaces
      <3> QED BY <1>1, <1>2, <1>6, <1>7, <2>2, <3>1 DEF OwnSpace1
    <2> QED BY <2>1, <2>2
  <1>9. HeldApart'
    BY <1>1, <1>3 DEF Spaces, HeldApart, Up
  <1>10. ASSUME NEW o, o.addr \in Addr, Stands(n, o) PROVE (Stands(n, o))'
    <2>1. CASE ~OffersRecovered(n)
      BY <1>1, <1>2, <1>3, <1>10, <2>1 DEF Stands, InList, IsHalf
    <2>2. CASE OffersRecovered(n)
      <3>1. ~InList(n, o)
        BY <1>6, <1>10, <2>2, NoAddrAssumption DEF InList
      <3>2. IsHalf(n, o) => (IsHalf(n, o))'
        <4> SUFFICES ASSUME IsHalf(n, o) PROVE (IsHalf(n, o))'
          OBVIOUS
        <4>1. prim_mask[n] \in Bits /\ o.addr = Flip(prim_addr[n], prim_mask[n])
          BY <1>5, DimAssumption DEF IsHalf, Bits
        <4>2. o.addr \in Space(o.addr, prim_mask[n] + 1)
          BY <1>5, <1>10, OwnSpace
        <4>3. o.addr \in Own(n)
          BY <1>5, <4>1, <4>2, SpaceSplit DEF Own
        <4>4. rcvd_offered'[n] # o.addr
          BY <1>2, <1>6, <2>2, <4>3
        <4> QED BY <1>1, <4>4 DEF IsHalf
      <3>3. (Held(n))' = Held(n)
        BY <1>3
      <3>4. CASE IsHalf(n, o)
        BY <3>2, <3>4 DEF Stands
      <3>5. CASE Space(o.addr, o.mask) \cap Held(n) = {}
        BY <3>3, <3>5 DEF Stands
      <3> QED BY <1>10, <3>1, <3>4, <3>5 DEF Stands
    <2> QED BY <2>1, <2>2
  <1>11. ASSUME NEW o, o.addr \in Addr, GoodOffer(o) PROVE (GoodOffer(o))'
    <2>1. NobodyGains
      BY <1>1, <1>3 DEF NobodyGains
    <2>2. \A p \in Node : pc'[p] = "up" /\ Stands(p, o) => (Stands(p, o))'
      BY <1>4, <1>10, <1>11
    <2> QED BY <1>11, <2>1, <2>2, StillGood
  <1>12. ASSUME NEW o, o = PapOf(n), o.mask # 0 PROVE (GoodOffer(o))'
    <2>1. /\ o.addr = Offer(n).addr /\ o.mask = Offer(n).mask /\ o.owner = prim_addr[n]
          /\ o.red = red_numero[n]
      BY <1>12 DEF PapOf
    <2>2. Space(o.addr, o.mask) \subseteq Held(n)
      BY <1>1, <1>12, <2>1, OfferIsMine
    <2>3. (Stands(n, o))'
      <3>1. CASE OffersRecovered(n)
        <4>1. \E i \in 1 .. Len(rcvd_addr[n]) : /\ rcvd_addr[n][i].addr = o.addr
                                              /\ rcvd_addr[n][i].mask = o.mask
          BY <1>1, <1>12, <2>1, <3>1, OfferIsMine
        <4>2. rcvd_offered'[n] = o.addr
          BY <1>2, <2>1, <3>1
        <4> QED BY <1>1, <4>1, <4>2 DEF Stands, InList
      <3>2. CASE ~OffersRecovered(n)
        <4>1. IsHalf(n, Offer(n))
          BY <1>1, <1>12, <2>1, <3>2, OfferIsMine
        <4>2. rcvd_offered'[n] = rcvd_offered[n]
          BY <1>2, <3>2
        <4> QED BY <1>1, <2>1, <4>1, <4>2 DEF Stands, IsHalf
      <3> QED BY <3>1, <3>2
    <2>4. ASSUME NEW p \in Up, red_numero[p] = o.red, prim_addr[p] = o.owner PROVE p = n
      <3>1. prim_addr[p] \in Own(p) /\ prim_addr[n] \in Own(n)
        BY OwnSpace DEF Own, Up, IInv, JoinOK, SpaceOK, Mask
      <3>2. rcvd_addr[p] \in Seq(Recovered)
        BY DEF Up, IInv, SpaceOK
      <3>3. prim_addr[p] \in Held(p) /\ prim_addr[p] \in Held(n)
        BY <1>5, <2>1, <2>4, <3>1, <3>2, Holds DEF Up
      <3> QED BY <1>1, <2>1, <2>4, <3>3 DEF Spaces, HeldApart
    <2>5. \A k \in Up \ {n} : red_numero[k] = o.red => Held(k) \cap Space(o.addr, o.mask) = {}
      BY <1>1, <2>1, <2>2 DEF Spaces, HeldApart
    <2>6. Up' = Up /\ \A k \in Up : (Held(k))' = Held(k)
      BY <1>1, <1>3 DEF Up
    <2> QED BY <1>1, <2>3, <2>4, <2>5, <2>6 DEF GoodOffer
  <1>13. GoodOffers'
    <2> SUFFICES ASSUME NEW k \in Joining', NEW o \in (Offers(k))', o.mask # 0
                 PROVE  (GoodOffer(o))'
      BY DEF GoodOffers
    <2>1. k \in Joining
      BY <1>1 DEF Joining
    <2>2. CASE o \in Offers(k)
      <3>1. o.addr \in Addr
        BY <2>1, <2>2, OfferHasAddress
      <3>2. GoodOffer(o)
        BY <2>1, <2>2 DEF Spaces, GoodOffers
      <3> QED BY <1>11, <3>1, <3>2
    <2>3. CASE o \notin Offers(k)
      <3>1. \A x \in msgs' : x \in msgs \/ (x.type = "PAP" => x.pap = PapOf(n))
        BY ReceiveParFacts
      <3>2. o = PapOf(n)
        BY <1>1, <2>3, <3>1 DEF Offers
      <3> QED BY <1>12, <3>2
    <2> QED BY <2>2, <2>3
  <1>14. ConfirmedIsFree'
    <2>1. NobodyGains
      BY <1>1, <1>3 DEF NobodyGains
    <2>2. \A x \in msgs' : x.type = "PANC" => x \in msgs
      BY ReceiveParFacts
    <2> QED BY <1>1, <2>1, <2>2, StillFree DEF Spaces
  <1> QED BY <1>8, <1>9, <1>13, <1>14 DEF Spaces

\* recover_addr_space: n takes back the space of e.
Recovers(n, e) ==
  /\ rcvd_addr' = [rcvd_addr EXCEPT ![n] = Append(@, e)]
  /\ CheckSuccesor(prim_addr[n], e.addr) = "succesor"

LEMMA RecoversFacts ==
  ASSUME IInv, Control, Spaces, RecoverableIsFree, NEW n \in Node, NEW e \in neigh_table[n],
         CheckNeighbors(n, e), Recovers(n, e)
  PROVE  /\ n \in Up /\ pc' = pc /\ prim_addr' = prim_addr /\ prim_mask' = prim_mask
         /\ red_numero' = red_numero /\ rcvd_offered' = rcvd_offered /\ v_pap' = v_pap
         /\ chosen' = chosen /\ msgs' = msgs /\ e \in Recovered
         /\ Len(rcvd_addr'[n]) = Len(rcvd_addr[n]) + 1 /\ Len(rcvd_addr[n]) \in Nat
         /\ rcvd_addr'[n] \in Seq(Recovered)
         /\ rcvd_addr'[n][Len(rcvd_addr[n]) + 1] = e
         /\ \A i \in 1 .. Len(rcvd_addr[n]) : rcvd_addr'[n][i] = rcvd_addr[n][i]
         /\ \A k \in Node \ {n} : SameSpaces(k)
         /\ \A k \in Up : red_numero[k] = red_numero[n] => Held(k) \cap Space(e.addr, e.mask) = {}
         /\ (Held(n))' = Held(n) \cup Space(e.addr, e.mask)
  <1>1. /\ n \in Up /\ prim_addr' = prim_addr /\ prim_mask' = prim_mask
        /\ red_numero' = red_numero /\ rcvd_offered' = rcvd_offered /\ v_pap' = v_pap
        /\ chosen' = chosen /\ msgs' = msgs /\ ~Near(n, e.addr)
    BY DEF CheckNeighbors, Up
  <1>2. pc' = pc
    BY DEF CheckNeighbors, Recovers
  <1>3. e \in Recovered /\ rcvd_addr[n] \in Seq(Recovered) /\ Len(rcvd_addr[n]) \in Nat
    BY DEF IInv, TableOK, SpaceOK
  <1>4. /\ rcvd_addr'[n] = Append(rcvd_addr[n], e)
        /\ \A k \in Node \ {n} : rcvd_addr'[k] = rcvd_addr[k]
    BY DEF Recovers, IInv, SpaceOK
  <1>5. /\ Len(rcvd_addr'[n]) = Len(rcvd_addr[n]) + 1
        /\ rcvd_addr'[n] \in Seq(Recovered)
        /\ rcvd_addr'[n][Len(rcvd_addr[n]) + 1] = e
        /\ \A i \in 1 .. Len(rcvd_addr[n]) : rcvd_addr'[n][i] = rcvd_addr[n][i]
    BY <1>3, <1>4
  <1>6. \A k \in Up : red_numero[k] = red_numero[n] => Held(k) \cap Space(e.addr, e.mask) = {}
    BY <1>1 DEF RecoverableIsFree, Recovers
  <1>7. \A k \in Node \ {n} : SameSpaces(k)
    BY <1>1, <1>4 DEF SameSpaces
  <1>8. (Held(n))' = Held(n) \cup Space(e.addr, e.mask)
    <2> DEFINE S(i) == Space(rcvd_addr'[n][i].addr, rcvd_addr'[n][i].mask)
               len == Len(rcvd_addr[n])
    <2>1. DOMAIN rcvd_addr[n] = 1 .. len /\ DOMAIN rcvd_addr'[n] = 1 .. len + 1
      BY <1>3, <1>5
    <2>2. (Held(n))' = Own(n) \cup UNION {S(i) : i \in 1 .. len + 1}
      BY <1>1, <2>1 DEF Held, Own
    <2>3. Held(n) = Own(n) \cup UNION {S(i) : i \in 1 .. len}
      BY <1>5, <2>1 DEF Held, Own
    <2>4. S(len + 1) = Space(e.addr, e.mask)
      BY <1>5
    <2>5. 1 .. len + 1 = (1 .. len) \cup {len + 1}
      BY <1>3
    <2> HIDE DEF S, len
    <2> QED BY <2>2, <2>3, <2>4, <2>5
  <1> QED BY <1>1, <1>2, <1>3, <1>5, <1>6, <1>7, <1>8

LEMMA RecoversSpaces ==
  ASSUME IInv, Control, Spaces, RecoverableIsFree, NEW n \in Node, NEW e \in neigh_table[n],
         CheckNeighbors(n, e), Recovers(n, e)
  PROVE  Spaces'
  <1> DEFINE E == Space(e.addr, e.mask)
  <1>0. PICK len \in Nat : len = Len(rcvd_addr[n])
    BY RecoversFacts
  <1>1. /\ n \in Up /\ pc' = pc /\ prim_addr' = prim_addr /\ prim_mask' = prim_mask
        /\ red_numero' = red_numero /\ rcvd_offered' = rcvd_offered /\ v_pap' = v_pap
        /\ chosen' = chosen /\ msgs' = msgs
        /\ \A k \in Node \ {n} : SameSpaces(k)
        /\ (Held(n))' = Held(n) \cup E
    BY RecoversFacts
  <1>2. /\ Len(rcvd_addr'[n]) = len + 1 /\ Len(rcvd_addr[n]) = len
        /\ rcvd_addr'[n][len + 1] = e
        /\ \A i \in 1 .. len : rcvd_addr'[n][i] = rcvd_addr[n][i]
    BY <1>0, RecoversFacts
  <1>3. \A k \in Up : red_numero[k] = red_numero[n] => Held(k) \cap E = {}
    BY RecoversFacts
  <1>4. \A k \in Node \ {n} : (Held(k))' = Held(k) /\ \A o : Stands(k, o) => (Stands(k, o))'
    BY <1>1, SameHeld
  <1>5. rcvd_addr[n] \in Seq(Recovered)
    BY DEF IInv, SpaceOK
  <1>6. OwnSpaces'
    <2> SUFFICES ASSUME NEW k \in Node PROVE (OwnSpace1(k))'
      BY DEF OwnSpaces
    <2>1. CASE k # n
      BY <1>1, <2>1, SameHeld DEF Spaces, OwnSpaces
    <2>2. CASE k = n
      <3>1. OwnSpace1(n)
        BY DEF Spaces, OwnSpaces
      <3>2. (Own(n))' = Own(n) /\ Own(n) \cap E = {}
        BY <1>1, <1>3, <1>5, Holds DEF Own
      <3>3. \A i \in 1 .. len : (Rcvd(n, i))' = Rcvd(n, i) /\ Rcvd(n, i) \cap E = {}
        <4> SUFFICES ASSUME NEW i \in 1 .. len
                     PROVE  (Rcvd(n, i))' = Rcvd(n, i) /\ Rcvd(n, i) \cap E = {}
          OBVIOUS
        <4>1. (Rcvd(n, i))' = Rcvd(n, i)
          BY <1>2 DEF Rcvd
        <4>2. Rcvd(n, i) \subseteq Held(n)
          BY <1>2, <1>5, Holds
        <4> QED BY <1>1, <1>3, <4>1, <4>2
      <3>4. (Rcvd(n, len + 1))' = E
        BY <1>2 DEF Rcvd
      <3>5. \A i \in 1 .. len + 1 : i \in 1 .. len \/ i = len + 1
        BY <1>2
      <3> HIDE DEF E
      <3>6. \A i, j \in 1 .. len + 1 : i # j => (Rcvd(n, i))' \cap (Rcvd(n, j))' = {}
        BY <1>2, <3>1, <3>3, <3>4, <3>5 DEF OwnSpace1
      <3>7. \A i \in 1 .. len + 1 : (Rcvd(n, i))' \cap (Own(n))' = {}
        BY <1>2, <3>1, <3>2, <3>3, <3>4, <3>5 DEF OwnSpace1
      <3> QED BY <1>1, <1>2, <2>2, <3>1, <3>2, <3>6, <3>7 DEF OwnSpace1
    <2> QED BY <2>1, <2>2
  <1>7. HeldApart'
    BY <1>1, <1>3, <1>4 DEF Spaces, HeldApart, Up
  <1>8. ASSUME NEW j \in Joining, NEW o \in Offers(j), o.mask # 0, o.red = red_numero[n],
               Live(o) \/ Confirmed(j)
        PROVE  Space(o.addr, o.mask) \cap E = {}
    <2>1. ~Near(n, e.addr) /\ CheckSuccesor(prim_addr[n], e.addr) = "succesor"
      BY DEF CheckNeighbors, Recovers
    <2> QED BY <1>1, <1>8, <2>1 DEF RecoverableIsFree
  <1>9. GoodOffers'
    <2> SUFFICES ASSUME NEW j \in Joining, NEW o \in Offers(j), o.mask # 0,
                        NEW p \in Up, red_numero[p] = o.red, prim_addr[p] = o.owner
                 PROVE  /\ (Stands(p, o))'
                        /\ \A k \in Up \ {p} : red_numero[k] = o.red =>
                             (Held(k))' \cap Space(o.addr, o.mask) = {}
      BY <1>1 DEF GoodOffers, GoodOffer, Offers, Joining, Up
    <2>1. /\ Stands(p, o)
          /\ \A k \in Up \ {p} : red_numero[k] = o.red => Held(k) \cap Space(o.addr, o.mask) = {}
      BY DEF Spaces, GoodOffers, GoodOffer
    <2>2. o.red = red_numero[n] => Space(o.addr, o.mask) \cap E = {}
      BY <1>8 DEF Live
    <2>3. (Stands(p, o))'
      <3>1. CASE p # n
        BY <1>4, <2>1, <3>1 DEF Up
      <3>2. CASE p = n
        <4>1. CASE InList(n, o)
          <5>1. PICK i \in 1 .. len :
                  rcvd_addr[n][i].addr = o.addr /\ rcvd_addr[n][i].mask = o.mask
            BY <1>2, <4>1 DEF InList
          <5>2. i \in 1 .. len + 1 /\ rcvd_addr'[n][i] = rcvd_addr[n][i]
            BY <1>2, <5>1
          <5> QED BY <1>1, <1>2, <3>2, <4>1, <5>1, <5>2 DEF Stands, InList
        <4>2. CASE IsHalf(n, o)
          BY <1>1, <3>2, <4>2 DEF Stands, IsHalf
        <4>3. CASE Space(o.addr, o.mask) \cap Held(n) = {}
          BY <1>1, <2>2, <3>2, <4>3 DEF Stands
        <4> QED BY <2>1, <3>2, <4>1, <4>2, <4>3 DEF Stands
      <3> QED BY <3>1, <3>2
    <2>4. ASSUME NEW k \in Up \ {p}, red_numero[k] = o.red
          PROVE  (Held(k))' \cap Space(o.addr, o.mask) = {}
      <3>1. CASE k # n
        BY <1>4, <2>1, <2>4, <3>1 DEF Up
      <3>2. CASE k = n
        BY <1>1, <2>1, <2>2, <2>4, <3>2
      <3> QED BY <3>1, <3>2
    <2> QED BY <2>3, <2>4
  <1>10. ConfirmedIsFree'
    <2> SUFFICES ASSUME NEW j \in Node, NEW m \in msgs, pc[j] = "panc",
                        m.type = "PANC", m.dst = j, m.owner = chosen[j].owner,
                        NEW k \in Up, red_numero[k] = red_numero[j]
                 PROVE  (Held(k))' \cap Space(chosen[j].addr, chosen[j].mask) = {}
      BY <1>1 DEF ConfirmedIsFree, Up
    <2>1. Held(k) \cap Space(chosen[j].addr, chosen[j].mask) = {}
      BY DEF Spaces, ConfirmedIsFree
    <2>2. CASE k # n
      BY <1>4, <2>1, <2>2 DEF Up
    <2>3. CASE k = n
      <3>1. /\ j \in Joining /\ Confirmed(j) /\ chosen[j] \in Offers(j)
            /\ chosen[j].mask # 0 /\ chosen[j].red = red_numero[n]
        BY <2>3 DEF Joining, Confirmed, Offers, Control, ChosenStands
      <3>2. Space(chosen[j].addr, chosen[j].mask) \cap E = {}
        BY <1>8, <3>1
      <3> QED BY <1>1, <2>1, <2>3, <3>2
    <2> QED BY <2>2, <2>3
  <1> QED BY <1>6, <1>7, <1>9, <1>10 DEF Spaces

\* g finds the entries of new in list; all have another address than a.
Thinned(g, new, list, a) ==
  /\ g \in [1 .. Len(new) -> 1 .. Len(list)]
  /\ \A i, j \in 1 .. Len(new) : g[i] = g[j] => i = j
  /\ \A i \in 1 .. Len(new) : new[i] = list[g[i]] /\ list[g[i]].addr # a

\* del_rcvd_addr_table takes the entry with address a out of the list, when
\* there is not more than one.
LEMMA WithoutFirstFacts ==
  ASSUME NEW list \in Seq(Recovered), NEW a,
         \A i, j \in 1 .. Len(list) : list[i].addr = a /\ list[j].addr = a => i = j,
         NEW new, new = WithoutFirst(list, a)
  PROVE  /\ new \in Seq(Recovered)
         /\ \E g : Thinned(g, new, list, a)
  <1> DEFINE hits == {i \in DOMAIN list : list[i].addr = a}
             at == CHOOSE i \in hits : \A j \in hits : i <= j
  <1>1. new \in Seq(Recovered)
    BY WithoutFirstType
  <1>2. Len(list) \in Nat /\ DOMAIN list = 1 .. Len(list)
    OBVIOUS
  <1>3. CASE hits = {}
    <2>1. new = list
      BY <1>3 DEF WithoutFirst
    <2>2. \A i \in 1 .. Len(list) : list[i].addr # a
      BY <1>2, <1>3
    <2> DEFINE g == [i \in 1 .. Len(list) |-> i]
    <2>3. /\ g \in [1 .. Len(new) -> 1 .. Len(list)]
          /\ \A i, j \in 1 .. Len(new) : g[i] = g[j] => i = j
          /\ \A i \in 1 .. Len(new) : new[i] = list[g[i]] /\ list[g[i]].addr # a
      BY <2>1, <2>2
    <2> HIDE DEF g
    <2> QED BY <1>1, <2>3 DEF Thinned
  <1>4. CASE hits # {}
    <2>1. hits \subseteq Nat /\ hits # {}
      BY <1>2, <1>4
    <2>2. at \in hits
      <3> HIDE DEF hits
      <3> QED BY <2>1, FirstIndex
    <2>3. at \in DOMAIN list /\ list[at].addr = a
      BY <2>2
    <2>4. new = RemoveAt(list, at)
      BY <1>4 DEF WithoutFirst, RemoveAt
    <2> HIDE DEF at
    <2>5. /\ DOMAIN new = 1 .. Len(list) - 1
          /\ \A j \in 1 .. Len(list) - 1 : new[j] = IF j < at THEN list[j] ELSE list[j + 1]
      BY <2>3, <2>4, RemoveAtFacts
    <2>6. Len(new) = Len(list) - 1
      <3>1. Len(new) \in Nat /\ DOMAIN new = 1 .. Len(new)
        BY <1>1
      <3>2. Len(list) - 1 \in Nat
        BY <1>2, <2>3
      <3> QED BY <2>5, <3>1, <3>2
    <2> DEFINE g == [i \in 1 .. Len(new) |-> IF i < at THEN i ELSE i + 1]
    <2>7. at \in 1 .. Len(list)
      BY <1>2, <2>3
    <2>8. \A i \in 1 .. Len(new) : /\ g[i] \in 1 .. Len(list) /\ g[i] # at
                                /\ new[i] = list[g[i]]
      BY <1>2, <2>5, <2>6, <2>7
    <2>9. \A i, j \in 1 .. Len(new) : g[i] = g[j] => i = j
      BY <1>2, <2>6, <2>7
    <2>10. \A i \in 1 .. Len(new) : list[g[i]].addr # a
      BY <2>3, <2>7, <2>8
    <2> HIDE DEF g
    <2>11. g \in [1 .. Len(new) -> 1 .. Len(list)]
      BY <2>8 DEF g
    <2> QED BY <1>1, <2>8, <2>9, <2>10, <2>11 DEF Thinned
  <1> QED BY <1>1, <1>3, <1>4

\* send_panc: what n has left, and what has become of what it offered.
LEMMA GiveFacts ==
  ASSUME IInv, Spaces, NEW n \in Node, NEW m, GiveAway(n, m),
         prim_addr' = prim_addr, rcvd_offered' = rcvd_offered
  PROVE  /\ (Held(n))' \subseteq Held(n) /\ prim_addr[n] \in (Held(n))'
         /\ (OwnSpace1(n))'
         /\ \A k \in Node \ {n} : SameSpaces(k)
         /\ \A o : o.addr \in Addr /\ o.mask \in Nat /\ Stands(n, o) =>
              /\ (Stands(n, o))'
              /\ o.addr = m.addr => Space(o.addr, o.mask) \cap (Held(n))' = {}
  <1>1. /\ rcvd_addr[n] \in Seq(Recovered) /\ prim_addr[n] \in Addr /\ prim_mask[n] \in Nat
        /\ OwnSpace1(n) /\ Len(rcvd_addr[n]) \in Nat
    BY DEF IInv, SpaceOK, JoinOK, Mask, Spaces, OwnSpaces
  <1>2. ASSUME NEW i \in 1 .. Len(rcvd_addr[n]) PROVE rcvd_addr[n][i].addr \in Rcvd(n, i)
    <2>1. rcvd_addr[n][i] \in Recovered
      BY <1>1
    <2> QED BY <2>1, OwnSpace DEF Rcvd, Recovered, Mask
  <1>3. CASE ChoseRecovered(n, m)
    <2>1. /\ rcvd_addr' = [rcvd_addr EXCEPT ![n] = WithoutFirst(@, m.addr)]
          /\ prim_mask' = prim_mask /\ rcvd_offered[n] = m.addr
      BY <1>3 DEF GiveAway, ChoseRecovered
    <2>2. \A i, j \in 1 .. Len(rcvd_addr[n]) :
            rcvd_addr[n][i].addr = m.addr /\ rcvd_addr[n][j].addr = m.addr => i = j
      BY <1>1, <1>2 DEF OwnSpace1
    <2>3. rcvd_addr'[n] = WithoutFirst(rcvd_addr[n], m.addr)
      BY <2>1 DEF IInv, SpaceOK
    <2>4. rcvd_addr'[n] \in Seq(Recovered)
      BY <1>1, <2>3, WithoutFirstType
    <2>5. PICK g : Thinned(g, rcvd_addr'[n], rcvd_addr[n], m.addr)
      BY <1>1, <2>2, <2>3, WithoutFirstFacts
    <2>6. \A i \in 1 .. Len(rcvd_addr'[n]) :
            g[i] \in 1 .. Len(rcvd_addr[n]) /\ (Rcvd(n, i))' = Rcvd(n, g[i])
      BY <2>5 DEF Rcvd, Thinned
    <2>7. (Own(n))' = Own(n)
      BY <2>1 DEF Own
    <2>8. \A x \in (Held(n))' : x \in Own(n) \/ \E i \in 1 .. Len(rcvd_addr'[n]) : x \in Rcvd(n, g[i])
      BY <2>4, <2>6, <2>7 DEF Held, Own, Rcvd
    <2>9. (Held(n))' \subseteq Held(n)
      <3>1. Own(n) \subseteq Held(n) /\ \A i \in 1 .. Len(rcvd_addr[n]) : Rcvd(n, i) \subseteq Held(n)
        BY <1>1, Holds
      <3>2. \A i \in 1 .. Len(rcvd_addr'[n]) : g[i] \in 1 .. Len(rcvd_addr[n])
        BY <2>6
      <3> QED BY <2>8, <3>1, <3>2
    <2>10. (OwnSpace1(n))'
      <3>1. \A i \in 1 .. Len(rcvd_addr'[n]) : (Rcvd(n, i))' \cap (Own(n))' = {}
        BY <1>1, <2>6, <2>7 DEF OwnSpace1
      <3>2. \A i, j \in 1 .. Len(rcvd_addr'[n]) :
              i # j => (Rcvd(n, i))' \cap (Rcvd(n, j))' = {}
        <4> SUFFICES ASSUME NEW i \in 1 .. Len(rcvd_addr'[n]),
                            NEW j \in 1 .. Len(rcvd_addr'[n]), i # j
                     PROVE  Rcvd(n, g[i]) \cap Rcvd(n, g[j]) = {}
          BY <2>6
        <4>1. g[i] # g[j] /\ g[i] \in 1 .. Len(rcvd_addr[n]) /\ g[j] \in 1 .. Len(rcvd_addr[n])
          BY <2>5, <2>6 DEF Thinned
        <4> QED BY <1>1, <4>1 DEF OwnSpace1
      <3>3. rcvd_offered'[n] \notin (Own(n))'
        BY <1>1, <2>7 DEF OwnSpace1
      <3> QED BY <3>1, <3>2, <3>3 DEF OwnSpace1
    <2>11. \A k \in Node \ {n} : SameSpaces(k)
      BY <2>1 DEF SameSpaces, IInv, SpaceOK
    <2>12. prim_addr[n] \in (Held(n))'
      BY <1>1, <2>1, OwnSpace DEF Held
    <2>13. ASSUME NEW o, o.addr \in Addr, o.mask \in Nat, Stands(n, o)
           PROVE  /\ (Stands(n, o))'
                  /\ o.addr = m.addr => Space(o.addr, o.mask) \cap (Held(n))' = {}
      <3>1. CASE InList(n, o)
        <4>1. o.addr = m.addr
          BY <2>1, <3>1 DEF InList
        <4>2. PICK i \in 1 .. Len(rcvd_addr[n]) :
                rcvd_addr[n][i].addr = o.addr /\ rcvd_addr[n][i].mask = o.mask
          BY <3>1 DEF InList
        <4>3. Space(o.addr, o.mask) = Rcvd(n, i)
          BY <4>2 DEF Rcvd
        <4>4. \A j \in 1 .. Len(rcvd_addr'[n]) : Rcvd(n, i) \cap Rcvd(n, g[j]) = {}
          BY <1>1, <2>5, <2>6, <4>1, <4>2 DEF OwnSpace1, Thinned
        <4>5. Rcvd(n, i) \cap Own(n) = {}
          BY <1>1 DEF OwnSpace1
        <4>6. Space(o.addr, o.mask) \cap (Held(n))' = {}
          BY <2>8, <4>3, <4>4, <4>5
        <4> QED BY <4>6 DEF Stands
      <3>2. CASE IsHalf(n, o)
        BY <2>1, <3>2 DEF Stands, IsHalf
      <3>3. CASE Space(o.addr, o.mask) \cap Held(n) = {}
        BY <2>9, <3>3 DEF Stands
      <3> QED BY <2>13, <3>1, <3>2, <3>3 DEF Stands
    <2> QED BY <2>9, <2>10, <2>11, <2>12, <2>13
  <1>4. CASE ~ChoseRecovered(n, m)
    <2>1. /\ prim_mask' = [prim_mask EXCEPT ![n] = @ + 1] /\ rcvd_addr' = rcvd_addr
      BY <1>4 DEF GiveAway
    <2>2. prim_mask'[n] = prim_mask[n] + 1
      BY <2>1 DEF IInv, SpaceOK
    <2>3. (Own(n))' = Space(prim_addr[n], prim_mask[n] + 1)
      BY <2>2 DEF Own
    <2>4. (Own(n))' \subseteq Own(n)
      BY <1>1, <2>3, SpaceShrinks DEF Own
    <2>5. \A i : (Rcvd(n, i))' = Rcvd(n, i)
      BY <2>1 DEF Rcvd
    <2>6. \A x \in (Held(n))' : \/ x \in (Own(n))'
                              \/ \E i \in 1 .. Len(rcvd_addr[n]) : x \in Rcvd(n, i)
      BY <1>1, <2>1 DEF Held, Own, Rcvd
    <2>7. (Held(n))' \subseteq Held(n)
      BY <1>1, <2>4, <2>6, Holds
    <2>8. (OwnSpace1(n))'
      BY <1>1, <2>1, <2>4, <2>5 DEF OwnSpace1
    <2>9. \A k \in Node \ {n} : SameSpaces(k)
      BY <2>1 DEF SameSpaces, IInv, SpaceOK
    <2>10. prim_addr[n] \in (Held(n))'
      BY <1>1, <2>2, OwnSpace DEF Held
    <2>11. ASSUME NEW o, o.addr \in Addr, o.mask \in Nat, Stands(n, o)
           PROVE  /\ (Stands(n, o))'
                  /\ o.addr = m.addr => Space(o.addr, o.mask) \cap (Held(n))' = {}
      <3>1. CASE InList(n, o)
        <4>1. o.addr # m.addr
          BY <1>4, <2>11, <3>1, NoAddrAssumption DEF InList, ChoseRecovered
        <4> QED BY <2>1, <3>1, <4>1 DEF Stands, InList
      <3>2. CASE IsHalf(n, o)
        <4>1. /\ prim_mask[n] \in Bits /\ o.addr = Flip(prim_addr[n], prim_mask[n])
              /\ o.mask = prim_mask[n] + 1
          BY <1>1, <3>2, DimAssumption DEF IsHalf, Bits
        <4>2. /\ Space(o.addr, o.mask) \cap (Own(n))' = {}
              /\ Space(o.addr, o.mask) \subseteq Own(n)
          BY <1>1, <2>3, <4>1, SpaceSplit DEF Own
        <4>3. Space(o.addr, o.mask) \cap (Held(n))' = {}
          BY <1>1, <2>6, <4>2 DEF OwnSpace1
        <4> QED BY <4>3 DEF Stands
      <3>3. CASE Space(o.addr, o.mask) \cap Held(n) = {}
        BY <2>7, <3>3 DEF Stands
      <3> QED BY <2>11, <3>1, <3>2, <3>3 DEF Stands
    <2> QED BY <2>7, <2>8, <2>9, <2>10, <2>11
  <1> QED BY <1>3, <1>4

LEMMA ReceivePanSpaces ==
  ASSUME IInv, Control, Spaces, NEW n \in Node, NEW m \in msgs, ReceivePan(n, m)
  PROVE  Spaces'
  <1>1. /\ n \in Up /\ pc' = pc /\ prim_addr' = prim_addr /\ red_numero' = red_numero
        /\ v_pap' = v_pap /\ chosen' = chosen /\ rcvd_offered' = rcvd_offered
        /\ GiveAway(n, m) /\ NamesMe(n, m) /\ m.type = "PAN"
    BY ReceivePanFacts DEF joinVars, Up
  <1>2. \A x \in msgs' : x \in msgs \/ (x.type = "PANC" /\ x.dst = m.src /\ x.owner = m.owner)
    BY ReceivePanFacts
  <1>3. /\ (Held(n))' \subseteq Held(n) /\ (OwnSpace1(n))'
        /\ \A k \in Node \ {n} : SameSpaces(k)
    BY <1>1, GiveFacts
  <1>4. \A k \in Node \ {n} : (Held(k))' = Held(k) /\ \A o : Stands(k, o) => (Stands(k, o))'
    BY <1>3, SameHeld
  <1>5. \A o : o.addr \in Addr /\ o.mask \in Nat /\ Stands(n, o) =>
          /\ (Stands(n, o))'
          /\ o.addr = m.addr => Space(o.addr, o.mask) \cap (Held(n))' = {}
    BY <1>1, GiveFacts
  <1>6. NobodyGains
    BY <1>1, <1>3, <1>4 DEF NobodyGains
  <1>7. OwnSpaces'
    BY <1>3, SameHeld DEF Spaces, OwnSpaces
  <1>8. HeldApart'
    BY <1>6, StillApart DEF Spaces
  <1>9. ASSUME NEW j \in Joining, NEW o \in Offers(j), o.mask # 0
        PROVE  o.addr \in Addr /\ o.mask \in Nat /\ GoodOffer(o)
    <2>1. o \in Pap
      BY <1>9, OfferIsPap
    <2> QED BY <1>9, <2>1, OfferHasAddress DEF Pap, Mask, Spaces, GoodOffers
  <1>10. GoodOffers'
    <2> SUFFICES ASSUME NEW j \in Joining', NEW o \in (Offers(j))', o.mask # 0
                 PROVE  (GoodOffer(o))'
      BY DEF GoodOffers
    <2>1. j \in Joining /\ j \in Node
      BY <1>1 DEF Joining
    <2>2. o \in Offers(j)
      <3>1. \A x \in msgs' : x.type = "PAP" => x \in msgs
        BY <1>2
      <3> QED BY <1>1, <2>1, <3>1, SameOffers
    <2>3. o.addr \in Addr /\ o.mask \in Nat /\ GoodOffer(o)
      BY <1>9, <2>1, <2>2
    <2>4. \A p \in Node : pc'[p] = "up" /\ Stands(p, o) => (Stands(p, o))'
      BY <1>4, <1>5, <2>3
    <2> QED BY <1>6, <2>3, <2>4, StillGood
  <1>11. ConfirmedIsFree'
    <2> SUFFICES ASSUME NEW j \in Node, NEW x \in msgs', pc[j] = "panc",
                        x.type = "PANC", x.dst = j, x.owner = chosen[j].owner,
                        NEW k \in Up, red_numero[k] = red_numero[j]
                 PROVE  (Held(k))' \cap Space(chosen[j].addr, chosen[j].mask) = {}
      BY <1>1 DEF ConfirmedIsFree, Up
    <2>1. CASE x \in msgs
      <3>1. Held(k) \cap Space(chosen[j].addr, chosen[j].mask) = {}
        BY <2>1 DEF Spaces, ConfirmedIsFree
      <3>2. (Held(k))' \subseteq Held(k)
        BY <1>3, <1>4 DEF Up
      <3> QED BY <3>1, <3>2
    <2>2. CASE x \notin msgs
      <3>1. /\ j \in Joining /\ chosen[j] \in Offers(j)
            /\ chosen[j].mask # 0 /\ red_numero[j] = chosen[j].red
            /\ m.owner = chosen[j].owner /\ m.addr = chosen[j].addr /\ m.red = chosen[j].red
        BY <1>1 DEF Joining, Offers, Control, ChosenStands
      <3>2. /\ chosen[j].addr \in Addr /\ chosen[j].mask \in Nat /\ GoodOffer(chosen[j])
        BY <1>9, <3>1
      <3>3. red_numero[n] = chosen[j].red /\ prim_addr[n] = chosen[j].owner
        BY <1>1, <3>1 DEF NamesMe
      <3>4. /\ Stands(n, chosen[j])
            /\ \A i \in Up \ {n} : red_numero[i] = chosen[j].red =>
                 Held(i) \cap Space(chosen[j].addr, chosen[j].mask) = {}
        BY <1>1, <3>2, <3>3 DEF GoodOffer
      <3>5. CASE k = n
        <4>1. Space(chosen[j].addr, chosen[j].mask) \cap (Held(n))' = {}
          BY <1>5, <3>1, <3>2, <3>4
        <4> QED BY <3>5, <4>1
      <3>6. CASE k # n
        BY <1>4, <3>1, <3>4, <3>6 DEF Up
      <3> QED BY <3>5, <3>6
    <2> QED BY <2>1, <2>2
  <1> QED BY <1>7, <1>8, <1>10, <1>11 DEF Spaces

\* What is not the recovery of a space does nothing, or stops n for ever.
LEMMA CheckNeighborsSpaces ==
  ASSUME IInv, Control, Spaces, RecoverableIsFree, NEW n \in Node, NEW e \in neigh_table[n],
         CheckNeighbors(n, e)
  PROVE  Spaces'
  <1>1. CASE Recovers(n, e)
    BY <1>1, RecoversSpaces
  <1>2. CASE ~Recovers(n, e)
    <2>1. /\ prim_addr' = prim_addr /\ prim_mask' = prim_mask /\ red_numero' = red_numero
          /\ rcvd_offered' = rcvd_offered /\ v_pap' = v_pap /\ chosen' = chosen
          /\ msgs' = msgs /\ rcvd_addr' = rcvd_addr
          /\ \A k \in Node : pc'[k] = pc[k] \/ (pc[k] = "up" /\ pc'[k] = "hung")
      BY <1>2 DEF CheckNeighbors, Recovers, IInv, JoinOK
    <2>2. \A k \in Node : SameSpaces(k)
      BY <2>1 DEF SameSpaces
    <2>3. \A k \in Node : pc'[k] = "up" =>
            pc[k] = "up" /\ red_numero'[k] = red_numero[k] /\ SameSpaces(k)
      BY <2>1, <2>2
    <2>4. NoMoreOffers
      BY <2>1 DEF Joining, Offers, NoMoreOffers
    <2>5. \A k \in Node, x \in msgs' :
            pc'[k] = "panc" /\ x.type = "PANC" /\ x.dst = k /\ x.owner = chosen'[k].owner =>
              /\ pc[k] = "panc" /\ chosen'[k] = chosen[k] /\ red_numero'[k] = red_numero[k]
              /\ x \in msgs
      BY <2>1
    <2>6. \A k \in Node : SameSpaces(k) \/ (rcvd_addr'[k] = <<>> /\ rcvd_offered'[k] = NoAddr)
      BY <2>2
    <2> QED BY <2>3, <2>4, <2>5, <2>6, QuietSpaces
  <1> QED BY <1>1, <1>2

LEMMA StepSpaces ==
  ASSUME OneByOne, IInv, Control, Spaces, RecoverableIsFree, NewNetworkIsNew, [Next]_vars
  PROVE  Spaces'
  <1>1. (\E n \in Node : NodeStep(n)) \/ Idle
    BY NextCases
  <1>2. ASSUME NEW n \in Node, NodeStep(n) PROVE Spaces'
    BY <1>2, BootSpaces, SendPanSpaces, FoundSpaces, ResetAloneSpaces, CrashSpaces,
       CheckNeighborsSpaces, ReceiveParSpaces, ReceiveOfferSpaces, ReceivePanSpaces,
       ReceivePancSpaces DEF NodeStep
  <1>3. CASE Idle
    BY <1>3, IdleFacts, IdleSpaces
  <1> QED BY <1>1, <1>2, <1>3

LEMMA InitControlSpaces ==
  ASSUME Init
  PROVE  Control /\ Spaces
  <1>1. Joining = {} /\ Up = {} /\ msgs = {}
    BY DEF Init, Joining, Up
  <1>2. \A n \in Node : /\ pc[n] = "off" /\ v_pap[n] = <<>> /\ chosen[n] = NoPap
                      /\ rcvd_addr[n] = <<>> /\ rcvd_offered[n] = NoAddr
    BY DEF Init
  <1>3. OneJoiner /\ OwnPackets /\ AskedOnce
    BY <1>1 DEF OneJoiner, OwnPackets, AskedOnce
  <1>4. VectorFits /\ ChosenStands
    BY <1>2 DEF VectorFits, ChosenStands
  <1>5. WhileWaiting
    BY <1>2 DEF WhileWaiting
  <1>6. OwnSpaces
    BY <1>2, NoAddrAssumption DEF OwnSpaces, OwnSpace1, Own, Space
  <1>7. HeldApart /\ GoodOffers /\ ConfirmedIsFree
    BY <1>1 DEF HeldApart, GoodOffers, ConfirmedIsFree
  <1> QED BY <1>3, <1>4, <1>5, <1>6, <1>7 DEF Control, Spaces

\* The inductive invariant: types, what is in flight, who administers what.
AInv == IInv /\ Control /\ Spaces

(***************************************************************************)
(* AInv holds in every state in which nodes join one by one, as long as    *)
(* recover_addr_space (heart_beat.c) only takes back what is free and a    *)
(* network that is founded is new.                                         *)
(***************************************************************************)
THEOREM SpecAInv ==
  ASSUME OneByOne
  PROVE  Spec /\ [](RecoverableIsFree /\ NewNetworkIsNew) => []AInv
  <1>1. Init => AInv
    BY InitIInv, InitControlSpaces DEF AInv
  <1>2. AInv /\ (RecoverableIsFree /\ NewNetworkIsNew) /\ [Next]_vars => AInv'
    BY StepIInv, StepControl, StepSpaces DEF AInv
  <1> QED BY <1>1, <1>2, PTL DEF Spec

\* send_panc: a node that confirms a space no longer has any of it, and nobody else
\* has; the joiner may use it when it reads the PANC.
THEOREM SpecConfirmedIsFree ==
  ASSUME OneByOne
  PROVE  Spec /\ [](RecoverableIsFree /\ NewNetworkIsNew) => []ConfirmedIsFree
  <1>1. AInv => ConfirmedIsFree
    BY DEF AInv, Spaces
  <1> QED BY <1>1, SpecAInv, PTL

\* recover_addr_space: no space is in rcvd_addr_table twice, so that
\* del_rcvd_addr_table, which deletes the first entry, deletes the one that was given.
THEOREM SpecRecoveredOnce ==
  ASSUME OneByOne
  PROVE  Spec /\ [](RecoverableIsFree /\ NewNetworkIsNew) => []RecoveredOnce
  <1>1. AInv => RecoveredOnce
    <2> SUFFICES ASSUME AInv, NEW n \in Node,
                        NEW i \in DOMAIN rcvd_addr[n], NEW j \in DOMAIN rcvd_addr[n],
                        i # j, rcvd_addr[n][i].addr = rcvd_addr[n][j].addr
                 PROVE  FALSE
      BY DEF RecoveredOnce
    <2>1. /\ rcvd_addr[n] \in Seq(Recovered) /\ OwnSpace1(n)
          /\ i \in 1 .. Len(rcvd_addr[n]) /\ j \in 1 .. Len(rcvd_addr[n])
      BY DEF AInv, IInv, SpaceOK, Spaces, OwnSpaces
    <2>2. rcvd_addr[n][i] \in Recovered /\ rcvd_addr[n][j] \in Recovered
      BY <2>1
    <2>3. rcvd_addr[n][i].addr \in Rcvd(n, i) /\ rcvd_addr[n][j].addr \in Rcvd(n, j)
      BY <2>2, OwnSpace DEF Rcvd, Recovered, Mask
    <2> QED BY <2>1, <2>3 DEF OwnSpace1
  <1> QED BY <1>1, SpecAInv, PTL

-----------------------------------------------------------------------------
\* The abstract specification.

\* What AddressSpace sees of k.
SameAbstract(k) ==
  /\ k \in Up <=> pc'[k] = "up"
  /\ k \in Up => /\ red_numero'[k] = red_numero[k] /\ prim_addr'[k] = prim_addr[k]
                 /\ (Held(k))' = Held(k)

LEMMA Stutters ==
  ASSUME \A k \in Node : SameAbstract(k)
  PROVE  UNCHANGED Abs!vars
  BY DEF SameAbstract, Up, Abs!vars

LEMMA OnlyOne ==
  ASSUME NEW n \in Node, \A k \in Node \ {n} : SameAbstract(k)
  PROVE  Abs!Only(n)
  BY DEF SameAbstract, Up, Abs!Only

LEMMA SameAreSame ==
  ASSUME NEW k \in Node, SameSpaces(k), red_numero'[k] = red_numero[k], pc'[k] = pc[k]
  PROVE  SameAbstract(k)
  <1>1. (Held(k))' = Held(k)
    BY SameHeld
  <1> QED BY <1>1 DEF SameAbstract, SameSpaces, Up

\* Addresses that nobody else has are unclaimed.
LEMMA NobodyClaims ==
  ASSUME NEW n \in Node, NEW r, NEW S \in SUBSET Addr,
         \A k \in Up \ {n} : red_numero[k] = r => Held(k) \cap S = {}
  PROVE  S \subseteq Abs!Unclaimed(n, {r})
  BY DEF Abs!Unclaimed, Up

LEMMA Takes ==
  ASSUME IInv', NEW n \in Node, pc'[n] = "up", rcvd_addr'[n] = <<>>,
         \A k \in Node \ {n} : SameSpaces(k) /\ pc'[k] = pc[k] /\ red_numero'[k] = red_numero[k],
         \A k \in Up \ {n} : red_numero[k] = red_numero'[n] => Held(k) \cap (Held(n))' = {}
  PROVE  Abs!Take(n)
  <1>1. Abs!Only(n)
    BY SameAreSame, OnlyOne
  <1>2. (Held(n))' \subseteq Addr
    BY DEF Held, Space
  <1>3. (Held(n))' \subseteq Abs!Unclaimed(n, {red_numero'[n]})
    BY <1>2, NobodyClaims
  <1>4. prim_addr'[n] \in (Held(n))'
    <2>1. prim_addr'[n] \in Addr /\ prim_mask'[n] \in Nat
      BY DEF IInv, JoinOK, SpaceOK, Mask
    <2> QED BY <2>1, OwnSpace DEF Held
  <1>5. red_numero'[n] \in Red
    BY DEF IInv, JoinOK
  <1>6. n \in Up'
    BY DEF Up
  <1> QED BY <1>1, <1>3, <1>4, <1>5, <1>6 DEF Abs!Take

LEMMA IdleStutters ==
  ASSUME IInv, IdleStep
  PROVE  UNCHANGED Abs!vars
  <1>1. \A k \in Node : SameSpaces(k)
    BY IdleEffect DEF SameSpaces
  <1>2. \A k \in Node : (Held(k))' = Held(k)
    BY <1>1, SameHeld
  <1>3. \A k \in Node : SameAbstract(k)
    BY <1>2, IdleEffect DEF SameAbstract, Up
  <1> QED BY <1>3, Stutters

\* Steps of n before it has its address, and the offer that it makes.
LEMMA JoinStutters ==
  ASSUME OneByOne, IInv, Control, NEW n \in Node,
         \/ Boot(n) \/ SendPan(n)
         \/ \E m \in msgs : ReceiveOffer(n, m) \/ ReceivePar(n, m)
  PROVE  UNCHANGED Abs!vars
  <1>1. CASE Boot(n)
    <2>1. pc[n] = "off" /\ pc'[n] = "paps"
          /\ \A k \in Node \ {n} : pc'[k] = pc[k] /\ SameSpaces(k) /\ red_numero'[k] = red_numero[k]
      BY <1>1, FreshFacts DEF Boot, IInv, JoinOK
    <2>2. \A k \in Node : SameAbstract(k)
      BY <2>1, SameAreSame DEF SameAbstract, Up
    <2> QED BY <2>2, Stutters
  <1>2. CASE SendPan(n) \/ \E m \in msgs : ReceiveOffer(n, m)
    <2>1. /\ pc[n] # "up" /\ pc'[n] # "up"
          /\ \A k \in Node \ {n} : pc'[k] = pc[k] /\ red_numero'[k] = red_numero[k]
          /\ prim_addr' = prim_addr /\ UNCHANGED spaceVars
      BY <1>2 DEF SendPan, Collected, ReceiveOffer, IInv, JoinOK
    <2>2. \A k \in Node : SameSpaces(k)
      BY <2>1 DEF SameSpaces, spaceVars
    <2>3. \A k \in Node : SameAbstract(k)
      BY <2>1, <2>2, SameAreSame DEF SameAbstract, Up
    <2> QED BY <2>3, Stutters
  <1>3. CASE \E m \in msgs : ReceivePar(n, m)
    <2>1. UNCHANGED joinVars /\ UNCHANGED <<prim_mask, rcvd_addr>>
      BY <1>3, ReceiveParFacts DEF ReceivePar
    <2>2. \A k \in Node : (Held(k))' = Held(k)
      BY <2>1 DEF Held, joinVars
    <2>3. \A k \in Node : SameAbstract(k)
      BY <2>1, <2>2 DEF SameAbstract, Up, joinVars
    <2> QED BY <2>3, Stutters
  <1> QED BY <1>1, <1>2, <1>3

\* n comes up: alone, or with the space that it was given.
LEMMA ComesUp ==
  ASSUME OneByOne, IInv, IInv', Control, Spaces, NewNetworkIsNew, NEW n \in Node,
         Found(n) \/ ResetAlone(n) \/ \E m \in msgs : ReceivePanc(n, m)
  PROVE  Abs!Take(n)
  <1>1. CASE Found(n)
    <2>1. pc[n] = "paps" /\ Collected(n) /\ MayFound(n) /\ v_pap[n] = <<>>
      BY <1>1 DEF Found, Collected
    <2>2. /\ pc'[n] = "up" /\ red_numero'[n] = Mac[n]
          /\ rcvd_addr'[n] = <<>>
          /\ \A k \in Node \ {n} : SameSpaces(k) /\ pc'[k] = pc[k] /\ red_numero'[k] = red_numero[k]
      BY <1>1, <2>1 DEF Found, SameSpaces, IInv, JoinOK, SpaceOK, Control, WhileWaiting
    <2>3. \A k \in Up : red_numero[k] # Mac[n]
      BY <2>1 DEF NewNetworkIsNew
    <2> QED BY <2>2, <2>3, Takes
  <1>2. CASE ResetAlone(n)
    <2>1. pc[n] = "up" /\ n \in Up /\ Alone(n) /\ Leaf(n) /\ MayFound(n)
      BY <1>2 DEF ResetAlone, Up
    <2>2. \A k \in Up \ {n} : red_numero[k] # Mac[n]
      BY <2>1 DEF NewNetworkIsNew
    <2>3. /\ pc' = pc /\ red_numero'[n] = Mac[n]
          /\ rcvd_addr'[n] = <<>>
          /\ \A k \in Node \ {n} : SameSpaces(k) /\ red_numero'[k] = red_numero[k]
      BY <1>2 DEF ResetAlone, SameSpaces, IInv, JoinOK, SpaceOK
    <2> QED BY <2>1, <2>2, <2>3, Takes
  <1>3. ASSUME NEW m \in msgs, ReceivePanc(n, m) PROVE Abs!Take(n)
    <2>1. pc[n] = "panc" /\ m.type = "PANC" /\ m.dst = n /\ m.owner = chosen[n].owner
      BY <1>3 DEF ReceivePanc, Reads
    <2>2. /\ pc'[n] = "up" /\ red_numero' = red_numero /\ rcvd_addr'[n] = <<>>
          /\ prim_addr'[n] = chosen[n].addr /\ prim_mask'[n] = chosen[n].mask
          /\ \A k \in Node \ {n} : SameSpaces(k) /\ pc'[k] = pc[k]
      BY <1>3, <2>1 DEF ReceivePanc, SameSpaces, IInv, JoinOK, SpaceOK, Control, WhileWaiting
    <2>3. (Held(n))' = Space(chosen[n].addr, chosen[n].mask)
      BY <2>2 DEF Held
    <2>4. \A k \in Up : red_numero[k] = red_numero[n] => Held(k) \cap (Held(n))' = {}
      BY <2>1, <2>3 DEF Spaces, ConfirmedIsFree
    <2> QED BY <2>2, <2>4, Takes
  <1> QED BY <1>1, <1>2, <1>3

\* send_panc: part of the space of n goes.
LEMMA GivesAway ==
  ASSUME IInv, Control, Spaces, NEW n \in Node, NEW m \in msgs, ReceivePan(n, m)
  PROVE  Abs!Give(n)
  <1>1. /\ n \in Up /\ pc' = pc /\ prim_addr' = prim_addr /\ red_numero' = red_numero
        /\ rcvd_offered' = rcvd_offered /\ GiveAway(n, m)
    BY ReceivePanFacts DEF joinVars, Up
  <1>2. /\ (Held(n))' \subseteq Held(n) /\ prim_addr[n] \in (Held(n))'
        /\ \A k \in Node \ {n} : SameSpaces(k)
    BY <1>1, GiveFacts
  <1>3. Abs!Only(n)
    BY <1>1, <1>2, SameAreSame, OnlyOne
  <1>4. Up' = Up
    BY <1>1 DEF Up
  <1> QED BY <1>1, <1>2, <1>3, <1>4 DEF Abs!Give

\* The node runs no more.
LEMMA Stops ==
  ASSUME NEW n \in Node, pc'[n] # "up", \A k \in Node \ {n} : SameAbstract(k)
  PROVE  Abs!Stop(n)
  BY DEF SameAbstract, Up, Abs!Stop

\* check_neighbors takes a space back, or does nothing, or does not return.
LEMMA TakesBack ==
  ASSUME IInv, Control, Spaces, RecoverableIsFree, NEW n \in Node, NEW e \in neigh_table[n],
         CheckNeighbors(n, e)
  PROVE  [Abs!Recover(n) \/ Abs!Stop(n)]_Abs!vars
  <1>1. CASE Recovers(n, e)
    <2>1. /\ n \in Up /\ pc' = pc /\ prim_addr' = prim_addr /\ red_numero' = red_numero
          /\ \A k \in Node \ {n} : SameSpaces(k)
          /\ \A k \in Up : red_numero[k] = red_numero[n] => Held(k) \cap Space(e.addr, e.mask) = {}
          /\ (Held(n))' = Held(n) \cup Space(e.addr, e.mask)
      BY <1>1, RecoversFacts
    <2>2. Abs!Only(n)
      BY <2>1, SameAreSame, OnlyOne
    <2>3. Space(e.addr, e.mask) \subseteq Abs!Unclaimed(n, {red_numero[n]})
      <3>1. Space(e.addr, e.mask) \in SUBSET Addr
        BY DEF Space
      <3> QED BY <2>1, <3>1, NobodyClaims
    <2>4. Up' = Up
      BY <2>1 DEF Up
    <2>5. Abs!Recover(n)
      BY <2>1, <2>2, <2>3, <2>4 DEF Abs!Recover
    <2> QED BY <2>5
  <1>2. CASE ~Recovers(n, e)
    <2>1. /\ n \in Up /\ prim_addr' = prim_addr /\ prim_mask' = prim_mask
          /\ red_numero' = red_numero
          /\ rcvd_offered' = rcvd_offered /\ rcvd_addr' = rcvd_addr
          /\ \A k \in Node \ {n} : pc'[k] = pc[k]
          /\ pc'[n] = pc[n] \/ pc'[n] = "hung"
      BY <1>2 DEF CheckNeighbors, Recovers, IInv, JoinOK, Up
    <2>2. \A k \in Node : SameSpaces(k)
      BY <2>1 DEF SameSpaces
    <2>3. \A k \in Node \ {n} : SameAbstract(k)
      BY <2>1, <2>2, SameAreSame
    <2>4. CASE pc'[n] = pc[n]
      BY <2>1, <2>2, <2>3, <2>4, SameAreSame, Stutters
    <2>5. CASE pc'[n] = "hung"
      BY <2>3, <2>5, Stops
    <2> QED BY <2>1, <2>4, <2>5
  <1> QED BY <1>1, <1>2

LEMMA Crashes ==
  ASSUME IInv, NEW n \in Node, Crash(n)
  PROVE  Abs!Stop(n)
  <1>1. pc'[n] = "off" /\ \A k \in Node \ {n} : pc'[k] = pc[k]
        /\ SameSpaces(k) /\ red_numero'[k] = red_numero[k]
    BY FreshFacts DEF Crash, IInv, JoinOK
  <1>2. \A k \in Node \ {n} : SameAbstract(k)
    BY <1>1, SameAreSame
  <1> QED BY <1>1, <1>2, Stops

LEMMA StepRefines ==
  ASSUME OneByOne, AInv, AInv', RecoverableIsFree, NewNetworkIsNew, [Next]_vars
  PROVE  [Abs!Next]_Abs!vars
  <1>1. IInv /\ IInv' /\ Control /\ Spaces
    BY DEF AInv
  <1>2. ASSUME NEW n \in Node, NodeStep(n) PROVE [Abs!Next]_Abs!vars
    <2>1. \/ Abs!Take(n) \/ Abs!Give(n) \/ [Abs!Recover(n) \/ Abs!Stop(n)]_Abs!vars
      BY <1>1, <1>2, JoinStutters, ComesUp, GivesAway, TakesBack, Crashes DEF NodeStep
    <2> QED BY <2>1 DEF Abs!Next
  <1>3. CASE Idle
    BY <1>1, <1>3, IdleFacts, IdleStutters
  <1> QED BY <1>1, <1>2, <1>3, NextCases

(***************************************************************************)
(* The assignment implements AddressSpace: a PANC that is read, a network  *)
(* that is founded or restarted takes addresses that nobody administers,   *)
(* send_panc gives away, recover_addr_space takes back what is unclaimed,  *)
(* and no other step of the protocol changes who administers what.         *)
(***************************************************************************)
THEOREM SpecImplementsAddressSpace ==
  ASSUME OneByOne
  PROVE  Spec /\ [](RecoverableIsFree /\ NewNetworkIsNew) => ImplementsAddressSpace
  <1>1. Init => Abs!Init
    BY DEF Init, Abs!Init, Up
  <1>2. /\ AInv /\ AInv' /\ (RecoverableIsFree /\ NewNetworkIsNew) /\ [Next]_vars
        => [Abs!Next]_Abs!vars
    BY StepRefines
  <1> QED BY <1>1, <1>2, SpecAInv, PTL DEF Spec, ImplementsAddressSpace, Abs!Spec

\* hcb_address.c:571, where nodes join one by one: once the PANC is there the address may
\* be used, no other node of the network has it.
THEOREM SpecUniqueAddress ==
  ASSUME OneByOne
  PROVE  Spec /\ [](RecoverableIsFree /\ NewNetworkIsNew) => []UniqueAddress
  <1>1. AInv => UniqueAddress
    <2> SUFFICES ASSUME AInv, NEW m \in Up, NEW n \in Up, m # n,
                        red_numero[m] = red_numero[n]
                 PROVE  prim_addr[m] # prim_addr[n]
      BY DEF UniqueAddress
    <2>1. ASSUME NEW k \in Up PROVE prim_addr[k] \in Held(k)
      <3>1. prim_addr[k] \in Addr /\ prim_mask[k] \in Nat
        BY DEF AInv, IInv, JoinOK, SpaceOK, Mask, Up
      <3> QED BY <3>1, OwnSpace DEF Held
    <2>2. Held(m) \cap Held(n) = {}
      BY DEF AInv, Spaces, HeldApart
    <2> QED BY <2>1, <2>2
  <1> QED BY <1>1, SpecAInv, PTL

-----------------------------------------------------------------------------
(***************************************************************************)
(* Nobody stops, there is one network, and who hears a node is heard by    *)
(* it.                                                                     *)
(***************************************************************************)
Undisturbed ==
  /\ OneByOne /\ OneNetwork /\ MaxCrashes = 0
  /\ \A n, k \in Node : <<n, k>> \in Link => <<k, n>> \in Link

\* A node with address a is heard by n.
Heard(n, a) == \E k \in Up : <<k, n>> \in Link /\ prim_addr[k] = a

\* n hears p, and a/i is a half of the space of p that p can give away.
GivenBy(p, n, a, i) ==
  /\ <<p, n>> \in Link /\ i \in 1 .. Dim /\ prim_mask_inicial[p] < i
  /\ a = Flip(prim_addr[p], i - 1)

NothingRecovered ==
  \A n \in Node : pc[n] # "hung" /\ rcvd_addr[n] = <<>> /\ rcvd_offered[n] = NoAddr

OneNumber == \A n, k \in Up : red_numero[n] = red_numero[k]

\* Who joins has the root address.
AtRoot == \A n \in Joining : prim_addr[n] = Root

AlongLinks == \A m \in msgs : <<Client(m), Server(m)>> \in Link

\* Who is in a neighbour table is there, the false root of get_prim_addr's heartbeat included.
Entries == \A n \in Node : \A e \in neigh_table[n] : Heard(n, e.addr)

\* The bits of an address that its giver left alone are those of the root.
Tail1(n) ==
  \A b \in Bits : prim_mask_inicial[n] <= b => (b \in prim_addr[n] <=> b \in Root)

HasParent(n) == \E p \in Up : GivenBy(p, n, prim_addr[n], prim_mask_inicial[n])

\* Addresses make a tree, along the links.
Placed(n) ==
  /\ Tail1(n) /\ prim_mask_inicial[n] <= prim_mask[n]
  /\ prim_addr[n] = Root \/ HasParent(n)

Tree == \A n \in Up : Placed(n)

OfferedBy(n, o) ==
  \E p \in Up : /\ GivenBy(p, n, o.addr, o.mask)
               /\ o.owner = prim_addr[p] /\ o.red = red_numero[p]

OffersStand == \A n \in Joining : \A o \in Offers(n) : o.mask # 0 => OfferedBy(n, o)

Calm == /\ NothingRecovered /\ OneNumber /\ AtRoot /\ AlongLinks /\ Entries /\ Tree
        /\ OffersStand

\* Whoever is up stays up, with its address.
Stays ==
  \A k \in Up : /\ pc'[k] = "up" /\ prim_addr'[k] = prim_addr[k]
                /\ prim_mask_inicial'[k] = prim_mask_inicial[k]
                /\ red_numero'[k] = red_numero[k]
                /\ prim_mask'[k] \in Nat /\ prim_mask[k] <= prim_mask'[k]

\* So check_neighbors gives nobody up, and nobody is alone.
LEMMA EntriesAreNear ==
  ASSUME Calm, NEW n \in Up, NEW e \in neigh_table[n]
  PROVE  Near(n, e.addr)
  BY DEF Calm, Entries, Heard, OneNumber, Near, Up

LEMMA NobodyAlone ==
  ASSUME Undisturbed, Calm, NEW n \in Up, MayFound(n)
  PROVE  prim_addr[n] = Root
  BY LinkAssumption DEF Undisturbed, Calm, Tree, Placed, HasParent, GivenBy, MayFound, Up

LEMMA CalmHypotheses ==
  ASSUME Undisturbed, IInv, Calm
  PROVE  RecoverableIsFree /\ NewNetworkIsNew
  <1>1. RecoverableIsFree
    BY EntriesAreNear DEF RecoverableIsFree
  <1>2. ASSUME NEW n \in Node, MayFound(n), Collected(n), v_pap[n] = <<>>, NEW k \in Up
        PROVE  red_numero[k] # Mac[n]
    <2>1. k = n /\ pc[n] = "paps"
      BY <1>2 DEF MayFound, Undisturbed, Collected
    <2> QED BY <2>1 DEF Up
  <1>3. ASSUME NEW n \in Node, MayFound(n) PROVE ~(n \in Up /\ Alone(n))
    BY <1>3, NobodyAlone DEF Alone
  <1> QED BY <1>1, <1>2, <1>3 DEF NewNetworkIsNew

\* What does not happen.
LEMMA CalmSteps ==
  ASSUME Undisturbed, IInv, Calm, NEW n \in Node
  PROVE  /\ ~ResetAlone(n) /\ ~Crash(n)
         /\ \A e \in neigh_table[n] : ~CheckNeighbors(n, e)
  <1>1. ~ResetAlone(n)
    BY NobodyAlone DEF ResetAlone, Alone, Up
  <1>2. ~Crash(n)
    <2>1. crashes \in 0 .. 0 /\ MaxCrashes = 0
      BY DEF IInv, Undisturbed
    <2>2. ~(crashes < MaxCrashes)
      BY <2>1
    <2> QED BY <2>2 DEF Crash
  <1>3. \A e \in neigh_table[n] : ~CheckNeighbors(n, e)
    BY EntriesAreNear DEF CheckNeighbors, Up
  <1> QED BY <1>1, <1>2, <1>3

LEMMA StillHeard ==
  ASSUME IInv, Stays, NEW n \in Node, NEW a, Heard(n, a)
  PROVE  (Heard(n, a))'
  BY DEF Stays, Heard, Up

LEMMA StillGiven ==
  ASSUME Stays, NEW n, NEW a, NEW i, NEW p \in Up, GivenBy(p, n, a, i)
  PROVE  p \in Up' /\ (GivenBy(p, n, a, i))'
  BY DEF Stays, GivenBy, Up

LEMMA StillOffered ==
  ASSUME Stays, NEW n, NEW o, OfferedBy(n, o)
  PROVE  (OfferedBy(n, o))'
  <1>1. PICK p \in Up : /\ GivenBy(p, n, o.addr, o.mask)
                       /\ o.owner = prim_addr[p] /\ o.red = red_numero[p]
    BY DEF OfferedBy
  <1>2. p \in Up' /\ (GivenBy(p, n, o.addr, o.mask))'
    BY <1>1, StillGiven
  <1>3. prim_addr'[p] = prim_addr[p] /\ red_numero'[p] = red_numero[p]
    BY DEF Stays
  <1> QED BY <1>1, <1>2, <1>3 DEF OfferedBy

\* A node that stays keeps its place.
LEMMA StillPlaced ==
  ASSUME IInv, Stays, NEW n \in Up, Placed(n)
  PROVE  (Placed(n))'
  <1>1. /\ prim_addr'[n] = prim_addr[n] /\ prim_mask_inicial'[n] = prim_mask_inicial[n]
        /\ prim_mask'[n] \in Nat /\ prim_mask[n] <= prim_mask'[n]
        /\ prim_mask[n] \in Nat /\ prim_mask_inicial[n] \in Nat
    BY DEF Stays, IInv, JoinOK, SpaceOK, Mask, Up
  <1>2. (Tail1(n))' /\ prim_mask_inicial'[n] <= prim_mask'[n]
    BY <1>1 DEF Placed, Tail1
  <1>3. HasParent(n) => (HasParent(n))'
    BY <1>1, StillGiven DEF HasParent
  <1> QED BY <1>1, <1>2, <1>3 DEF Placed

\* Every step: who comes up has its place, tables and offers stand.
LEMMA StillCalm ==
  ASSUME IInv, Calm, Stays,
         rcvd_addr' = rcvd_addr, rcvd_offered' = rcvd_offered,
         \A k \in Node : pc'[k] # "hung",
         \A k \in Node : pc'[k] = "up" /\ pc[k] # "up" =>
           (Placed(k))' /\ \A j \in Up' : red_numero'[j] = red_numero'[k],
         \A k \in Node : pc'[k] \in {"paps", "panc"} => prim_addr'[k] = Root,
         \A m \in msgs' : <<Client(m), Server(m)>> \in Link,
         \A k \in Node : \A e \in neigh_table'[k] : e \in neigh_table[k] \/ Heard(k, e.addr),
         \A k \in Node : k \in Joining' => \A o \in (Offers(k))' :
           o.mask # 0 => (k \in Joining /\ o \in Offers(k)) \/ OfferedBy(k, o)
  PROVE  Calm'
  <1>1. Up \subseteq Up' /\ \A k \in Up' \ Up : pc'[k] = "up" /\ pc[k] # "up"
    BY DEF Stays, Up
  <1>2. NothingRecovered' /\ AtRoot' /\ AlongLinks'
    BY DEF Calm, NothingRecovered, AtRoot, AlongLinks, Joining
  <1>3. OneNumber'
    <2> SUFFICES ASSUME NEW k \in Up', NEW j \in Up' PROVE red_numero'[k] = red_numero'[j]
      BY DEF OneNumber
    <2>1. CASE k \in Up /\ j \in Up
      BY <2>1 DEF Stays, Calm, OneNumber
    <2>2. CASE k \notin Up \/ j \notin Up
      BY <2>2 DEF Up
    <2> QED BY <2>1, <2>2
  <1>4. Entries'
    <2>1. \A k \in Node : \A e \in neigh_table'[k] : Heard(k, e.addr)
      BY DEF Calm, Entries
    <2> QED BY <2>1, StillHeard DEF Entries
  <1>5. Tree'
    <2> SUFFICES ASSUME NEW k \in Up' PROVE (Placed(k))'
      BY DEF Tree
    <2>1. CASE k \in Up
      BY <2>1, StillPlaced DEF Calm, Tree
    <2>2. CASE k \notin Up
      BY <2>2 DEF Up
    <2> QED BY <2>1, <2>2
  <1>6. OffersStand'
    <2>1. ASSUME NEW k \in Joining', NEW o \in (Offers(k))', o.mask # 0 PROVE OfferedBy(k, o)
      <3>1. (k \in Joining /\ o \in Offers(k)) \/ OfferedBy(k, o)
        BY <2>1 DEF Joining
      <3> QED BY <2>1, <3>1 DEF Calm, OffersStand
    <2> QED BY <2>1, StillOffered DEF OffersStand
  <1> QED BY <1>2, <1>3, <1>4, <1>5, <1>6 DEF Calm

\* A step with which nothing changes for who is up.
LEMMA Quiet ==
  ASSUME IInv,
         \A k \in Node : pc[k] = "up" =>
           /\ pc'[k] = "up" /\ prim_addr'[k] = prim_addr[k] /\ prim_mask'[k] = prim_mask[k]
           /\ prim_mask_inicial'[k] = prim_mask_inicial[k] /\ red_numero'[k] = red_numero[k]
  PROVE  Stays
  <1>1. \A k \in Node : prim_mask[k] \in Nat
    BY DEF IInv, SpaceOK, Mask
  <1> QED BY <1>1 DEF Stays, Up

LEMMA ParLinks ==
  ASSUME NEW n \in Node
  PROVE  /\ \A m \in Par(n) : <<Client(m), Server(m)>> \in Link
         /\ \A pap : \A m \in Pan(n, pap) : <<Client(m), Server(m)>> \in Link
  <1>1. \A k \in Listeners(n) : <<n, k>> \in Link
    BY DEF Listeners
  <1>2. ASSUME NEW m \in Par(n) PROVE <<Client(m), Server(m)>> \in Link
    <2>1. PICK k \in Listeners(n) : m = [type |-> "PAR", src |-> n, dst |-> k]
      BY DEF Par
    <2>2. Client(m) = n /\ Server(m) = k
      BY <2>1 DEF Client, Server
    <2> QED BY <1>1, <2>2
  <1>3. ASSUME NEW pap, NEW m \in Pan(n, pap) PROVE <<Client(m), Server(m)>> \in Link
    <2>1. PICK k \in Listeners(n) :
            m = [type |-> "PAN", src |-> n, dst |-> k,
                 owner |-> pap.owner, addr |-> pap.addr, red |-> pap.red]
      BY DEF Pan
    <2>2. Client(m) = n /\ Server(m) = k
      BY <2>1 DEF Client, Server
    <2> QED BY <1>1, <2>2
  <1> QED BY <1>2, <1>3

LEMMA BootCalm ==
  ASSUME OneByOne, IInv, Control, Calm, NEW n \in Node, Boot(n)
  PROVE  Calm'
  <1>1. /\ pc[n] = "off" /\ pc'[n] = "paps" /\ \A k \in Node \ {n} : pc'[k] = pc[k]
        /\ msgs' = msgs \cup Par(n) /\ msgs = {} /\ Fresh(n)
    BY DEF Boot, OneByOne, IInv, JoinOK
  <1>2. Joining = {}
    BY BootControl
  <1>3. /\ prim_addr'[n] = Root /\ neigh_table'[n] = {}
        /\ \A k \in Node \ {n} : /\ prim_addr'[k] = prim_addr[k]
                                /\ prim_mask'[k] = prim_mask[k]
                                /\ prim_mask_inicial'[k] = prim_mask_inicial[k]
                                /\ red_numero'[k] = red_numero[k]
                                /\ neigh_table'[k] = neigh_table[k]
        /\ rcvd_addr' = rcvd_addr /\ rcvd_offered' = rcvd_offered
    BY <1>1 DEF Fresh, IInv, JoinOK, SpaceOK, TableOK, Calm, NothingRecovered
  <1>4. Stays
    BY <1>1, <1>3, Quiet
  <1>5. \A o \in (Offers(n))' : o.mask = 0
    <2>1. \A m \in msgs' : m.type = "PAR"
      BY <1>1 DEF Par
    <2>2. \A o \in (Offers(n))' : o = NoPap
      BY <1>1, <2>1, FreshFacts DEF Offers
    <2> QED BY <2>2 DEF NoPap
  <1>6. \A k \in Node : k \in Joining' => k = n
    BY <1>1, <1>2 DEF Joining
  <1>7. \A k \in Node : pc'[k] # "hung" /\ (pc'[k] = "up" => pc[k] = "up")
    BY <1>1 DEF Calm, NothingRecovered
  <1>8. \A m \in msgs' : <<Client(m), Server(m)>> \in Link
    BY <1>1, ParLinks
  <1>9. \A k \in Node : pc'[k] \in {"paps", "panc"} => prim_addr'[k] = Root
    BY <1>3, <1>6 DEF Joining
  <1>10. \A k \in Node : \A e \in neigh_table'[k] : e \in neigh_table[k]
    BY <1>3
  <1> QED BY <1>3, <1>4, <1>5, <1>6, <1>7, <1>8, <1>9, <1>10, StillCalm

LEMMA JoinCalm ==
  ASSUME OneByOne, IInv, Control, Calm, NEW n \in Node,
         SendPan(n) \/ \E m \in msgs : ReceiveOffer(n, m)
  PROVE  Calm'
  <1>1. /\ pc[n] \in {"paps", "panc"} /\ pc'[n] \in {"paps", "panc"}
        /\ \A k \in Node \ {n} : pc'[k] = pc[k] /\ red_numero'[k] = red_numero[k]
        /\ prim_addr' = prim_addr /\ prim_mask_inicial' = prim_mask_inicial
        /\ UNCHANGED spaceVars /\ neigh_table' = neigh_table
    BY DEF SendPan, Collected, ReceiveOffer, IInv, JoinOK
  <1>2. rcvd_addr' = rcvd_addr /\ rcvd_offered' = rcvd_offered /\ prim_mask' = prim_mask
    BY <1>1 DEF spaceVars
  <1>3. Stays
    BY <1>1, <1>2, Quiet
  <1>4. NoMoreOffers
    BY SendPanOffers, ReceiveOfferOffers
  <1>5. \A k \in Node : pc'[k] # "hung" /\ (pc'[k] = "up" => pc[k] = "up")
    BY <1>1 DEF Calm, NothingRecovered
  <1>6. \A m \in msgs' : <<Client(m), Server(m)>> \in Link
    <2>1. CASE SendPan(n)
      BY <2>1, ParLinks DEF SendPan, Calm, AlongLinks
    <2>2. CASE \E m \in msgs : ReceiveOffer(n, m)
      BY <2>2 DEF ReceiveOffer, Calm, AlongLinks
    <2> QED BY <2>1, <2>2
  <1>7. \A k \in Node : pc'[k] \in {"paps", "panc"} => prim_addr'[k] = Root
    BY <1>1 DEF Calm, AtRoot, Joining
  <1> QED BY <1>1, <1>2, <1>3, <1>4, <1>5, <1>6, <1>7, StillCalm DEF NoMoreOffers
LEMMA FoundCalm ==
  ASSUME Undisturbed, IInv, Control, Calm, NEW n \in Node, Found(n)
  PROVE  Calm'
  <1>1. msgs = {} /\ pc[n] = "paps" /\ MayFound(n)
    BY FoundControl DEF Found, Undisturbed
  <1>2. Up = {} /\ Joining = {n}
    <2>1. Up \subseteq {n} /\ n \in Joining
      BY <1>1 DEF MayFound, Undisturbed, Joining
    <2> QED BY <1>1, <2>1 DEF Up, Control, OneJoiner
  <1>3. /\ pc'[n] = "up" /\ \A k \in Node \ {n} : pc'[k] = pc[k]
        /\ prim_addr' = prim_addr /\ prim_mask'[n] = 0 /\ prim_mask_inicial'[n] = 0
        /\ rcvd_addr' = rcvd_addr /\ rcvd_offered' = rcvd_offered
        /\ neigh_table' = neigh_table /\ msgs' = msgs
    BY DEF Found, IInv, JoinOK, SpaceOK
  <1>4. Stays
    BY <1>2 DEF Stays
  <1>5. prim_addr'[n] = Root
    BY <1>2, <1>3 DEF Calm, AtRoot
  <1>6. (Placed(n))'
    BY <1>3, <1>5 DEF Placed, Tail1
  <1>7. \A k \in Node : k \in Up' => k = n
    BY <1>2, <1>3 DEF Up
  <1>8. \A k \in Node : k \notin Joining' /\ pc'[k] \notin {"hung", "paps", "panc"}
    BY <1>2, <1>3 DEF Joining, Calm, NothingRecovered
  <1>9. \A k \in Node : pc'[k] = "up" /\ pc[k] # "up" =>
          (Placed(k))' /\ \A j \in Up' : red_numero'[j] = red_numero'[k]
    BY <1>6, <1>7 DEF Up
  <1> QED BY <1>1, <1>3, <1>4, <1>8, <1>9, StillCalm

\* A node that answers has a link in both directions.
LEMMA AnswerCalm ==
  ASSUME Undisturbed, IInv, Control, Calm, NEW n \in Node, NEW m \in msgs,
         ReceivePar(n, m) \/ ReceivePan(n, m)
  PROVE  Calm'
  <1>1. pc[n] = "up" /\ UNCHANGED joinVars
    BY ReceiveParFacts, ReceivePanFacts
  <1>2. /\ pc' = pc /\ prim_addr' = prim_addr /\ prim_mask_inicial' = prim_mask_inicial
        /\ red_numero' = red_numero /\ v_pap' = v_pap /\ chosen' = chosen
    BY <1>1 DEF joinVars
  <1>3. /\ m.dst = n /\ m.type \in {"PAR", "PAN"} /\ <<m.src, n>> \in Link /\ m.src \in Node
    <2>1. m.dst = n /\ m.type \in {"PAR", "PAN"} /\ m.src \in Node
      BY MessageFields DEF ReceivePar, ReceivePan, Reads, IInv, FlightOK
    <2>2. Client(m) = m.src /\ Server(m) = n
      BY <2>1 DEF Client, Server
    <2> QED BY <2>1, <2>2 DEF Calm, AlongLinks
  <1>4. /\ rcvd_addr' = rcvd_addr /\ rcvd_offered' = rcvd_offered
        /\ neigh_table' = neigh_table
        /\ \A k \in Node : prim_mask'[k] \in Nat /\ prim_mask[k] <= prim_mask'[k]
    <2>1. /\ rcvd_addr[n] = <<>> /\ rcvd_offered[n] = NoAddr
          /\ \A k \in Node : prim_mask[k] \in Nat
          /\ prim_mask \in [Node -> Nat]
      BY DEF Calm, NothingRecovered, IInv, SpaceOK, Mask
    <2>2. CASE ReceivePar(n, m)
      BY <2>1, <2>2 DEF ReceivePar, OffersRecovered, IInv, SpaceOK
    <2>3. CASE ReceivePan(n, m)
      <3>1. ~ChoseRecovered(n, m)
        BY <2>1 DEF ChoseRecovered
      <3>2. /\ prim_mask' = [prim_mask EXCEPT ![n] = @ + 1] /\ UNCHANGED rcvd_addr
            /\ UNCHANGED <<rcvd_offered, neigh_table>>
        BY <2>3, <3>1 DEF ReceivePan, GiveAway
      <3> QED BY <2>1, <3>2
    <2> QED BY <2>2, <2>3
  <1>5. Stays
    BY <1>2, <1>4 DEF Stays, Up
  <1>6. PICK a : /\ msgs' = (msgs \ {m}) \cup {a} /\ a.type \in {"PAP", "PANC"}
                 /\ Client(a) = m.src /\ Server(a) = n /\ a.dst = m.src
                 /\ a.type = "PAP" => a.pap = PapOf(n)
    <2>1. CASE ReceivePar(n, m)
      <3> DEFINE b == [type |-> "PAP", src |-> n, dst |-> m.src, pap |-> PapOf(n)]
      <3>1. msgs' = (msgs \ {m}) \cup {b}
        BY <2>1, ReceiveParFacts
      <3>2. /\ b.type = "PAP" /\ b.dst = m.src /\ b.pap = PapOf(n)
            /\ Client(b) = m.src /\ Server(b) = n
        BY DEF Client, Server
      <3> HIDE DEF b
      <3> QED BY <3>1, <3>2
    <2>2. CASE ReceivePan(n, m)
      <3> DEFINE b == [type |-> "PANC", src |-> n, dst |-> m.src, owner |-> m.owner]
      <3>1. msgs' = (msgs \ {m}) \cup {b}
        BY <2>2, ReceivePanFacts
      <3>2. b.type = "PANC" /\ b.dst = m.src /\ Client(b) = m.src /\ Server(b) = n
        BY DEF Client, Server
      <3> HIDE DEF b
      <3> QED BY <3>1, <3>2
    <2> QED BY <2>1, <2>2
  <1>7. \A x \in msgs' : <<Client(x), Server(x)>> \in Link
    BY <1>3, <1>6 DEF Calm, AlongLinks
  <1>8. PapOf(n).mask # 0 => OfferedBy(m.src, PapOf(n))
    <2> SUFFICES ASSUME PapOf(n).mask # 0 PROVE OfferedBy(m.src, PapOf(n))
      OBVIOUS
    <2>1. /\ prim_mask[n] \in Nat /\ prim_mask[n] < Dim
          /\ Offer(n) = [addr |-> Flip(prim_addr[n], prim_mask[n]), mask |-> prim_mask[n] + 1]
      <3>1. rcvd_addr[n] = <<>> /\ prim_mask[n] \in Nat
        BY DEF Calm, NothingRecovered, IInv, SpaceOK, Mask
      <3> QED BY <3>1, DimAssumption DEF PapOf, Offer, OffersRecovered
    <2>2. /\ PapOf(n).addr = Flip(prim_addr[n], prim_mask[n])
          /\ PapOf(n).mask = prim_mask[n] + 1
          /\ PapOf(n).owner = prim_addr[n] /\ PapOf(n).red = red_numero[n]
      BY <2>1 DEF PapOf
    <2>3. <<n, m.src>> \in Link
      BY <1>3 DEF Undisturbed
    <2>4. n \in Up /\ prim_mask_inicial[n] <= prim_mask[n] /\ prim_mask_inicial[n] \in Nat
      BY <1>1 DEF Up, Calm, Tree, Placed, IInv, JoinOK, Mask
    <2>5. /\ prim_mask[n] + 1 \in 1 .. Dim /\ prim_mask_inicial[n] < prim_mask[n] + 1
          /\ (prim_mask[n] + 1) - 1 = prim_mask[n]
      BY <2>1, <2>4, DimAssumption
    <2>6. GivenBy(n, m.src, PapOf(n).addr, PapOf(n).mask)
      BY <2>2, <2>3, <2>5 DEF GivenBy
    <2> QED BY <2>2, <2>4, <2>6 DEF OfferedBy
  <1>9. ASSUME NEW k \in Node, k \in Joining', NEW o \in (Offers(k))', o.mask # 0
        PROVE  (k \in Joining /\ o \in Offers(k)) \/ OfferedBy(k, o)
    <2>1. k \in Joining
      BY <1>2, <1>9 DEF Joining
    <2>2. CASE o \in {x.pap : x \in {y \in msgs' : y.type = "PAP" /\ y.dst = k}}
      <3>1. PICK x \in msgs' : x.type = "PAP" /\ x.dst = k /\ o = x.pap
        BY <2>2
      <3>2. CASE x \in msgs
        BY <2>1, <3>1, <3>2 DEF Offers
      <3>3. CASE x = a
        BY <1>6, <1>8, <1>9, <3>1, <3>3
      <3> QED BY <1>6, <3>2, <3>3
    <2>3. CASE o \notin {x.pap : x \in {y \in msgs' : y.type = "PAP" /\ y.dst = k}}
      BY <1>2, <1>9, <2>1, <2>3 DEF Offers
    <2> QED BY <2>2, <2>3
  <1>10. \A k \in Node : pc'[k] # "hung" /\ (pc'[k] = "up" => pc[k] = "up")
    BY <1>2 DEF Calm, NothingRecovered
  <1>11. \A k \in Node : pc'[k] \in {"paps", "panc"} => prim_addr'[k] = Root
    BY <1>2 DEF Calm, AtRoot, Joining
  <1> QED BY <1>4, <1>5, <1>7, <1>9, <1>10, <1>11, StillCalm

\* The heartbeat that get_prim_addr sends before it has an address is only taken by
\* children of the root, who have the root in their tables anyway.
LEMMA NextToRoot ==
  ASSUME IInv, Calm, NEW n \in Up, prim_addr[n] # Root, Dist(prim_addr[n], Root) = 1
  PROVE  Heard(n, Root)
  <1>1. PICK p \in Up : GivenBy(p, n, prim_addr[n], prim_mask_inicial[n])
    BY DEF Calm, Tree, Placed, HasParent
  <1>2. /\ prim_addr[n] \in Addr /\ prim_addr[p] \in Addr /\ Root \in Addr
        /\ prim_mask_inicial[n] \in Nat /\ prim_mask_inicial[p] \in Nat
    BY RootType DEF IInv, JoinOK, Mask, Up
  <1>3. PICK b \in Bits : /\ b = prim_mask_inicial[n] - 1 /\ prim_mask_inicial[p] <= b
                         /\ prim_mask_inicial[n] > b
    BY <1>1, <1>2, DimAssumption DEF GivenBy, Bits
  <1>4. prim_addr[n] = Flip(prim_addr[p], b) /\ <<p, n>> \in Link
    BY <1>1, <1>3 DEF GivenBy
  <1>5. b \in prim_addr[p] <=> b \in Root
    BY <1>3 DEF Calm, Tree, Placed, Tail1
  <1>6. b \in Diff(prim_addr[n], Root)
    BY <1>2, <1>4, <1>5, FlipOne DEF Diff
  <1>7. Diff(prim_addr[n], Root) = {b}
    <2>0. IsFiniteSet(Bits)
      <3>1. 0 \in Int /\ Dim - 1 \in Int
        BY DimAssumption
      <3> QED BY <3>1, FS_Interval DEF Bits
    <2>1. Diff(prim_addr[n], Root) \subseteq Bits
      BY <1>2 DEF Addr, Diff
    <2>2. IsFiniteSet(Diff(prim_addr[n], Root))
      BY <2>0, <2>1, FS_Subset
    <2>3. PICK x : Diff(prim_addr[n], Root) = {x}
      BY <2>2, FS_Singleton DEF Dist
    <2> QED BY <1>6, <2>3
  <1>8. prim_addr[p] = Root
    <2>1. \A x \in Bits : x \in prim_addr[p] <=> x \in Root
      BY <1>2, <1>4, <1>5, <1>7, FlipOne DEF Diff
    <2> QED BY <1>2, <2>1 DEF Addr
  <1> QED BY <1>4, <1>8 DEF Heard

LEMMA IdleTables ==
  ASSUME Idle, NEW j \in Node, NEW e \in neigh_table'[j], IInv
  PROVE  e \in neigh_table[j] \/ Heard(j, e.addr)
  <1>1. ASSUME NEW k \in Node, NEW n \in Node, HearHb(k, n)
        PROVE  e \in neigh_table[j] \/ Heard(j, e.addr)
    <2>1. CASE neigh_table' = neigh_table
      BY <2>1
    <2>2. CASE neigh_table' = [neigh_table EXCEPT
                 ![k] = AddNeighbor(@, prim_addr[n], prim_mask_inicial[n])]
      <3>1. n \in Up /\ <<n, k>> \in Link
        BY <1>1 DEF HearHb, Up
      <3>2. \/ e \in neigh_table[j]
            \/ j = k /\ e = [addr |-> prim_addr[n], mask |-> prim_mask_inicial[n]]
        BY <2>2 DEF AddNeighbor, IInv, TableOK
      <3> QED BY <3>1, <3>2 DEF Heard
    <2> QED BY <1>1, <2>1, <2>2 DEF HearHb
  <1>2. \/ \E k, n \in Node : HearHb(k, n)
        \/ neigh_table' = neigh_table
    BY DEF Idle, PancTimeout, ReceiveOtherPap, ReceiveOtherPan, ReceiveOtherPanc, Lose, vars
  <1> QED BY <1>1, <1>2

LEMMA IdleCalm ==
  ASSUME IInv, Calm, Idle
  PROVE  Calm'
  <1>1. IdleStep
    BY IdleFacts
  <1>2. Stays
    BY <1>1, IdleEffect, Quiet
  <1>3. NoMoreOffers /\ rcvd_addr' = rcvd_addr /\ rcvd_offered' = rcvd_offered
    BY <1>1, IdleEffect
  <1>4. \A k \in Node : pc'[k] # "hung" /\ (pc'[k] = "up" => pc[k] = "up")
    BY <1>1, IdleEffect DEF Calm, NothingRecovered
  <1>5. \A k \in Node : pc'[k] \in {"paps", "panc"} => prim_addr'[k] = Root
    <2>1. \A k \in Node : pc'[k] = pc[k] \/ (pc[k] = "panc" /\ pc'[k] = "paps")
      BY <1>1, IdleEffect
    <2>2. prim_addr' = prim_addr
      BY <1>1, IdleEffect
    <2> QED BY <2>1, <2>2 DEF Calm, AtRoot, Joining
  <1>6. \A m \in msgs' : <<Client(m), Server(m)>> \in Link
    <2>1. \A m \in msgs' : m \in msgs \/ \E n \in Node : m \in Par(n)
      BY <1>1, IdleEffect
    <2> QED BY <2>1, ParLinks DEF Calm, AlongLinks
  <1> QED BY <1>2, <1>3, <1>4, <1>5, <1>6, IdleTables, StillCalm DEF NoMoreOffers

\* The PANC: n comes up next to the node that made the offer.
LEMMA ReceivePancCalm ==
  ASSUME IInv, Control, Calm, NEW n \in Node, NEW m \in msgs, ReceivePanc(n, m)
  PROVE  Calm'
  <1>1. PICK o \in Pap : o = chosen[n]
    BY DEF IInv, JoinOK
  <1>2. /\ pc[n] = "panc" /\ n \in Joining /\ m.owner = o.owner
        /\ o.mask # 0 /\ red_numero[n] = o.red /\ o.addr \in Addr /\ o.mask \in Nat
    BY <1>1 DEF ReceivePanc, Control, ChosenStands, Joining, IInv, JoinOK, Pap, Mask
  <1>3. PICK p \in Up : /\ GivenBy(p, n, o.addr, o.mask)
                       /\ o.owner = prim_addr[p] /\ o.red = red_numero[p]
    BY <1>1, <1>2 DEF Calm, OffersStand, OfferedBy, Offers
  <1>4. /\ pc'[n] = "up" /\ \A k \in Node \ {n} : pc'[k] = pc[k]
        /\ prim_addr'[n] = o.addr /\ prim_mask'[n] = o.mask
        /\ prim_mask_inicial'[n] = o.mask
        /\ \A k \in Node \ {n} : /\ prim_addr'[k] = prim_addr[k]
                                /\ prim_mask'[k] = prim_mask[k]
                                /\ prim_mask_inicial'[k] = prim_mask_inicial[k]
        /\ red_numero' = red_numero /\ rcvd_addr' = rcvd_addr
        /\ rcvd_offered' = rcvd_offered /\ msgs' \subseteq msgs
    BY <1>1 DEF ReceivePanc, IInv, JoinOK, SpaceOK
  <1>5. Stays
    BY <1>2, <1>4, Quiet
  <1>6. (Placed(n))'
    <2>1. p \in Up' /\ (GivenBy(p, n, o.addr, o.mask))'
      BY <1>3, <1>5, StillGiven
    <2>2. (HasParent(n))'
      BY <1>4, <2>1 DEF HasParent
    <2>3. ASSUME NEW b \in Bits, o.mask <= b PROVE b \in o.addr <=> b \in Root
      <3>1. /\ prim_addr[p] \in Addr /\ prim_mask_inicial[p] \in Nat /\ b \in Nat
            /\ o.mask \in 1 .. Dim /\ prim_mask_inicial[p] < o.mask
            /\ o.addr = Flip(prim_addr[p], o.mask - 1)
        BY <1>3, DimAssumption DEF GivenBy, IInv, JoinOK, Mask, Up, Bits
      <3>2. prim_mask_inicial[p] <= b /\ o.mask - 1 \in Bits /\ b # o.mask - 1
        BY <2>3, <3>1, DimAssumption DEF Bits
      <3>3. b \in prim_addr[p] <=> b \in Root
        BY <3>2 DEF Calm, Tree, Placed, Tail1
      <3>4. b \in o.addr <=> b \in prim_addr[p]
        BY <3>1, <3>2, FlipOne
      <3> QED BY <3>3, <3>4
    <2>4. (Tail1(n))'
      BY <1>4, <2>3 DEF Tail1
    <2>5. prim_mask_inicial'[n] <= prim_mask'[n]
      BY <1>2, <1>4
    <2> QED BY <2>2, <2>4, <2>5 DEF Placed
  <1>7. \A k \in Node : pc'[k] = "up" /\ pc[k] # "up" =>
          (Placed(k))' /\ \A j \in Up' : red_numero'[j] = red_numero'[k]
    <2>1. \A j \in Up' : j = n \/ j \in Up
      BY <1>4 DEF Up
    <2>2. \A j \in Up' : red_numero'[j] = red_numero'[n]
      BY <1>2, <1>3, <1>4, <2>1 DEF Calm, OneNumber
    <2> QED BY <1>4, <1>6, <2>2
  <1>8. ASSUME NEW k \in Node, NEW e \in neigh_table'[k]
        PROVE  e \in neigh_table[k] \/ Heard(k, e.addr)
    <2>1. PICK hear \in SUBSET {j \in Node : /\ <<n, j>> \in Link /\ pc[j] = "up"
                                            /\ Accepts(j, Root, red_numero[n])},
               own \in {neigh_table[n]} \cup
                 {AddNeighbor(neigh_table[n], m.owner, g) :
                    g \in {x \in StackMasks : m.owner # prim_addr[n]}} :
            neigh_table' = [j \in Node |->
              IF j = n THEN own
              ELSE IF j \in hear THEN AddNeighbor(neigh_table[j], Root, prim_mask_inicial[n])
              ELSE neigh_table[j]]
      BY DEF ReceivePanc
    <2>2. CASE k = n
      <3>1. e \in own
        BY <2>1, <2>2
      <3>2. e \in neigh_table[n] \/ \E g : e = [addr |-> m.owner, mask |-> g]
        BY <3>1 DEF AddNeighbor
      <3>3. Heard(n, m.owner)
        BY <1>2, <1>3 DEF Heard, GivenBy
      <3> QED BY <2>2, <3>2, <3>3
    <2>3. CASE k # n /\ k \in hear
      <3>1. e \in AddNeighbor(neigh_table[k], Root, prim_mask_inicial[n])
        BY <2>1, <2>3
      <3>2. e \in neigh_table[k] \/ e = [addr |-> Root, mask |-> prim_mask_inicial[n]]
        BY <3>1 DEF AddNeighbor
      <3>3. k \in Up /\ prim_addr[k] # Root /\ Dist(prim_addr[k], Root) = 1
        BY <2>3 DEF Accepts, Up
      <3> QED BY <3>2, <3>3, NextToRoot
    <2>4. CASE k # n /\ k \notin hear
      BY <2>1, <2>4
    <2> QED BY <2>2, <2>3, <2>4
  <1>9. \A k \in Node : k \notin Joining' /\ pc'[k] \notin {"hung", "paps", "panc"}
    BY <1>2, <1>4 DEF Joining, Control, OneJoiner, Calm, NothingRecovered
  <1>10. \A x \in msgs' : <<Client(x), Server(x)>> \in Link
    BY <1>4 DEF Calm, AlongLinks
  <1> QED BY <1>4, <1>5, <1>7, <1>8, <1>9, <1>10, StillCalm

LEMMA StepCalm ==
  ASSUME Undisturbed, IInv, Control, Calm, [Next]_vars
  PROVE  Calm'
  <1>1. ASSUME NEW n \in Node, NodeStep(n) PROVE Calm'
    <2>1. OneByOne
      BY DEF Undisturbed
    <2>2. \/ Boot(n) \/ SendPan(n) \/ Found(n)
          \/ \E m \in msgs : \/ ReceivePar(n, m) \/ ReceiveOffer(n, m)
                             \/ ReceivePan(n, m) \/ ReceivePanc(n, m)
      BY <1>1, CalmSteps DEF NodeStep
    <2> QED BY <2>1, <2>2, BootCalm, JoinCalm, FoundCalm, AnswerCalm, ReceivePancCalm
  <1> QED BY <1>1, NextCases, IdleCalm

LEMMA InitCalm ==
  ASSUME Init
  PROVE  Calm
  <1>1. /\ Up = {} /\ Joining = {} /\ msgs = {}
        /\ \A n \in Node : /\ pc[n] = "off" /\ rcvd_addr[n] = <<>>
                            /\ rcvd_offered[n] = NoAddr /\ neigh_table[n] = {}
    BY DEF Init, Up, Joining
  <1> QED BY <1>1 DEF Calm, NothingRecovered, OneNumber, AtRoot, AlongLinks, Entries, Tree,
                      OffersStand

\* Where nobody stops, the two premises of SpecImplementsAddressSpace hold: what
\* recover_addr_space would take back is free, and a network that is founded is new.
THEOREM UndisturbedHypotheses ==
  ASSUME Undisturbed
  PROVE  Spec => [](RecoverableIsFree /\ NewNetworkIsNew)
  <1>1. OneByOne
    BY DEF Undisturbed
  <1>2. Init => IInv /\ Control /\ Calm
    BY InitIInv, InitControlSpaces, InitCalm
  <1>3. IInv /\ Control /\ Calm /\ [Next]_vars => (IInv /\ Control /\ Calm)'
    BY <1>1, StepIInv, StepControl, StepCalm
  <1>4. IInv /\ Control /\ Calm => RecoverableIsFree /\ NewNetworkIsNew
    BY CalmHypotheses
  <1> QED BY <1>2, <1>3, <1>4, PTL DEF Spec

(***************************************************************************)
(* Where nobody stops, the assignment implements AddressSpace, for every   *)
(* number of nodes that the vector of PAPs has room for, any links that    *)
(* work both ways, any dimension, and any value of the fields that         *)
(* get_prim_addr leaves uninitialised; no two nodes have the same address. *)
(***************************************************************************)
THEOREM UndisturbedImplements ==
  ASSUME Undisturbed
  PROVE  Spec => ImplementsAddressSpace /\ []UniqueAddress
  <1>1. OneByOne
    BY DEF Undisturbed
  <1>2. Spec /\ [](RecoverableIsFree /\ NewNetworkIsNew) => ImplementsAddressSpace
    BY <1>1, SpecImplementsAddressSpace
  <1>3. Spec /\ [](RecoverableIsFree /\ NewNetworkIsNew) => []UniqueAddress
    BY <1>1, SpecUniqueAddress
  <1>4. Spec => [](RecoverableIsFree /\ NewNetworkIsNew)
    BY UndisturbedHypotheses
  <1> QED BY <1>2, <1>3, <1>4, PTL

(***************************************************************************)
(* And no node takes back the space of a neighbour, or gets caught in      *)
(* check_succesor, whatever heartbeats were lost while it joined, although *)
(* get_prim_addr announces the root address before it has one.             *)
(***************************************************************************)
THEOREM UndisturbedNothingRecovered ==
  ASSUME Undisturbed
  PROVE  Spec => []NothingRecovered
  <1>1. OneByOne
    BY DEF Undisturbed
  <1>2. Init => IInv /\ Control /\ Calm
    BY InitIInv, InitControlSpaces, InitCalm
  <1>3. IInv /\ Control /\ Calm /\ [Next]_vars => (IInv /\ Control /\ Calm)'
    BY <1>1, StepIInv, StepControl, StepCalm
  <1>4. IInv /\ Control /\ Calm => NothingRecovered
    BY DEF Calm
  <1> QED BY <1>2, <1>3, <1>4, PTL DEF Spec
=============================================================================
