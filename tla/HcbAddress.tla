----------------------------- MODULE HcbAddress -----------------------------
(***************************************************************************)
(* How a node obtains its primary address (hcb_address.c), and how the     *)
(* space of a neighbour that went away is recovered and offered again      *)
(* (heart_beat.c).                                                         *)
(*                                                                         *)
(*   joiner                                  proposer                      *)
(*     -- PAR  (multicast) -->                 offers half of what it has  *)
(*     <-- PAP (address, mask, network) --     nothing is reserved         *)
(*     -- PAN  (multicast: proposer, chosen)-> gives the space away        *)
(*     <-- PANC --                             the address may be used     *)
(*                                                                         *)
(* get_prim_addr blocks the joiner in two select loops ("paps", "panc"),   *)
(* but antop_socket_read already hands every packet to antop_process_pkt,  *)
(* so a joiner also answers the packets of others, with the root address   *)
(* and mask 0 it starts from.                                              *)
(*                                                                         *)
(* One radio link is a pair of Link.  The network loses and reorders       *)
(* datagrams; a heartbeat, sent every five seconds, is received at once or *)
(* lost.  Merging and fragmentation of networks, and secondary addresses,  *)
(* are not part of this module.                                            *)
(***************************************************************************)
EXTENDS Hypercube, Sequences

CONSTANTS
  Node,
  Link,         \* Link \subseteq Node \X Node: who hears whom
  Mac,          \* Mac[n]: mac_address() of n, the number of a network n founds
  NoAddr,       \* rcvd_offered when it is NULL, and the fields of a PAP without offer
  MaxRcvdPap,   \* MAX_RCVD_PAP
  StackMasks,   \* t_lenght of the heartbeat that get_prim_addr leaves uninitialised
  MaxJoining,   \* how many nodes are in get_prim_addr at the same time
  Prompt,       \* TRUE: answers that are not lost arrive before T_PAP and T_PANC
  OneNetwork,   \* TRUE: nobody founds a second network while there is one
  MaxCrashes    \* bound on the crashes of a behaviour

ASSUME LinkAssumption == Link \subseteq Node \X Node /\ \A n \in Node : <<n, n>> \notin Link
ASSUME MacAssumption == Mac \in [Node -> Nat \ {0}]
ASSUME NoAddrAssumption == NoAddr \notin Addr
ASSUME BoundsAssumption ==
  /\ MaxRcvdPap \in Nat \ {0}
  /\ MaxJoining \in Nat
  /\ MaxCrashes \in Nat
  /\ StackMasks \subseteq Nat
  /\ Prompt \in BOOLEAN
  /\ OneNetwork \in BOOLEAN

VARIABLES
  pc,                 \* where the node is: off, one of the two waits of
                      \* get_prim_addr, the main loop, or caught in check_succesor
  prim_addr,          \* prim_addr[n]
  prim_mask,          \* prim_mask[n]: the bits of prim_addr that are spoken for
  prim_mask_inicial,  \* prim_mask when the address was obtained
  red_numero,         \* the number of the network the node is in
  flag_conexion,      \* set while the node is obtaining its address
  v_pap,              \* the PAPs received since the last PAR, while in "paps"
  chosen,             \* the PAP that was answered with a PAN, while in "panc"
  rcvd_addr,          \* the list of recovered address spaces
  rcvd_offered,       \* the recovered address that was offered, or NoAddr
  neigh_table,        \* the neighbours: address and initial mask of each
  msgs,               \* the datagrams in flight
  crashes             \* how many crashes there have been

joinVars  == <<pc, prim_addr, prim_mask_inicial, red_numero, flag_conexion, v_pap, chosen>>
spaceVars == <<prim_mask, rcvd_addr, rcvd_offered>>
vars == <<joinVars, spaceVars, neigh_table, msgs, crashes>>

Red == {0} \cup {Mac[n] : n \in Node}
Mask == Nat
Recovered == [addr : Addr, mask : Mask]
NoPap == [owner |-> {}, addr |-> NoAddr, mask |-> 0, red |-> 0]
Pap == [owner : Addr, addr : Addr \cup {NoAddr}, mask : Mask, red : Red]

\* Who has an open socket within reach of n.
Listeners(n) == {k \in Node : <<n, k>> \in Link /\ pc[k] # "off"}

Par(n) == {[type |-> "PAR", src |-> n, dst |-> k] : k \in Listeners(n)}

Pan(n, pap) ==
  {[type |-> "PAN", src |-> n, dst |-> k,
    owner |-> pap.owner, addr |-> pap.addr, red |-> pap.red] : k \in Listeners(n)}

Message ==
  [type : {"PAR"}, src : Node, dst : Node]
    \cup [type : {"PAP"}, src : Node, dst : Node, pap : Pap]
    \cup [type : {"PAN"}, src : Node, dst : Node,
          owner : Addr, addr : Addr \cup {NoAddr}, red : Red]
    \cup [type : {"PANC"}, src : Node, dst : Node, owner : Addr]

Joining == {n \in Node : pc[n] \in {"paps", "panc"}}
Up      == {n \in Node : pc[n] = "up"}

\* No answer to n, nor anything n sent, is in flight.
Settled(n) == \A m \in msgs : m.src # n /\ m.dst # n

\* T_PAP or T_PANC has passed at n.
Expired(n) == Prompt => Settled(n)

Init ==
  /\ pc = [n \in Node |-> "off"]
  /\ prim_addr = [n \in Node |-> Root]
  /\ prim_mask = [n \in Node |-> 0]
  /\ prim_mask_inicial = [n \in Node |-> 0]
  /\ red_numero = [n \in Node |-> 0]
  /\ flag_conexion = [n \in Node |-> 0]
  /\ v_pap = [n \in Node |-> <<>>]
  /\ chosen = [n \in Node |-> NoPap]
  /\ rcvd_addr = [n \in Node |-> <<>>]
  /\ rcvd_offered = [n \in Node |-> NoAddr]
  /\ neigh_table = [n \in Node |-> {}]
  /\ msgs = {}
  /\ crashes = 0

-----------------------------------------------------------------------------
\* Getting an address.

\* prim_addr_init: the memory of a new process.
Fresh(n) ==
  /\ prim_addr' = [prim_addr EXCEPT ![n] = Root]
  /\ prim_mask' = [prim_mask EXCEPT ![n] = 0]
  /\ prim_mask_inicial' = [prim_mask_inicial EXCEPT ![n] = 0]
  /\ red_numero' = [red_numero EXCEPT ![n] = 0]
  /\ flag_conexion' = [flag_conexion EXCEPT ![n] = 0]
  /\ v_pap' = [v_pap EXCEPT ![n] = <<>>]
  /\ chosen' = [chosen EXCEPT ![n] = NoPap]
  /\ rcvd_addr' = [rcvd_addr EXCEPT ![n] = <<>>]
  /\ rcvd_offered' = [rcvd_offered EXCEPT ![n] = NoAddr]
  /\ neigh_table' = [neigh_table EXCEPT ![n] = {}]

\* main: prim_addr_init, then get_prim_addr sends its first PAR.
Boot(n) ==
  /\ pc[n] = "off"
  /\ Cardinality(Joining) < MaxJoining
  /\ Prompt => msgs = {}
  /\ pc' = [pc EXCEPT ![n] = "paps"]
  /\ msgs' = msgs \cup Par(n)
  /\ Fresh(n)
  /\ UNCHANGED crashes

\* The first of the PAPs with the lowest mask.
Best(paps) ==
  LET first == CHOOSE i \in DOMAIN paps :
                 \A j \in DOMAIN paps :
                   \/ paps[i].mask < paps[j].mask
                   \/ paps[i].mask = paps[j].mask /\ i <= j
  IN  paps[first]

\* The wait for PAPs is over: the time is up, or the vector is full.
Collected(n) ==
  /\ pc[n] = "paps"
  /\ Expired(n) \/ Len(v_pap[n]) = MaxRcvdPap

\* PAPs came: take the lowest mask and tell its proposer.
SendPan(n) ==
  /\ Collected(n)
  /\ v_pap[n] # <<>>
  /\ pc' = [pc EXCEPT ![n] = "panc"]
  /\ chosen' = [chosen EXCEPT ![n] = Best(v_pap[n])]
  /\ red_numero' = [red_numero EXCEPT ![n] = Best(v_pap[n]).red]
  /\ v_pap' = [v_pap EXCEPT ![n] = <<>>]
  /\ msgs' = msgs \cup Pan(n, Best(v_pap[n]))
  /\ UNCHANGED <<prim_addr, prim_mask_inicial, flag_conexion, spaceVars,
                 neigh_table, crashes>>

\* A node founds a network: assumed of the instance.
MayFound(n) == OneNetwork => Up \subseteq {n}

\* No PAP came: n founds a network with the address it started from.
Found(n) ==
  /\ Collected(n)
  /\ MayFound(n)
  /\ v_pap[n] = <<>>
  /\ pc' = [pc EXCEPT ![n] = "up"]
  /\ red_numero' = [red_numero EXCEPT ![n] = Mac[n]]
  /\ prim_mask' = [prim_mask EXCEPT ![n] = 0]
  /\ prim_mask_inicial' = [prim_mask_inicial EXCEPT ![n] = 0]
  /\ UNCHANGED <<prim_addr, flag_conexion, v_pap, chosen, rcvd_addr, rcvd_offered,
                 neigh_table, msgs, crashes>>

\* goto start: forget the PAPs and send a PAR again, on top of what is in flight.
Restart(n, flight) ==
  /\ pc' = [pc EXCEPT ![n] = "paps"]
  /\ chosen' = [chosen EXCEPT ![n] = NoPap]
  /\ msgs' = flight \cup Par(n)
  /\ UNCHANGED <<prim_addr, prim_mask_inicial, red_numero, flag_conexion, v_pap>>

\* T_PANC passes without any packet.
PancTimeout(n) ==
  /\ pc[n] = "panc"
  /\ Expired(n)
  /\ Restart(n, msgs)
  /\ UNCHANGED <<spaceVars, neigh_table, crashes>>

-----------------------------------------------------------------------------
\* Packets.

\* n is in its main loop, or in one of the waits of get_prim_addr.
Awake(n) ==
  \/ pc[n] \in {"panc", "up"}
  \/ pc[n] = "paps" /\ Len(v_pap[n]) < MaxRcvdPap

Reads(n, m) == m \in msgs /\ m.dst = n /\ Awake(n)

(***************************************************************************)
(* What reading a packet does to get_prim_addr when the packet is neither  *)
(* an offer nor the awaited PANC.  reds holds the values its ad_addr field *)
(* red_numero can have, which receive_pap copies whatever the type is;     *)
(* the wait for the PANC is given up for any other packet.                 *)
(***************************************************************************)
NotAwaited(n, flight, reds) ==
  \/ /\ pc[n] = "up"
     /\ msgs' = flight
     /\ UNCHANGED joinVars
  \/ /\ pc[n] = "paps"
     /\ \E r \in reds : red_numero' = [red_numero EXCEPT ![n] = r]
     /\ msgs' = flight
     /\ UNCHANGED <<pc, prim_addr, prim_mask_inicial, flag_conexion, v_pap, chosen>>
  \/ /\ pc[n] = "panc"
     /\ Restart(n, flight)

(***************************************************************************)
(* send_pap.  The recovered space at the end of the list comes first, but  *)
(* only while rcvd_offered is NULL; otherwise n offers the half of its     *)
(* space that has bit prim_mask flipped, or mask 0 when it has no bit left *)
(* (the address field of that PAP is not initialised).                     *)
(***************************************************************************)
OffersRecovered(n) == rcvd_addr[n] # <<>> /\ rcvd_offered[n] = NoAddr

\* Wrong variant: off by one in the test for the last bit.
OfferPastLastBit(n) ==
  CASE OffersRecovered(n)    -> rcvd_addr[n][Len(rcvd_addr[n])]
    [] ~OffersRecovered(n) /\ prim_mask[n] > Dim -> [addr |-> NoAddr, mask |-> 0]
    [] OTHER -> [addr |-> Flip(prim_addr[n], prim_mask[n]), mask |-> prim_mask[n] + 1]

Offer(n) ==
  CASE OffersRecovered(n)    -> rcvd_addr[n][Len(rcvd_addr[n])]
    [] ~OffersRecovered(n) /\ prim_mask[n] >= Dim -> [addr |-> NoAddr, mask |-> 0]
    [] OTHER -> [addr |-> Flip(prim_addr[n], prim_mask[n]), mask |-> prim_mask[n] + 1]

ReceivePar(n, m) ==
  /\ Reads(n, m)
  /\ m.type = "PAR"
  /\ LET pap == [owner |-> prim_addr[n], addr |-> Offer(n).addr,
                 mask |-> Offer(n).mask, red |-> red_numero[n]]
     IN  NotAwaited(n, (msgs \ {m})
                         \cup {[type |-> "PAP", src |-> n, dst |-> m.src, pap |-> pap]}, Red)
  /\ rcvd_offered' = [rcvd_offered EXCEPT
       ![n] = IF OffersRecovered(n) THEN Offer(n).addr ELSE @]
  /\ UNCHANGED <<prim_mask, rcvd_addr, neigh_table, crashes>>

\* An offer is kept while n collects them.
ReceiveOffer(n, m) ==
  /\ Reads(n, m)
  /\ m.type = "PAP"
  /\ pc[n] = "paps"
  /\ m.pap.mask # 0
  /\ v_pap' = [v_pap EXCEPT ![n] = Append(@, m.pap)]
  /\ red_numero' = [red_numero EXCEPT ![n] = m.pap.red]
  /\ flag_conexion' = [flag_conexion EXCEPT ![n] = 1]
  /\ msgs' = msgs \ {m}
  /\ UNCHANGED <<pc, prim_addr, prim_mask_inicial, chosen, spaceVars, neigh_table, crashes>>

\* A PAP with mask 0, or one that comes after the PAN was sent.
ReceiveOtherPap(n, m) ==
  /\ Reads(n, m)
  /\ m.type = "PAP"
  /\ pc[n] = "paps" => m.pap.mask = 0
  /\ NotAwaited(n, msgs \ {m}, {m.pap.red})
  /\ UNCHANGED <<spaceVars, neigh_table, crashes>>

\* del_rcvd_addr_table: the first entry with this address goes.
WithoutFirst(list, a) ==
  LET hits == {i \in DOMAIN list : list[i].addr = a}
      at   == CHOOSE i \in hits : \A j \in hits : i <= j
  IN  IF hits = {} THEN list
      ELSE SubSeq(list, 1, at - 1) \o SubSeq(list, at + 1, Len(list))

\* send_panc: the space that was offered goes to the node that chose it.  It is
\* not compared with what n would offer now.
ChoseRecovered(n, m) == rcvd_offered[n] # NoAddr /\ m.addr = rcvd_offered[n]

\* Wrong variant: a recovered space that was chosen stays in the list.
GiveAwayKeepsRecovered(n, m) ==
  /\ prim_mask' = [prim_mask EXCEPT ![n] = IF ChoseRecovered(n, m) THEN @ ELSE @ + 1]
  /\ UNCHANGED rcvd_addr

\* Wrong variant: a recovered space is given, whatever was chosen.
GiveAwayRecovered(n, m) ==
  IF rcvd_addr[n] # <<>>
    THEN /\ rcvd_addr' = [rcvd_addr EXCEPT ![n] = Tail(@)]
         /\ UNCHANGED prim_mask
    ELSE /\ prim_mask' = [prim_mask EXCEPT ![n] = @ + 1]
         /\ UNCHANGED rcvd_addr

GiveAway(n, m) ==
  \/ /\ ChoseRecovered(n, m)
     /\ rcvd_addr' = [rcvd_addr EXCEPT ![n] = WithoutFirst(@, m.addr)]
     /\ UNCHANGED prim_mask
  \/ /\ ~ChoseRecovered(n, m)
     /\ prim_mask' = [prim_mask EXCEPT ![n] = @ + 1]
     /\ UNCHANGED rcvd_addr

\* Wrong variant: n answers a PAN whose proposer is somebody else.
NamesMeAnyOwner(n, m) == m.red = red_numero[n]

\* antop_process_pkt: the PAN is of the network of n, and names n as the proposer.
NamesMe(n, m) == m.red = red_numero[n] /\ m.owner = prim_addr[n]

ReceivePan(n, m) ==
  /\ Reads(n, m)
  /\ m.type = "PAN"
  /\ NamesMe(n, m)
  /\ GiveAway(n, m)
  /\ NotAwaited(n, (msgs \ {m})
                     \cup {[type |-> "PANC", src |-> n, dst |-> m.src, owner |-> m.owner]},
                {m.red})
  /\ UNCHANGED <<rcvd_offered, neigh_table, crashes>>

\* A PAN of another network, or for another proposer.
ReceiveOtherPan(n, m) ==
  /\ Reads(n, m)
  /\ m.type = "PAN"
  /\ ~NamesMe(n, m)
  /\ NotAwaited(n, msgs \ {m}, {m.red})
  /\ UNCHANGED <<spaceVars, neigh_table, crashes>>

-----------------------------------------------------------------------------
\* Heartbeats and the neighbour table.

(***************************************************************************)
(* process_hb at k of a heartbeat from address a of network r reaches the  *)
(* neighbour table.  detector_de_mezcla returns no value at all when r is  *)
(* the higher number and k must not merge yet: the test may go either way. *)
(***************************************************************************)
Accepts(k, a, r) ==
  /\ \/ r = red_numero[k]
     \/ red_numero[k] < r /\ (pc[k] \in {"paps", "panc"} \/ flag_conexion[k] = 1)
  /\ a # prim_addr[k]
  /\ pc[k] = "up" => Dist(prim_addr[k], a) = 1

\* add_neighbor, unless find_neighbor finds the address: the entry stays as it is.
AddNeighbor(table, a, mask) ==
  IF \E e \in table : e.addr = a THEN table ELSE table \cup {[addr |-> a, mask |-> mask]}

\* n has given none of its space away.
Leaf(n) == prim_mask[n] = prim_mask_inicial[n]

\* Wrong variant: the root is alone, too, while it waits for its first neighbour.
AloneAnyAddress(n) == neigh_table[n] = {}

\* check_if_i_am_only: a node without neighbours that is not the root.
Alone(n) == neigh_table[n] = {} /\ prim_addr[n] # Root

\* k reads a heartbeat of n.
HearHb(k, n) ==
  /\ pc[n] = "up" /\ ~Alone(n)
  /\ <<n, k>> \in Link
  /\ Awake(k)
  /\ \/ /\ Accepts(k, prim_addr[n], red_numero[n])
        /\ neigh_table' = [neigh_table EXCEPT
             ![k] = AddNeighbor(@, prim_addr[n], prim_mask_inicial[n])]
     \/ /\ ~Accepts(k, prim_addr[n], red_numero[n]) \/ red_numero[k] # red_numero[n]
        /\ UNCHANGED neigh_table
  /\ NotAwaited(k, msgs, {red_numero[n]})
  /\ UNCHANGED <<spaceVars, crashes>>

(***************************************************************************)
(* The awaited PANC: n takes the address.  Before it does, it sends a      *)
(* heartbeat that still carries the root address, and passes to process_hb *)
(* a heartbeat of the proposer whose network and initial mask are whatever *)
(* the stack held.                                                         *)
(***************************************************************************)
ReceivePanc(n, m) ==
  /\ Reads(n, m)
  /\ m.type = "PANC"
  /\ pc[n] = "panc"
  /\ m.owner = chosen[n].owner
  /\ pc' = [pc EXCEPT ![n] = "up"]
  /\ prim_addr' = [prim_addr EXCEPT ![n] = chosen[n].addr]
  /\ prim_mask' = [prim_mask EXCEPT ![n] = chosen[n].mask]
  /\ prim_mask_inicial' = [prim_mask_inicial EXCEPT ![n] = chosen[n].mask]
  /\ flag_conexion' = [flag_conexion EXCEPT ![n] = 0]
  /\ chosen' = [chosen EXCEPT ![n] = NoPap]
  /\ msgs' = msgs \ {m}
  /\ \E hear \in SUBSET {k \in Node : /\ <<n, k>> \in Link /\ pc[k] = "up"
                                      /\ Accepts(k, Root, red_numero[n])},
        own \in {neigh_table[n]} \cup
                {AddNeighbor(neigh_table[n], m.owner, g) :
                   g \in {x \in StackMasks : m.owner # prim_addr[n]}} :
       neigh_table' = [k \in Node |->
         IF k = n THEN own
         ELSE IF k \in hear THEN AddNeighbor(neigh_table[k], Root, prim_mask_inicial[n])
         ELSE neigh_table[k]]
  /\ UNCHANGED <<red_numero, v_pap, rcvd_addr, rcvd_offered, crashes>>

\* A PANC of somebody else, or one that n does not wait for.
ReceiveOtherPanc(n, m) ==
  /\ Reads(n, m)
  /\ m.type = "PANC"
  /\ pc[n] = "panc" => m.owner # chosen[n].owner
  /\ NotAwaited(n, msgs \ {m}, Red)
  /\ UNCHANGED <<spaceVars, neigh_table, crashes>>

(***************************************************************************)
(* send_hb calls check_if_i_am_only: a node without neighbours that is not *)
(* the root starts a network of its own.  rcvd_offered keeps its value.    *)
(* Assumed of the radio: a node that has given space away hears somebody.  *)
(***************************************************************************)
ResetAlone(n) ==
  /\ pc[n] = "up"
  /\ Alone(n)
  /\ Leaf(n)
  /\ MayFound(n)
  /\ prim_addr' = [prim_addr EXCEPT ![n] = Root]
  /\ prim_mask' = [prim_mask EXCEPT ![n] = 0]
  /\ prim_mask_inicial' = [prim_mask_inicial EXCEPT ![n] = 0]
  /\ red_numero' = [red_numero EXCEPT ![n] = Mac[n]]
  /\ rcvd_addr' = [rcvd_addr EXCEPT ![n] = <<>>]
  /\ UNCHANGED <<pc, flag_conexion, v_pap, chosen, rcvd_offered, neigh_table, msgs, crashes>>

\* Somebody with address a is near n: heard, or silent for T_HB until it resets.
Near(n, a) ==
  \E k \in Node : /\ <<k, n>> \in Link /\ pc[k] = "up"
                  /\ prim_addr[k] = a /\ red_numero[k] = red_numero[n]

\* Wrong variant: the neighbour is given up, and stays in the table.
CheckNeighborsKeepsEntry(n, e) ==
  /\ pc[n] = "up"
  /\ e \in neigh_table[n]
  /\ ~Near(n, e.addr)
  /\ CheckSuccesor(prim_addr[n], e.addr) = "succesor"
  /\ Len(rcvd_addr[n]) < 2
  /\ rcvd_addr' = [rcvd_addr EXCEPT ![n] = Append(@, e)]
  /\ UNCHANGED <<joinVars, prim_mask, rcvd_offered, neigh_table, msgs, crashes>>

(***************************************************************************)
(* check_neighbors gives up an entry that was silent for three rounds of   *)
(* T_LHB, and recover_addr_space takes back the space of a successor.      *)
(* Assumed of the radio: three heartbeats in a row are not lost (module    *)
(* HeartBeat).                                                             *)
(***************************************************************************)
CheckNeighbors(n, e) ==
  /\ pc[n] = "up"
  /\ e \in neigh_table[n]
  /\ ~Near(n, e.addr)
  /\ \/ /\ CheckSuccesor(prim_addr[n], e.addr) = "succesor"
        /\ rcvd_addr' = [rcvd_addr EXCEPT ![n] = Append(@, e)]
        /\ neigh_table' = [neigh_table EXCEPT ![n] = @ \ {e}]
        /\ UNCHANGED pc
     \/ /\ CheckSuccesor(prim_addr[n], e.addr) = "no"
        /\ neigh_table' = [neigh_table EXCEPT ![n] = @ \ {e}]
        /\ UNCHANGED <<pc, rcvd_addr>>
     \/ /\ CheckSuccesor(prim_addr[n], e.addr) = "hangs"
        /\ pc' = [pc EXCEPT ![n] = "hung"]
        /\ UNCHANGED <<rcvd_addr, neigh_table>>
  /\ UNCHANGED <<prim_addr, prim_mask_inicial, red_numero, flag_conexion, v_pap, chosen,
                 prim_mask, rcvd_offered, msgs, crashes>>

-----------------------------------------------------------------------------
\* Failures.

Lose(m) ==
  /\ msgs' = msgs \ {m}
  /\ UNCHANGED <<joinVars, spaceVars, neigh_table, crashes>>

\* Only a leaf goes: a node with successors leaves a fragment behind.
Crash(n) ==
  /\ pc[n] # "off"
  /\ Leaf(n)
  /\ crashes < MaxCrashes
  /\ crashes' = crashes + 1
  /\ pc' = [pc EXCEPT ![n] = "off"]
  /\ msgs' = {m \in msgs : m.dst # n}
  /\ Fresh(n)

Next ==
  \/ \E n \in Node : \/ Boot(n)
                     \/ SendPan(n)
                     \/ Found(n)
                     \/ PancTimeout(n)
                     \/ ResetAlone(n)
                     \/ Crash(n)
                     \/ \E k \in Node : HearHb(n, k)
                     \/ \E e \in neigh_table[n] : CheckNeighbors(n, e)
  \/ \E m \in msgs : \/ ReceivePar(m.dst, m)
                     \/ ReceiveOffer(m.dst, m)
                     \/ ReceiveOtherPap(m.dst, m)
                     \/ ReceivePan(m.dst, m)
                     \/ ReceiveOtherPan(m.dst, m)
                     \/ ReceivePanc(m.dst, m)
                     \/ ReceiveOtherPanc(m.dst, m)
                     \/ Lose(m)

Spec == Init /\ [][Next]_vars

-----------------------------------------------------------------------------
\* Properties.

TypeInvariant ==
  /\ pc \in [Node -> {"off", "paps", "panc", "up", "hung"}]
  /\ prim_addr \in [Node -> Addr]
  /\ prim_mask \in [Node -> Mask]
  /\ prim_mask_inicial \in [Node -> Mask]
  /\ red_numero \in [Node -> Red]
  /\ flag_conexion \in [Node -> {0, 1}]
  /\ v_pap \in [Node -> Seq(Pap)]
  /\ chosen \in [Node -> Pap]
  /\ rcvd_addr \in [Node -> Seq(Recovered)]
  /\ rcvd_offered \in [Node -> Addr \cup {NoAddr}]
  /\ neigh_table \in [Node -> SUBSET Recovered]
  /\ msgs \subseteq Message
  /\ crashes \in 0 .. MaxCrashes

\* The addresses n administers: the rest of its own space, and the spaces
\* it recovered.
Held(n) ==
  Space(prim_addr[n], prim_mask[n])
    \cup UNION {Space(rcvd_addr[n][i].addr, rcvd_addr[n][i].mask) : i \in DOMAIN rcvd_addr[n]}

(***************************************************************************)
(* The address assignment implements AddressSpace: an address has one      *)
(* administrator, whatever is lost or late, whoever crashes and is         *)
(* recovered.  A node that does not run, or has no address yet,            *)
(* administers nothing.                                                    *)
(***************************************************************************)
Abs == INSTANCE AddressSpace WITH
  Network   <- {{r} : r \in Red},
  Address   <- Addr,
  NoNetwork <- {},
  NoAddress <- NoAddr,
  network <- [n \in Node |-> IF n \in Up THEN {red_numero[n]} ELSE {}],
  own     <- [n \in Node |-> IF n \in Up THEN prim_addr[n] ELSE NoAddr],
  held    <- [n \in Node |-> IF n \in Up THEN Held(n) ELSE {}]

ImplementsAddressSpace == Abs!Spec

\* hcb_address.c:571: once the PANC is there, the address may be used: no other
\* node of the network has it.
UniqueAddress ==
  \A m, n \in Up :
    m # n /\ red_numero[m] = red_numero[n] => prim_addr[m] # prim_addr[n]

(***************************************************************************)
(* send_panc gives space away only to the node it confirms it to: while    *)
(* the PANC that n waits for is on its way, or n is still to use the       *)
(* address it confirms, nobody administers any of the chosen space.        *)
(***************************************************************************)
ConfirmedIsFree ==
  \A n \in Node, m \in msgs :
    /\ pc[n] = "panc"
    /\ m.type = "PANC" /\ m.dst = n /\ m.owner = chosen[n].owner
    => \A k \in Up :
         red_numero[k] = red_numero[n]
           => Held(k) \cap Space(chosen[n].addr, chosen[n].mask) = {}

\* A space is in the list of recovered spaces of one node only once.
RecoveredOnce ==
  \A n \in Node : \A i, j \in DOMAIN rcvd_addr[n] :
    i # j => rcvd_addr[n][i].addr # rcvd_addr[n][j].addr

\* The offers that n may choose from or has chosen, and whether the proposer of
\* one still runs, or has confirmed it.
Offers(n) ==
  {m.pap : m \in {k \in msgs : k.type = "PAP" /\ k.dst = n}}
    \cup {v_pap[n][i] : i \in DOMAIN v_pap[n]} \cup {chosen[n]}

Live(o) == \E k \in Up : prim_addr[k] = o.owner /\ red_numero[k] = o.red

Confirmed(n) ==
  /\ pc[n] = "panc"
  /\ \E m \in msgs : m.type = "PANC" /\ m.dst = n /\ m.owner = chosen[n].owner

(***************************************************************************)
(* A space that check_neighbors would take back from a successor (in       *)
(* recover_addr_space, with the mask of the first heartbeat) is            *)
(* administered by nobody, the node itself included, and nobody who joins  *)
(* can still obtain a part of it.                                          *)
(***************************************************************************)
RecoverableIsFree ==
  \A n \in Up : \A e \in neigh_table[n] :
    ~Near(n, e.addr) /\ CheckSuccesor(prim_addr[n], e.addr) = "succesor" =>
      /\ \A k \in Up :
           red_numero[k] = red_numero[n] => Held(k) \cap Space(e.addr, e.mask) = {}
      /\ \A k \in Joining : \A o \in Offers(k) :
           o.mask # 0 /\ o.red = red_numero[n] /\ (Live(o) \/ Confirmed(k))
             => Space(o.addr, o.mask) \cap Space(e.addr, e.mask) = {}

(***************************************************************************)
(* Where a node founds a network, after get_prim_addr without offers or in *)
(* check_if_i_am_only, nobody uses the number of that network yet.  In the *)
(* second case nobody waits for its answer, and rcvd_offered, which is not *)
(* reset, has never been set.                                              *)
(***************************************************************************)
NewNetworkIsNew ==
  \A n \in Node : MayFound(n) =>
    /\ Collected(n) /\ v_pap[n] = <<>> => \A k \in Up : red_numero[k] # Mac[n]
    /\ n \in Up /\ Alone(n) /\ Leaf(n) =>
         /\ \A k \in Up \ {n} : red_numero[k] # Mac[n]
         /\ Joining = {} /\ rcvd_offered[n] = NoAddr

\* hcb_address.c:44: the flag is set while the node is obtaining its address.
ConexionFlagMeansJoining == \A n \in Node : flag_conexion[n] = 1 => n \in Joining
=============================================================================
