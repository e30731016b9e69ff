----------------------------- MODULE Secondary -----------------------------
(***************************************************************************)
(* Secondary addresses (secondary.c).  A node that hears a node of its     *)
(* network that is no neighbour in the hypercube looks in its own space    *)
(* for an address that is, proposes it (SAP) and takes it itself when the  *)
(* other one agrees (SAN).                                                 *)
(*                                                                         *)
(* Nobody merges or fragments meanwhile, and joins are single steps        *)
(* (HcbAddress).  Nodes move in and out of range, and an address goes from *)
(* neigh_table only when no heartbeat from it can come and be taken for    *)
(* one of a neighbour (HeartBeat, OnlyTheDownGo).                          *)
(* A heartbeat is heard at once or not at all.                             *)
(* The order and the copies of the entries of neigh_table and n_s_l_table  *)
(* are left out: nothing here depends on them.                             *)
(***************************************************************************)
EXTENDS Hypercube, Sequences, SequencesExt

CONSTANTS
  Node,
  PrimAddr,   \* PrimAddr[n]: prim_addr of n
  Inicial,    \* Inicial[n]: prim_mask_inicial of n
  Starts,     \* who is there, with which mask, recovered spaces and neigh_table
  Others,     \* Others[n]: the addresses of other nodes, which stay in the range of n
  Hidden,     \* the pairs of nodes that are never in range of each other
  Movable,    \* the pairs of nodes that move out of range of each other and back
  MaxMoves,   \* bound: how often
  MaxGiven    \* bound: how many nodes join

\* Masks are unsigned char.
Byte(x) == x % 256

Block == [addr : Addr, mask : 0 .. 255]
Neigh == [addr : Addr, inicial : 0 .. 255]

ASSUME SecondaryAssumption ==
  /\ Dim <= 255
  /\ PrimAddr \in [Node -> Addr] /\ \A n, k \in Node : n # k => PrimAddr[n] # PrimAddr[k]
  /\ Inicial \in [Node -> 0 .. Dim]
  /\ \A f \in Starts, n \in Node :
       /\ f[n].status \in {"member", "crashed"}
       /\ f[n].mask \in 0 .. Dim /\ f[n].rcvd \in Seq(Block) /\ f[n].nbr \subseteq Neigh
  /\ Others \in [Node -> SUBSET Addr]
  /\ Movable \subseteq Node \X Node /\ Hidden \subseteq Node \X Node
  /\ MaxMoves \in Nat /\ MaxGiven \in Nat

\* The null address, sec_addr of a node that has none.
None == {}

(***************************************************************************)
(* prim, mask, sec, sec_mask, link and flag are prim_addr, prim_mask,      *)
(* sec_addr, sec_mask, addr_node_secondary_link and sec_addr_flag.  avai   *)
(* is flag_addr_avai, and timer tells whether a san_t is in the queue.     *)
(* nsl are the addresses in n_s_l_table.                                   *)
(***************************************************************************)
State ==
  [prim : Addr, mask : 0 .. 255, sec : Addr, sec_mask : 0 .. 255, link : Addr, flag : BOOLEAN,
   avai : BOOLEAN, timer : BOOLEAN, nsl : SUBSET Addr, nbr : SUBSET Neigh, rcvd : Seq(Block)]

(***************************************************************************)
(* `from', `to', `addr', `mask' and `len' are prim_addr (and src_addr, the *)
(* same), the destination, ad_addr.addr, .mask and .t_lenght.  `hear' are  *)
(* the nodes that the radio can bring the packet to.                       *)
(***************************************************************************)
Message ==
  [type : {"SAP", "SAN"}, from : Addr, to : Addr, addr : Addr,
   mask : 0 .. 255, len : 0 .. 255, hear : SUBSET Node]

VARIABLES
  node,    \* node[n] is a State
  status,  \* "member" of the network, "alone" in one of its own, "crashed" (or caught in a loop)
  net,     \* the packets on their way
  apart,   \* the movable pairs that are out of range
  given,   \* history: given[n] are the spaces that n gave to nodes that joined
  faulty,  \* history: the nodes that gave a space away that they had proposed, or took
           \* one back that was not a successor's
  moves    \* how often nodes moved

vars == <<node, status, net, apart, given, faulty, moves>>

Is(n, s) == node' = [node EXCEPT ![n] = s]

Member(n) == status[n] = "member"

\* The members in the range of n.
Near(n) ==
  {k \in Node \ {n} : Member(k) /\ <<n, k>> \notin Hidden \cup apart /\ <<k, n>> \notin Hidden \cup apart}

\* The addresses that n answers to.
AddressesOf(n) == {node[n].prim} \cup {a \in {node[n].sec} : node[n].flag}

Init ==
  /\ \E f \in Starts :
       /\ node = [n \in Node |->
                   [prim |-> PrimAddr[n], mask |-> f[n].mask, sec |-> None, sec_mask |-> 0,
                    link |-> None, flag |-> FALSE, avai |-> TRUE, timer |-> FALSE, nsl |-> {},
                    nbr |-> f[n].nbr, rcvd |-> f[n].rcvd]]
       /\ status = [n \in Node |-> f[n].status]
  /\ net = {}
  /\ apart = {}
  /\ given = [n \in Node |-> <<>>]
  /\ faulty = {}
  /\ moves = 0

-----------------------------------------------------------------------------
(***************************************************************************)
(* send_hb.                                                                *)
(***************************************************************************)
\* check_if_i_am_only: all but sec_addr_flag starts anew.
Lonely(s) == s.nbr = {} /\ s.prim # Root

CheckIfIAmOnly(s) ==
  IF Lonely(s)
  THEN [s EXCEPT !.prim = Root, !.mask = 0, !.sec = None, !.sec_mask = 0, !.rcvd = <<>>]
  ELSE s

\* Wrong variant: the neigh_table is not looked at.
LinkStandsAnyway(s) == Dist(s.sec, s.prim) = 1

\* The node at the other end of the secondary link is still a neighbour.
LinkStands(s) ==
  /\ Dist(s.sec, s.prim) = 1
  /\ \E e \in s.nbr : e.addr = s.link /\ Dist(s.sec, e.addr) = 1

\* Wrong variant: the mask of a node that gave space away since is lowered too.
ReturnedLower(s) == [s EXCEPT !.mask = Byte(@ + 255)]

\* Wrong variant: the mask is no unsigned char.
ReturnedWide(s) ==
  IF s.mask = s.sec_mask
  THEN [s EXCEPT !.mask = @ - 1]
  ELSE [s EXCEPT !.rcvd = Append(@, [addr |-> s.sec, mask |-> s.sec_mask])]

\* The space of the secondary address comes back.
Returned(s) ==
  IF s.mask = s.sec_mask
  THEN [s EXCEPT !.mask = Byte(@ + 255)]
  ELSE [s EXCEPT !.rcvd = Append(@, [addr |-> s.sec, mask |-> s.sec_mask])]

\* check_neigh_of_secondary_address
CheckNeighOfSecondaryAddress(s) ==
  IF s.flag /\ ~LinkStands(s)
  THEN [Returned(s) EXCEPT !.flag = FALSE, !.sec = None, !.link = None, !.sec_mask = 0]
  ELSE s

\* check_n_s_l_table: `flag=0' is an assignment and its value is false.
CheckNslTable(s) == s

\* What is checked before a heartbeat is sent.
Checked(s) == CheckNslTable(CheckNeighOfSecondaryAddress(CheckIfIAmOnly(s)))

\* The one or two heartbeats of a node in state s.
Beats(n, s) ==
  {[from |-> a, src |-> s.prim, addr |-> s.sec, len |-> Inicial[n]] :
     a \in {s.prim} \cup {b \in {s.sec} : s.flag}}

-----------------------------------------------------------------------------
(***************************************************************************)
(* chk_sec_addr1: the address that a node proposes to one that has the     *)
(* address a; a recovered one first.                                       *)
(***************************************************************************)
RecoveredNextTo(s, a) == {i \in DOMAIN s.rcvd : Dist(s.rcvd[i].addr, a) = 1}

OwnNextTo(s, a) == {i \in s.mask .. Dim - 1 : i \notin s.prim /\ Dist(s.prim \cup {i}, a) = 1}

ChkSecAddr(s, a) ==
  IF RecoveredNextTo(s, a) # {}
  THEN {s.rcvd[i] : i \in {j \in RecoveredNextTo(s, a) : \A k \in RecoveredNextTo(s, a) : j <= k}}
  ELSE {[addr |-> s.prim \cup {i}, mask |-> i + 1] :
          i \in {j \in OwnNextTo(s, a) : \A k \in OwnNextTo(s, a) : j <= k}}

\* The proposals that send_sap1 lets through: none while a SAN is awaited.
Proposals(s, a) == {b \in ChkSecAddr(s, a) : s.avai /\ Dist(b.addr, s.prim) = 1}

AddNeighbor(s, a, inicial) == [s EXCEPT !.nbr = @ \cup {[addr |-> a, inicial |-> inicial]}]

\* process_hb takes heartbeats from the address a for those of a neighbour, old or new.
Refreshes(s, a) ==
  /\ a # s.prim /\ (s.flag => a # s.sec)
  /\ Dist(s.prim, a) = 1 \/ (s.flag /\ Dist(s.sec, a) = 1)

FromNeighbor(s, m) == Refreshes(s, m.from)

\* It comes from a node that is no neighbour by any of its addresses.
FromStranger(s, m) ==
  /\ m.from # s.prim /\ ~s.flag
  /\ Dist(s.prim, m.from) # 1 /\ Dist(s.prim, m.src) # 1
  /\ Dist(s.prim, m.addr) # 1 \/ m.addr = None

\* process_hb, from a node of the same network, up to the state and the SAP (send_sap1).
ProcessHb(s, m) ==
  CASE FromNeighbor(s, m) ->
         IF \E e \in s.nbr : e.addr = m.from THEN s ELSE AddNeighbor(s, m.from, m.len)
    [] FromStranger(s, m) /\ Proposals(s, m.from) # {} ->
         [s EXCEPT !.avai = FALSE, !.timer = TRUE]
    [] OTHER -> s

SendSap(n, m) ==
  {[type |-> "SAP", from |-> node[n].prim, to |-> m.from, addr |-> b.addr, mask |-> b.mask,
    len |-> 0, hear |-> Near(n)] :
     b \in {c \in Proposals(node[n], m.from) : FromStranger(node[n], m)}}

\* send_hb; every heartbeat is lost, or one node hears one of them.
SendHb(n) ==
  /\ Member(n) /\ ~Lonely(node[n])
  /\ \/ /\ Is(n, Checked(node[n]))
        /\ UNCHANGED net
     \/ \E k \in Near(n), m \in Beats(n, Checked(node[n])) :
          /\ node' = [node EXCEPT ![n] = Checked(@), ![k] = ProcessHb(@, m)]
          /\ net' = net \cup SendSap(k, m)
  /\ UNCHANGED <<status, apart, given, faulty, moves>>

\* send_hb of a node that leaves the network.
SendHbAlone(n) ==
  /\ Member(n) /\ Lonely(node[n])
  /\ Is(n, Checked(node[n]))
  /\ status' = [status EXCEPT ![n] = "alone"]
  /\ UNCHANGED <<net, apart, given, faulty, moves>>

\* san_t_handler
SanTimeout(n) ==
  /\ Member(n) /\ node[n].timer
  /\ Is(n, [node[n] EXCEPT !.timer = FALSE, !.avai = TRUE])
  /\ UNCHANGED <<status, net, apart, given, faulty, moves>>

\* Wrong variant: add_n_s_l_table is not called.
AddNslNone(s, a) == s

AddNsl(s, a) == [s EXCEPT !.nsl = @ \cup {a}]

\* process_sap1: the node agrees to whatever is proposed.
ProcessSap(n, m) ==
  /\ Member(n) /\ m.type = "SAP" /\ n \in m.hear /\ m.to \in AddressesOf(n)
  /\ Is(n, AddNsl(node[n], m.addr))
  /\ net' = (net \ {m}) \cup
       {[type |-> "SAN", from |-> node[n].prim, to |-> m.from, addr |-> m.addr, mask |-> m.mask,
         len |-> node[n].mask, hear |-> Near(n)]}
  /\ UNCHANGED <<status, apart, given, faulty, moves>>

MaskAfterSan(s, m) ==
  IF s.mask < m.mask /\ Dist(m.addr, s.prim) = 1 THEN m.mask ELSE s.mask

\* del_rcvd_addr_table: the first entry with the address goes.
DelRcvd(rcvd, a) ==
  IF \E i \in DOMAIN rcvd : rcvd[i].addr = a
  THEN RemoveAt(rcvd, CHOOSE i \in DOMAIN rcvd :
                        rcvd[i].addr = a /\ \A j \in 1 .. i - 1 : rcvd[j].addr # a)
  ELSE rcvd

(***************************************************************************)
(* process_san1, whether the node waits for it or not.  add_neighbor reads *)
(* the first entry of neigh_table, which may not exist any more.           *)
(***************************************************************************)
ProcessSan(n, m) ==
  LET s == node[n]
      t == [s EXCEPT !.sec = m.addr, !.sec_mask = m.mask, !.flag = TRUE, !.avai = TRUE,
                     !.mask = MaskAfterSan(s, m), !.rcvd = DelRcvd(@, m.addr),
                     !.link = m.from]
  IN  /\ Member(n) /\ m.type = "SAN" /\ n \in m.hear /\ m.to \in AddressesOf(n)
      /\ net' = net \ {m}
      /\ \/ /\ s.nbr # {}
            /\ Is(n, AddNeighbor(t, m.from, m.len))
            /\ UNCHANGED status
         \/ /\ s.nbr = {}
            /\ status' = [status EXCEPT ![n] = "crashed"]
            /\ UNCHANGED node
      /\ UNCHANGED <<apart, given, faulty, moves>>

-----------------------------------------------------------------------------
\* The entry e of n is not set back any more: nobody in range of n has its address,
\* or its heartbeats are no longer those of a neighbour.
Gone(n, e) ==
  \/ e.addr \notin Others[n] /\ \A k \in Near(n) : e.addr \notin AddressesOf(k)
  \/ ~Refreshes(node[n], e.addr)

\* recover_addr_space takes the space with the mask of the first heartbeat.
Recovers(s, e) ==
  IF CheckSuccesor(s.prim, e.addr) = "succesor"
  THEN <<[addr |-> e.addr, mask |-> e.inicial]>> ELSE <<>>

\* Wrong variant: delete_neighbor is not called.
GivenUpStays(s, e) == [s EXCEPT !.rcvd = @ \o Recovers(s, e)]

GivenUp(s, e) == [s EXCEPT !.nbr = @ \ {e}, !.rcvd = @ \o Recovers(s, e)]

Hangs(n, e) == CheckSuccesor(node[n].prim, e.addr) = "hangs"

\* What check_succesor is to find out: the addresses are equal until the first bit
\* that changes, and then the remaining bits of a are zero, but for that of the root.
IsSuccesor(a, neigh) ==
  \E i \in Bits \ a : neigh = a \cup {i} /\ \A j \in a : j < i \/ j \in Root

\* check_succesor looks at the bits of one word only, and is wrong about e.
Mistaken(n, e) ==
  CheckSuccesor(node[n].prim, e.addr) = "succesor" /\ ~IsSuccesor(node[n].prim, e.addr)

\* check_neighbors gives a neighbour up and takes back the space of a successor, or
\* check_succesor never returns.
Expire(n, e) ==
  /\ Member(n) /\ e \in node[n].nbr /\ Gone(n, e)
  /\ Is(n, IF Hangs(n, e) THEN node[n] ELSE GivenUp(node[n], e))
  /\ status' = [status EXCEPT ![n] = IF Hangs(n, e) THEN "crashed" ELSE @]
  /\ faulty' = IF Mistaken(n, e) THEN faulty \cup {n} ELSE faulty
  /\ UNCHANGED <<net, apart, given, moves>>

\* The spaces that n has proposed or that were agreed to, on their way.
Proposed(n) ==
  {m \in net : \/ m.type = "SAP" /\ m.from = node[n].prim
               \/ m.type = "SAN" /\ m.to \in AddressesOf(n)}

\* The spaces b and c have addresses in common.
Meet(b, c) == InSpace(b.addr, c.addr, IF b.mask <= c.mask THEN b.mask ELSE c.mask)

Gives(n, b) ==
  /\ given' = [given EXCEPT ![n] = Append(@, b)]
  /\ faulty' = IF \E m \in Proposed(n) : Meet(m, b) THEN faulty \cup {n} ELSE faulty

HowMany == FoldSet(LAMBDA n, sum : sum + Len(given[n]), 0, Node)

\* A node joins: it gets the last recovered space, or else half of the own one.
Join(n) ==
  LET s == node[n]
      half == [addr |-> Flip(s.prim, s.mask), mask |-> s.mask + 1]
  IN  /\ Member(n) /\ HowMany < MaxGiven
      /\ \/ /\ s.rcvd # <<>>
            /\ Gives(n, Last(s.rcvd))
            /\ Is(n, [s EXCEPT !.rcvd = Front(@)])
         \/ /\ s.rcvd = <<>> /\ s.mask < Dim
            /\ Gives(n, half)
            /\ Is(n, [s EXCEPT !.mask = @ + 1])
      /\ UNCHANGED <<status, net, apart, moves>>

\* Two nodes move out of range of each other, or back.
Move(p) ==
  /\ moves < MaxMoves
  /\ moves' = moves + 1
  /\ apart' = IF p \in apart THEN apart \ {p} ELSE apart \cup {p}
  /\ UNCHANGED <<node, status, net, given, faulty>>

Lose(m) ==
  /\ net' = net \ {m}
  /\ UNCHANGED <<node, status, apart, given, faulty, moves>>

Next ==
  \/ \E n \in Node : SendHb(n) \/ SendHbAlone(n) \/ SanTimeout(n) \/ Join(n)
  \/ \E n \in Node, m \in net : ProcessSap(n, m) \/ ProcessSan(n, m)
  \/ \E n \in Node : \E e \in node[n].nbr : Expire(n, e)
  \/ \E p \in Movable : Move(p)
  \/ \E m \in net : Lose(m)

\* A heartbeat is sent, and what is checked before it finds something.
Notices(n) == Checked(node[n]) # node[n] /\ (SendHb(n) \/ SendHbAlone(n))

\* check_neighbors comes to every entry; it finds that the other end of the link is gone.
LosesLink(n) == node[n].flag /\ \E e \in node[n].nbr : e.addr = node[n].link /\ Expire(n, e)

\* The timers of a node go on, hb_t and chk_neigh_t among them.
Spec ==
  /\ Init /\ [][Next]_vars
  /\ \A n \in Node : WF_vars(Notices(n))
  /\ \A n \in Node : WF_vars(LosesLink(n))

-----------------------------------------------------------------------------
TypeInvariant ==
  /\ node \in [Node -> State]
  /\ status \in [Node -> {"member", "alone", "crashed"}]
  /\ net \subseteq Message
  /\ apart \subseteq Movable
  /\ given \in [Node -> Seq(Block)]
  /\ faulty \subseteq Node
  /\ moves \in 0 .. MaxMoves

\* All that n administers or gave to others.
Blocks(n) ==
  LET s == node[n]
  IN  <<[addr |-> s.prim, mask |-> s.mask]>> \o s.rcvd \o given[n]
        \o (IF s.flag THEN <<[addr |-> s.sec, mask |-> s.sec_mask]>> ELSE <<>>)

\* The members that never gave away what they had proposed, and never took a space
\* back that was not a successor's.
Sound == {n \in Node : Member(n) /\ n \notin faulty}

\* However often secondary addresses are taken and dropped (process_san1,
\* check_neigh_of_secondary_address), no address is in two of the spaces of the
\* network: those of the primary and secondary addresses, the recovered ones and
\* those of the nodes that joined.  Two things break it, and both are excluded here:
\* a join that is given the very space which a SAP proposes, and check_neighbors
\* where check_succesor is mistaken (faulty).
SecondaryIsMine ==
  \A n, k \in Sound :
    \A i \in DOMAIN Blocks(n), j \in DOMAIN Blocks(k) :
      <<n, i>> # <<k, j>> => ~Meet(Blocks(n)[i], Blocks(k)[j])

\* The node that proposed the space of the packet m.
Proposer(m) == IF m.type = "SAP" THEN m.from ELSE m.to

\* b is one of the halves that a node with the address a can give away.
IsHalf(a, b) == b.mask \in 1 .. Dim /\ b.addr = Flip(a, b.mask - 1)

(***************************************************************************)
(* When check_succesor is right, which it need not be of addresses that    *)
(* have bits in several words, then the space that check_neighbors would   *)
(* take back from the successor (recover_addr_space) is administered by    *)
(* no member and proposed by nobody, nobody in it runs or waits for a SAN, *)
(* and the space of an address next to that of n is the half that n gave.  *)
(* The others are the nodes that are not faulty.                           *)
(***************************************************************************)
RecoverableIsFree ==
  \A n \in Sound : \A e \in node[n].nbr :
    LET b == [addr |-> e.addr, mask |-> e.inicial]
    IN  /\ Gone(n, e)
        /\ CheckSuccesor(node[n].prim, e.addr) = "succesor"
        /\ IsSuccesor(node[n].prim, e.addr)
        => /\ \A k \in Sound : \A i \in DOMAIN Blocks(k) : ~Meet(Blocks(k)[i], b)
           /\ \A k \in Node : Member(k) => ~InSpace(node[k].prim, b.addr, b.mask)
           /\ \A m \in net : ~Meet(m, b) /\ ~InSpace(Proposer(m), b.addr, b.mask)
           /\ Dist(b.addr, node[n].prim) = 1 => IsHalf(node[n].prim, b)

(***************************************************************************)
(* What the nodes start with has been assigned to them (HcbAddress): no    *)
(* address twice, and a recovered space next to a node is one that it gave.*)
(***************************************************************************)
StartBlocks(f, n) == <<[addr |-> PrimAddr[n], mask |-> f[n].mask]>> \o f[n].rcvd

StartsApart ==
  \A f \in Starts :
    /\ \A n, k \in Node : \A i \in DOMAIN StartBlocks(f, n), j \in DOMAIN StartBlocks(f, k) :
         <<n, i>> # <<k, j>> => ~Meet(StartBlocks(f, n)[i], StartBlocks(f, k)[j])
    /\ \A n \in Node : \A i \in DOMAIN f[n].rcvd :
         Dist(f[n].rcvd[i].addr, PrimAddr[n]) = 1 => IsHalf(PrimAddr[n], f[n].rcvd[i])

\* The node at the other end of a secondary link knows that it is one
\* (check_addr_in_n_s_l_table), and so neither fragments nor merges along it.
LinkIsKnown ==
  \A n, k \in Node :
    Member(n) /\ Member(k) /\ node[n].flag /\ node[n].link = node[k].prim
      => node[n].sec \in node[k].nsl

\* n has a secondary address, and the node at the other end is not in range.
Broken(n) ==
  /\ Member(n) /\ node[n].flag
  /\ \A k \in Near(n) : node[n].link # node[k].prim

\* A secondary address whose link is broken does not stay, unless the link comes
\* back: check_neighbors and then check_neigh_of_secondary_address notice it.
BrokenIsDropped == \A n \in Node : Broken(n) ~> ~Broken(n)

\* A node that is left without neighbours starts anew (check_if_i_am_only), with
\* all addresses to give.
AloneIsFresh == \A n \in Node : status[n] = "alone" => node[n].mask = 0
=============================================================================
