-------------------------- MODULE SecondaryProofs --------------------------
(***************************************************************************)
(* Theorems about Secondary, for any nodes, dimension, starts and bounds.  *)
(*                                                                         *)
(* LInv follows the address of a secondary link from the node that agrees  *)
(* to it, which puts it into its n_s_l_table first, over the SAN to the    *)
(* node that takes it.                                                     *)
(*                                                                         *)
(* Realms says whose an address is: in the realm of a node are its own     *)
(* space, that of its secondary address, what it recovered, what it gave   *)
(* to nodes that joined, and what its proposals on their way say.  No step *)
(* but recover_addr_space adds to a realm, whose parts only change places. *)
(***************************************************************************)
EXTENDS Secondary, ListLemmas, FiniteSetTheorems, TLAPS

MembersKeepPrim == \A n \in Node : Member(n) => node[n].prim = PrimAddr[n]

SanIsKnown ==
  \A m \in net, k \in Node :
    m.type = "SAN" /\ m.from = PrimAddr[k] => m.addr \in node[k].nsl

SecIsKnown ==
  \A n, k \in Node :
    node[n].flag /\ node[n].link = PrimAddr[k] => node[n].sec \in node[k].nsl

LInv == TypeInvariant /\ MembersKeepPrim /\ SanIsKnown /\ SecIsKnown

-----------------------------------------------------------------------------
\* The addresses of the nodes, and the masks that they fit in.
LEMMA AddrFacts ==
  /\ None \in Addr /\ Root \in Addr
  /\ \A n \in Node : PrimAddr[n] \in Addr /\ Inicial[n] \in 0 .. 255
  /\ \A i \in Bits : i + 1 \in 0 .. 255
  <1>1. None \in Addr /\ Root \in Addr
    BY DimAssumption DEF None, Root, Addr, Bits
  <1>2. \A n \in Node : PrimAddr[n] \in Addr
    BY SecondaryAssumption
  <1>3. ASSUME NEW n \in Node PROVE Inicial[n] \in 0 .. 255
    <2>1. Inicial[n] \in 0 .. Dim /\ Dim <= 255
      BY SecondaryAssumption
    <2> QED BY <2>1, DimAssumption
  <1>4. ASSUME NEW i \in Bits PROVE i + 1 \in 0 .. 255
    <2>1. Dim <= 255
      BY SecondaryAssumption
    <2> QED BY <2>1, DimAssumption DEF Bits
  <1> QED BY <1>1, <1>2, <1>3, <1>4

\* The fields of a state.
LEMMA StateFields ==
  ASSUME NEW s \in State
  PROVE  /\ s.prim \in Addr /\ s.mask \in 0 .. 255 /\ s.sec \in Addr /\ s.sec_mask \in 0 .. 255
         /\ s.link \in Addr /\ s.flag \in BOOLEAN /\ s.nsl \subseteq Addr /\ s.nbr \subseteq Neigh
         /\ s.rcvd \in Seq(Block)
  BY DEF State

\* The assignments to several fields of a state that the program makes.
LEMMA StartedAnew ==
  ASSUME NEW s \in State, NEW a \in Addr, NEW b \in Addr, NEW v \in 0 .. 255, NEW w \in 0 .. 255,
         NEW q \in Seq(Block)
  PROVE  LET t == [s EXCEPT !.prim = a, !.mask = v, !.sec = b, !.sec_mask = w, !.rcvd = q]
         IN  t \in State
  BY DEF State

LEMMA LinkChanged ==
  ASSUME NEW s \in State, NEW f \in BOOLEAN, NEW a \in Addr, NEW b \in Addr, NEW v \in 0 .. 255
  PROVE  LET t == [s EXCEPT !.flag = f, !.sec = a, !.link = b, !.sec_mask = v]
         IN  t \in State /\ t.nsl = s.nsl /\ t.prim = s.prim /\ t.flag = f
  BY DEF State

LEMMA NeighborAdded ==
  ASSUME NEW s \in State, NEW e \in Neigh
  PROVE  LET t == [s EXCEPT !.nbr = @ \cup {e}]
         IN  t \in State /\ t.nsl = s.nsl /\ t.flag = s.flag /\ t.sec = s.sec /\ t.link = s.link
             /\ t.prim = s.prim
  BY DEF State

\* Two states of which the second knows the secondary addresses the first does,
\* and has a secondary address only if the first one has it.
Keeps(s, t) ==
  /\ t \in State
  /\ s.nsl \subseteq t.nsl
  /\ t.flag => s.flag /\ t.sec = s.sec /\ t.link = s.link

LEMMA CheckIfIAmOnlyFacts ==
  ASSUME NEW s \in State
  PROVE  LET t == CheckIfIAmOnly(s)
         IN  /\ t \in State /\ t.nsl = s.nsl
             /\ Lonely(s) => t.nbr = {}
             /\ ~ Lonely(s) => t = s
  <1>1. CASE Lonely(s)
    <2> DEFINE t == [s EXCEPT !.prim = Root, !.mask = 0, !.sec = None, !.sec_mask = 0, !.rcvd = <<>>]
    <2>0. Root \in Addr /\ None \in Addr
      BY AddrFacts
    <2>1. t \in State /\ t.nsl = s.nsl /\ t.nbr = s.nbr
      <3> DEFINE z == 0
                 q == <<>>
      <3>1. z \in 0 .. 255 /\ q \in Seq(Block)
        OBVIOUS
      <3> DEFINE u == [s EXCEPT !.prim = Root, !.mask = z, !.sec = None, !.sec_mask = z, !.rcvd = q]
      <3> HIDE DEF z, q
      <3>2. u \in State
        BY <2>0, <3>1, StartedAnew
      <3>3. u.nsl = s.nsl /\ u.nbr = s.nbr
        BY DEF State
      <3> QED BY <3>2, <3>3 DEF z, q
    <2>2. CheckIfIAmOnly(s) = t
      BY <1>1 DEF CheckIfIAmOnly
    <2> QED BY <1>1, <2>1, <2>2 DEF Lonely
  <1>2. CASE ~ Lonely(s)
    BY <1>2 DEF CheckIfIAmOnly
  <1> QED BY <1>1, <1>2

\* The fields of a state can be replaced one by one.
LEMMA SetMask ==
  ASSUME NEW s \in State, NEW v \in 0 .. 255, NEW t, t = [s EXCEPT !.mask = v]
  PROVE  t \in State /\ t.nsl = s.nsl /\ t.prim = s.prim
  <1> DEFINE M == 0 .. 255
             Fields == [prim : Addr, mask : M, sec : Addr, sec_mask : M, link : Addr, flag : BOOLEAN,
                        avai : BOOLEAN, timer : BOOLEAN, nsl : SUBSET Addr, nbr : SUBSET Neigh,
                        rcvd : Seq(Block)]
  <1>1. State = Fields /\ v \in M
    BY DEF State
  <1> HIDE DEF M
  <1>2. t \in Fields /\ t.nsl = s.nsl /\ t.prim = s.prim
    BY <1>1, Zenon
  <1> QED BY <1>1, <1>2

LEMMA SetRcvd ==
  ASSUME NEW s \in State, NEW v \in Seq(Block), NEW t, t = [s EXCEPT !.rcvd = v]
  PROVE  t \in State /\ t.nsl = s.nsl /\ t.prim = s.prim
  <1> DEFINE M == 0 .. 255
             Fields == [prim : Addr, mask : M, sec : Addr, sec_mask : M, link : Addr, flag : BOOLEAN,
                        avai : BOOLEAN, timer : BOOLEAN, nsl : SUBSET Addr, nbr : SUBSET Neigh,
                        rcvd : Seq(Block)]
  <1>1. State = Fields
    BY DEF State
  <1> HIDE DEF M
  <1>2. t \in Fields /\ t.nsl = s.nsl /\ t.prim = s.prim
    BY <1>1, Zenon
  <1> QED BY <1>1, <1>2

LEMMA ReturnedFacts ==
  ASSUME NEW s \in State
  PROVE  Returned(s) \in State /\ Returned(s).nsl = s.nsl /\ Returned(s).prim = s.prim
  <1>1. CASE s.mask = s.sec_mask
    <2>1. Byte(s.mask + 255) \in 0 .. 255
      <3>1. s.mask \in 0 .. 255
        BY StateFields
      <3> QED BY <3>1 DEF Byte
    <2> DEFINE v == Byte(s.mask + 255)
    <2>2. Returned(s) = [s EXCEPT !.mask = v] /\ v \in 0 .. 255
      BY <1>1, <2>1 DEF Returned
    <2> HIDE DEF v
    <2> QED BY <2>2, SetMask
  <1>2. CASE s.mask # s.sec_mask
    <2>1. [addr |-> s.sec, mask |-> s.sec_mask] \in Block
      BY StateFields DEF Block
    <2>2. Append(s.rcvd, [addr |-> s.sec, mask |-> s.sec_mask]) \in Seq(Block)
      BY <2>1, StateFields, AppendFacts
    <2> DEFINE v == Append(s.rcvd, [addr |-> s.sec, mask |-> s.sec_mask])
    <2>3. Returned(s) = [s EXCEPT !.rcvd = v] /\ v \in Seq(Block)
      BY <1>2, <2>2 DEF Returned
    <2> HIDE DEF v
    <2> QED BY <2>3, SetRcvd
  <1> QED BY <1>1, <1>2

LEMMA CheckNeighFacts ==
  ASSUME NEW s \in State
  PROVE  LET t == CheckNeighOfSecondaryAddress(s)
         IN  /\ t \in State /\ t.nsl = s.nsl /\ t.prim = s.prim
             /\ t.flag => t = s /\ s.nbr # {}
  <1>1. CASE s.flag /\ ~ LinkStands(s)
    <2> DEFINE r == Returned(s)
               t == [r EXCEPT !.flag = FALSE, !.sec = None, !.link = None, !.sec_mask = 0]
    <2>1. r \in State /\ r.nsl = s.nsl /\ r.prim = s.prim
      BY ReturnedFacts
    <2> HIDE DEF r
    <2>2. t \in State /\ t.nsl = r.nsl /\ t.prim = r.prim /\ t.flag = FALSE
      <3>1. None \in Addr /\ FALSE \in BOOLEAN /\ 0 \in 0 .. 255
        BY AddrFacts
      <3> QED BY <2>1, <3>1, LinkChanged
    <2>3. CheckNeighOfSecondaryAddress(s) = t
      BY <1>1 DEF CheckNeighOfSecondaryAddress, r
    <2> QED BY <2>1, <2>2, <2>3
  <1>2. CASE ~ (s.flag /\ ~ LinkStands(s))
    BY <1>2 DEF CheckNeighOfSecondaryAddress, LinkStands
  <1> QED BY <1>1, <1>2

\* The checks of send_hb: a node that is not alone keeps its address, and one
\* that still has a secondary address afterwards has the one it had.
LEMMA CheckedFacts ==
  ASSUME NEW s \in State
  PROVE  Keeps(s, Checked(s)) /\ (~ Lonely(s) => Checked(s).prim = s.prim)
  <1> DEFINE r == CheckIfIAmOnly(s)
             t == CheckNeighOfSecondaryAddress(r)
  <1>1. r \in State /\ r.nsl = s.nsl /\ (Lonely(s) => r.nbr = {}) /\ (~ Lonely(s) => r = s)
    BY CheckIfIAmOnlyFacts
  <1> HIDE DEF r
  <1>2. t \in State /\ t.nsl = r.nsl /\ t.prim = r.prim /\ (t.flag => t = r /\ r.nbr # {})
    BY <1>1, CheckNeighFacts
  <1>3. Checked(s) = t
    BY DEF Checked, CheckNslTable, r
  <1> HIDE DEF t
  <1> QED BY <1>1, <1>2, <1>3 DEF Keeps

\* What a node proposes is a space.
LEMMA ProposalsAreBlocks ==
  ASSUME NEW s \in State, NEW a
  PROVE  Proposals(s, a) \subseteq Block
  <1>1. ChkSecAddr(s, a) \subseteq Block
    <2>1. CASE RecoveredNextTo(s, a) # {}
      <3>1. \A i \in DOMAIN s.rcvd : s.rcvd[i] \in Block
        BY StateFields
      <3> QED BY <2>1, <3>1 DEF ChkSecAddr, RecoveredNextTo
    <2>2. CASE RecoveredNextTo(s, a) = {}
      <3>1. \A i \in OwnNextTo(s, a) : i \in Bits
        <4>1. s.mask \in 0 .. 255
          BY StateFields
        <4> QED BY <4>1, DimAssumption DEF OwnNextTo, Bits
      <3>2. \A i \in OwnNextTo(s, a) : s.prim \cup {i} \in Addr /\ i + 1 \in 0 .. 255
        BY <3>1, StateFields, AddrFacts DEF Addr
      <3> QED BY <2>2, <3>2 DEF ChkSecAddr, Block
    <2> QED BY <2>1, <2>2
  <1> QED BY <1>1 DEF Proposals

\* A heartbeat that a node in state s sends.
LEMMA BeatFields ==
  ASSUME NEW n \in Node, NEW s \in State, NEW m \in Beats(n, s)
  PROVE  m.from \in Addr /\ m.len \in 0 .. 255
  <1>1. s.prim \in Addr /\ s.sec \in Addr /\ Inicial[n] \in 0 .. 255
    BY StateFields, AddrFacts
  <1>2. PICK a \in {s.prim, s.sec} :
          m = [from |-> a, src |-> s.prim, addr |-> s.sec, len |-> Inicial[n]]
    BY DEF Beats
  <1> QED BY <1>1, <1>2

LEMMA ProcessHbFacts ==
  ASSUME NEW s \in State, NEW m, m.from \in Addr, m.len \in 0 .. 255
  PROVE  Keeps(s, ProcessHb(s, m)) /\ ProcessHb(s, m).prim = s.prim
  <1> DEFINE t == AddNeighbor(s, m.from, m.len)
             u == [s EXCEPT !.avai = FALSE, !.timer = TRUE]
  <1>1. t \in State /\ t.nsl = s.nsl /\ t.flag = s.flag /\ t.sec = s.sec /\ t.link = s.link
        /\ t.prim = s.prim
    <2>1. [addr |-> m.from, inicial |-> m.len] \in Neigh
      BY DEF Neigh
    <2> QED BY <2>1, NeighborAdded DEF AddNeighbor
  <1>2. u \in State /\ u.nsl = s.nsl /\ u.flag = s.flag /\ u.sec = s.sec /\ u.link = s.link
        /\ u.prim = s.prim
    BY DEF State
  <1>3. ProcessHb(s, m) \in {s, t, u}
    BY DEF ProcessHb
  <1> HIDE DEF t, u
  <1> QED BY <1>1, <1>2, <1>3 DEF Keeps

\* del_rcvd_addr_table leaves a list of spaces.
LEMMA DelRcvdType ==
  ASSUME NEW q \in Seq(Block), NEW a
  PROVE  DelRcvd(q, a) \in Seq(Block)
  <1> DEFINE S == {i \in DOMAIN q : q[i].addr = a}
             First(i) == q[i].addr = a /\ \A j \in 1 .. i - 1 : q[j].addr # a
             f == CHOOSE i \in DOMAIN q : First(i)
  <1>1. CASE S = {}
    BY <1>1 DEF DelRcvd
  <1>2. CASE S # {}
    <2>1. S \subseteq Nat /\ DOMAIN q = 1 .. Len(q) /\ Len(q) \in Nat
      OBVIOUS
    <2>2. PICK i \in S : \A j \in S : i <= j
      BY <1>2, <2>1, LeastNat
    <2>3. i \in DOMAIN q /\ First(i)
      <3>1. ASSUME NEW j \in 1 .. i - 1, q[j].addr = a PROVE FALSE
        <4>1. j \in S /\ j < i /\ j \in Nat /\ i \in Nat
          BY <2>1, <3>1
        <4> QED BY <2>2, <4>1
      <3> QED BY <3>1
    <2>4. f \in DOMAIN q
      BY <2>3
    <2>5. DelRcvd(q, a) = RemoveAt(q, f)
      BY <1>2 DEF DelRcvd
    <2> HIDE DEF f
    <2> QED BY <2>4, <2>5, RemoveAtFacts
  <1> QED BY <1>1, <1>2

LEMMA TimerExpired ==
  ASSUME NEW s \in State
  PROVE  [s EXCEPT !.timer = FALSE, !.avai = TRUE] \in State
  BY DEF State

\* The fields of a packet.
LEMMA MessageFields ==
  ASSUME NEW m \in Message
  PROVE  m.from \in Addr /\ m.addr \in Addr /\ m.mask \in 0 .. 255 /\ m.len \in 0 .. 255
  BY DEF Message

LEMMA NearInNode == ASSUME NEW n \in Node PROVE Near(n) \subseteq Node \ {n}
  BY DEF Near

\* send_sap1 sends packets, all of them SAPs.
LEMMA SapsAreMessages ==
  ASSUME TypeInvariant, NEW n \in Node, NEW m, m.from \in Addr
  PROVE  SendSap(n, m) \subseteq Message /\ \A k \in SendSap(n, m) : k.type = "SAP"
  <1>1. node[n] \in State /\ node[n].prim \in Addr
    BY StateFields DEF TypeInvariant
  <1>2. Proposals(node[n], m.from) \subseteq Block
    BY <1>1, ProposalsAreBlocks
  <1>3. ASSUME NEW b \in Block
        PROVE  [type |-> "SAP", from |-> node[n].prim, to |-> m.from, addr |-> b.addr,
                mask |-> b.mask, len |-> 0, hear |-> Near(n)] \in Message
    BY <1>1, NearInNode DEF Block, Message
  <1> QED BY <1>2, <1>3 DEF SendSap

-----------------------------------------------------------------------------
\* One node goes to another state.
LEMMA OneState ==
  ASSUME TypeInvariant, NEW n \in Node, NEW t \in State, Is(n, t)
  PROVE  /\ node' \in [Node -> State] /\ node'[n] = t
         /\ \A k \in Node \ {n} : node'[k] = node[k]
  BY DEF TypeInvariant, Is

LEMMA KeepsItself == ASSUME NEW s \in State PROVE Keeps(s, s)
  BY DEF Keeps

\* A step after which no link is new: no state loses an entry of its
\* n_s_l_table or gets a secondary address, and no SAN is sent.
LEMMA NoNewLink ==
  ASSUME LInv, TypeInvariant',
         \A n \in Node : Keeps(node[n], node'[n]),
         \A n \in Node : Member(n)' => Member(n) /\ node'[n].prim = node[n].prim,
         \A m \in net' : m \in net \/ m.type = "SAP"
  PROVE  LInv'
  <1>1. MembersKeepPrim'
    BY DEF LInv, MembersKeepPrim
  <1>2. SanIsKnown'
    BY DEF LInv, SanIsKnown, Keeps
  <1>3. SecIsKnown'
    BY DEF LInv, SecIsKnown, Keeps
  <1> QED BY <1>1, <1>2, <1>3 DEF LInv

\* ... in which one node changes and all else stays.
LEMMA OneNoNewLink ==
  ASSUME LInv, NEW n \in Node, NEW t, Is(n, t), Keeps(node[n], t), t.prim = node[n].prim,
         net' \subseteq net, UNCHANGED <<status, apart, moves>>,
         given' \in [Node -> Seq(Block)], faulty' \subseteq Node
  PROVE  LInv'
  <1>1. TypeInvariant /\ t \in State
    BY DEF LInv, Keeps
  <1>2. /\ node' \in [Node -> State] /\ node'[n] = t
        /\ \A k \in Node \ {n} : node'[k] = node[k]
    BY <1>1, OneState
  <1>3. TypeInvariant'
    BY <1>1, <1>2 DEF TypeInvariant
  <1>4. \A k \in Node : Keeps(node[k], node'[k]) /\ node'[k].prim = node[k].prim
    BY <1>1, <1>2, KeepsItself DEF TypeInvariant
  <1>5. \A k \in Node : Member(k)' => Member(k)
    BY DEF Member
  <1> QED BY <1>3, <1>4, <1>5, NoNewLink

LEMMA InitLInv == Init => LInv
  <1> SUFFICES ASSUME Init PROVE LInv
    OBVIOUS
  <1>1. PICK f \in Starts :
          node = [n \in Node |->
                   [prim |-> PrimAddr[n], mask |-> f[n].mask, sec |-> None, sec_mask |-> 0,
                    link |-> None, flag |-> FALSE, avai |-> TRUE, timer |-> FALSE, nsl |-> {},
                    nbr |-> f[n].nbr, rcvd |-> f[n].rcvd]]
    BY DEF Init
  <1>2. ASSUME NEW n \in Node
        PROVE  node[n] \in State /\ node[n].prim = PrimAddr[n] /\ node[n].flag = FALSE
    <2> DEFINE mk == f[n].mask
               nb == f[n].nbr
               rc == f[n].rcvd
    <2>1. mk \in 0 .. 255 /\ nb \subseteq Neigh /\ rc \in Seq(Block)
      <3>1. mk \in 0 .. Dim /\ nb \subseteq Neigh /\ rc \in Seq(Block) /\ Dim <= 255
        BY SecondaryAssumption
      <3> HIDE DEF mk, nb, rc
      <3>2. mk \in 0 .. 255
        BY <3>1, DimAssumption
      <3> QED BY <3>1, <3>2
    <2>2. None \in Addr /\ PrimAddr[n] \in Addr
      BY AddrFacts
    <2>3. node[n] = [prim |-> PrimAddr[n], mask |-> mk, sec |-> None, sec_mask |-> 0,
                     link |-> None, flag |-> FALSE, avai |-> TRUE, timer |-> FALSE, nsl |-> {},
                     nbr |-> nb, rcvd |-> rc]
      BY <1>1
    <2> HIDE DEF mk, nb, rc
    <2> QED BY <2>1, <2>2, <2>3 DEF State
  <1>3. node \in [Node -> State]
    BY <1>1, <1>2
  <1>4. TypeInvariant
    BY <1>3, SecondaryAssumption DEF Init, TypeInvariant
  <1> QED BY <1>2, <1>4 DEF Init, LInv, MembersKeepPrim, SanIsKnown, SecIsKnown

LEMMA SendHbLInv ==
  ASSUME LInv, NEW n \in Node, SendHb(n)
  PROVE  LInv'
  <1>1. TypeInvariant /\ node[n] \in State
    BY DEF LInv, TypeInvariant
  <1> DEFINE c == Checked(node[n])
  <1>2. Keeps(node[n], c) /\ c \in State /\ c.prim = node[n].prim
    BY <1>1, CheckedFacts DEF SendHb, Keeps
  <1>3. UNCHANGED <<status, apart, given, faulty, moves>>
    BY DEF SendHb
  <1>4. CASE Is(n, c) /\ UNCHANGED net
    <2>1. given' \in [Node -> Seq(Block)] /\ faulty' \subseteq Node
      BY <1>1, <1>3 DEF TypeInvariant
    <2> HIDE DEF c
    <2> QED BY <1>2, <1>3, <1>4, <2>1, OneNoNewLink
  <1>5. ASSUME NEW k \in Near(n), NEW m \in Beats(n, c),
               node' = [node EXCEPT ![n] = Checked(@), ![k] = ProcessHb(@, m)],
               net' = net \cup SendSap(k, m)
        PROVE  LInv'
    <2> DEFINE d == ProcessHb(node[k], m)
    <2>1. k \in Node /\ k # n /\ node[k] \in State
      BY <1>1, <1>5, NearInNode DEF TypeInvariant
    <2>2. m.from \in Addr /\ m.len \in 0 .. 255
      BY <1>2, BeatFields
    <2>3. Keeps(node[k], d) /\ d.prim = node[k].prim
      BY <2>1, <2>2, ProcessHbFacts
    <2>4. node'[n] = c /\ node'[k] = d /\ \A l \in Node \ {n, k} : node'[l] = node[l]
          /\ DOMAIN node' = Node
      BY <1>1, <1>5, <2>1 DEF TypeInvariant
    <2>5. node' = [l \in Node |-> node'[l]]
      BY <1>1, <1>5 DEF TypeInvariant
    <2> HIDE DEF c, d
    <2>6. \A l \in Node : Keeps(node[l], node'[l]) /\ node'[l].prim = node[l].prim
      BY <1>1, <1>2, <2>3, <2>4, KeepsItself DEF TypeInvariant
    <2>7. node' \in [Node -> State]
      BY <2>5, <2>6 DEF Keeps
    <2>8. SendSap(k, m) \subseteq Message /\ \A p \in SendSap(k, m) : p.type = "SAP"
      BY <1>1, <2>1, <2>2, SapsAreMessages
    <2>9. TypeInvariant'
      BY <1>1, <1>3, <1>5, <2>7, <2>8 DEF TypeInvariant
    <2>10. \A l \in Node : Member(l)' => Member(l)
      BY <1>3 DEF Member
    <2> QED BY <1>5, <2>6, <2>8, <2>9, <2>10, NoNewLink
  <1> QED BY <1>4, <1>5 DEF SendHb

\* process_sap1: the address is in the n_s_l_table before the SAN is sent.
LEMMA ProcessSapLInv ==
  ASSUME LInv, NEW n \in Node, NEW m \in net, ProcessSap(n, m)
  PROVE  LInv'
  <1> DEFINE t == AddNsl(node[n], m.addr)
             k == [type |-> "SAN", from |-> node[n].prim, to |-> m.from, addr |-> m.addr,
                   mask |-> m.mask, len |-> node[n].mask, hear |-> Near(n)]
  <1>1. TypeInvariant /\ node[n] \in State /\ m \in Message
    BY DEF LInv, TypeInvariant
  <1>2. /\ t \in State /\ t.nsl = node[n].nsl \cup {m.addr} /\ t.flag = node[n].flag
        /\ t.sec = node[n].sec /\ t.link = node[n].link /\ t.prim = node[n].prim
    <2>1. m.addr \in Addr
      BY <1>1, MessageFields
    <2> QED BY <1>1, <2>1 DEF AddNsl, State
  <1>3. k \in Message
    <2>1. node[n].prim \in Addr /\ node[n].mask \in 0 .. 255 /\ Near(n) \subseteq Node
      BY <1>1, StateFields, NearInNode
    <2>2. m.from \in Addr /\ m.addr \in Addr /\ m.mask \in 0 .. 255
      BY <1>1, MessageFields
    <2> QED BY <2>1, <2>2 DEF Message
  <1>4. Is(n, t) /\ net' = (net \ {m}) \cup {k} /\ UNCHANGED <<status, apart, given, faulty, moves>>
        /\ Member(n)
    BY DEF ProcessSap
  <1>5. k.type = "SAN" /\ k.from = node[n].prim /\ k.addr = m.addr
    OBVIOUS
  <1> HIDE DEF t, k
  <1>6. /\ node' \in [Node -> State] /\ node'[n] = t
        /\ \A l \in Node \ {n} : node'[l] = node[l]
    BY <1>1, <1>2, <1>4, OneState
  <1>7. TypeInvariant'
    BY <1>1, <1>3, <1>4, <1>6 DEF TypeInvariant
  <1>8. \A l \in Node : /\ node'[l].prim = node[l].prim /\ node[l].nsl \subseteq node'[l].nsl
                        /\ node'[l].flag = node[l].flag /\ node'[l].sec = node[l].sec
                        /\ node'[l].link = node[l].link
    BY <1>2, <1>6
  <1>9. MembersKeepPrim'
    BY <1>4, <1>8 DEF LInv, MembersKeepPrim, Member
  <1>10. SanIsKnown'
    <2>1. node[n].prim = PrimAddr[n]
      BY <1>4 DEF LInv, MembersKeepPrim
    <2>2. \A l \in Node : k.from = PrimAddr[l] => l = n
      BY <1>5, <2>1, SecondaryAssumption
    <2> QED BY <1>2, <1>4, <1>5, <1>6, <1>8, <2>2 DEF LInv, SanIsKnown
  <1>11. SecIsKnown'
    BY <1>8 DEF LInv, SecIsKnown
  <1> QED BY <1>7, <1>9, <1>10, <1>11 DEF LInv

\* process_san1: the address and the end of the link are those of the SAN.
LEMMA ProcessSanLInv ==
  ASSUME LInv, NEW n \in Node, NEW m \in net, ProcessSan(n, m)
  PROVE  LInv'
  <1> DEFINE s == node[n]
             w == MaskAfterSan(s, m)
             q == DelRcvd(s.rcvd, m.addr)
             t == [s EXCEPT !.sec = m.addr, !.sec_mask = m.mask, !.flag = TRUE, !.avai = TRUE,
                            !.mask = w, !.rcvd = q, !.link = m.from]
             u == AddNeighbor(t, m.from, m.len)
  <1>1. TypeInvariant /\ s \in State /\ m \in Message
    BY DEF LInv, TypeInvariant
  <1>2. /\ m.from \in Addr /\ m.addr \in Addr /\ m.mask \in 0 .. 255 /\ m.len \in 0 .. 255
    BY <1>1, MessageFields
  <1>3. m.type = "SAN" /\ net' = net \ {m} /\ UNCHANGED <<apart, given, faulty, moves>>
    BY DEF ProcessSan
  <1>4. CASE s.nbr = {} /\ status' = [status EXCEPT ![n] = "crashed"] /\ UNCHANGED node
    <2>1. TypeInvariant'
      BY <1>1, <1>3, <1>4 DEF TypeInvariant
    <2>2. \A l \in Node : Keeps(node[l], node'[l]) /\ (Member(l)' => Member(l))
      BY <1>1, <1>4, KeepsItself DEF TypeInvariant, Member
    <2> QED BY <1>3, <1>4, <2>1, <2>2, NoNewLink
  <1>5. CASE Is(n, u) /\ UNCHANGED status
    <2>1. w \in 0 .. 255 /\ q \in Seq(Block)
      <3>1. s.mask \in 0 .. 255 /\ s.rcvd \in Seq(Block)
        BY <1>1, StateFields
      <3> QED BY <1>2, <3>1, DelRcvdType DEF MaskAfterSan
    <2>2. t \in State /\ t.nsl = s.nsl /\ t.prim = s.prim /\ t.sec = m.addr /\ t.link = m.from
      <3> HIDE DEF w, q, s
      <3> DEFINE M == 0 .. 255
                 Fields == [prim : Addr, mask : M, sec : Addr, sec_mask : M, link : Addr, flag : BOOLEAN,
                            avai : BOOLEAN, timer : BOOLEAN, nsl : SUBSET Addr, nbr : SUBSET Neigh,
                            rcvd : Seq(Block)]
      <3>1. State = Fields /\ s \in State
        BY <1>1 DEF State
      <3>2. m.addr \in Addr /\ m.mask \in M /\ m.from \in Addr /\ w \in M /\ q \in Seq(Block)
        BY <1>2, <2>1
      <3> HIDE DEF M
      <3>3. t \in Fields /\ t.nsl = s.nsl /\ t.prim = s.prim /\ t.sec = m.addr /\ t.link = m.from
        BY ONLY <3>1, <3>2, Zenon
      <3> QED BY <3>1, <3>3
    <2> HIDE DEF t
    <2>3. /\ u \in State /\ u.nsl = t.nsl /\ u.flag = t.flag /\ u.sec = t.sec /\ u.link = t.link
          /\ u.prim = t.prim
      <3>1. [addr |-> m.from, inicial |-> m.len] \in Neigh
        BY <1>2 DEF Neigh
      <3> QED BY <2>2, <3>1, NeighborAdded DEF AddNeighbor
    <2> HIDE DEF u
    <2>4. /\ node' \in [Node -> State] /\ node'[n] = u
          /\ \A l \in Node \ {n} : node'[l] = node[l]
      BY <1>1, <1>5, <2>3, OneState
    <2>5. TypeInvariant'
      BY <1>1, <1>3, <1>5, <2>4 DEF TypeInvariant
    <2>6. \A l \in Node : node'[l].prim = node[l].prim /\ node'[l].nsl = node[l].nsl
      BY <2>2, <2>3, <2>4
    <2>7. MembersKeepPrim'
      BY <1>5, <2>6 DEF LInv, MembersKeepPrim, Member
    <2>8. SanIsKnown'
      BY <1>3, <2>6 DEF LInv, SanIsKnown
    <2>9. SecIsKnown'
      <3>1. \A l \in Node : m.from = PrimAddr[l] => m.addr \in node[l].nsl
        BY <1>3 DEF LInv, SanIsKnown
      <3>2. node'[n].sec = m.addr /\ node'[n].link = m.from
        BY <2>2, <2>3, <2>4
      <3> QED BY <2>4, <2>6, <3>1, <3>2 DEF LInv, SecIsKnown
    <2> QED BY <2>5, <2>7, <2>8, <2>9 DEF LInv
  <1> QED BY <1>4, <1>5 DEF ProcessSan

\* A node joins: the spaces that are given away are spaces.
LEMMA JoinLInv ==
  ASSUME LInv, NEW n \in Node, Join(n)
  PROVE  LInv'
  <1> DEFINE s == node[n]
             half == [addr |-> Flip(s.prim, s.mask), mask |-> s.mask + 1]
  <1>1. TypeInvariant /\ s \in State
    BY DEF LInv, TypeInvariant
  <1>2. s.prim \in Addr /\ s.mask \in 0 .. 255 /\ s.rcvd \in Seq(Block)
    BY <1>1, StateFields
  <1>3. UNCHANGED <<status, net, apart, moves>>
    BY DEF Join
  <1>4. ASSUME NEW b \in Block, Gives(n, b)
        PROVE  given' \in [Node -> Seq(Block)] /\ faulty' \subseteq Node
    <2>1. given[n] \in Seq(Block)
      BY <1>1 DEF TypeInvariant
    <2>2. Append(given[n], b) \in Seq(Block)
      BY <2>1, AppendFacts
    <2>3. given' \in [Node -> Seq(Block)]
      BY <1>1, <1>4, <2>2 DEF Gives, TypeInvariant
    <2> QED BY <1>1, <1>4, <2>3 DEF Gives, TypeInvariant
  <1>5. CASE s.rcvd # <<>> /\ Gives(n, Last(s.rcvd)) /\ Is(n, [s EXCEPT !.rcvd = Front(@)])
    <2> DEFINE q == Front(s.rcvd)
               t == [s EXCEPT !.rcvd = q]
    <2>1. Last(s.rcvd) \in Block /\ q \in Seq(Block)
      BY <1>2, <1>5 DEF Last, Front
    <2> HIDE DEF q
    <2>2. t \in State /\ Keeps(s, t) /\ t.prim = s.prim
      <3>1. t \in State
        BY <1>1, <2>1 DEF State
      <3>2. t.prim = s.prim /\ t.nsl = s.nsl /\ t.flag = s.flag /\ t.sec = s.sec /\ t.link = s.link
        BY <1>1 DEF State
      <3> HIDE DEF t
      <3> QED BY <3>1, <3>2 DEF Keeps
    <2>3. Is(n, t)
      BY <1>5 DEF q
    <2> HIDE DEF t
    <2> QED BY <1>3, <1>4, <1>5, <2>1, <2>2, <2>3, OneNoNewLink
  <1>6. CASE s.mask < Dim /\ Gives(n, half) /\ Is(n, [s EXCEPT !.mask = @ + 1])
    <2> DEFINE v == s.mask + 1
               t == [s EXCEPT !.mask = v]
    <2>1. s.mask \in Bits
      <3> DEFINE x == s.mask
      <3>1. x < Dim /\ x \in 0 .. 255
        BY <1>2, <1>6
      <3> HIDE DEF x
      <3>2. x \in Bits
        BY <3>1, DimAssumption DEF Bits
      <3> QED BY <3>2 DEF x
    <2>2. v \in 0 .. 255 /\ Flip(s.prim, s.mask) \in Addr
      BY <1>2, <2>1, AddrFacts DEF Flip, Addr
    <2>3. half \in Block
      BY <2>2 DEF Block
    <2> HIDE DEF v
    <2>4. t \in State /\ Keeps(s, t) /\ t.prim = s.prim
      <3>1. t \in State
        BY <1>1, <2>2 DEF State
      <3>2. t.prim = s.prim /\ t.nsl = s.nsl /\ t.flag = s.flag /\ t.sec = s.sec /\ t.link = s.link
        BY <1>1 DEF State
      <3> HIDE DEF t
      <3> QED BY <3>1, <3>2 DEF Keeps
    <2>5. Is(n, t)
      BY <1>6 DEF v
    <2> HIDE DEF t, half
    <2> QED BY <1>3, <1>4, <1>6, <2>3, <2>4, <2>5, OneNoNewLink
  <1> QED BY <1>5, <1>6 DEF Join

\* A neighbour is given up, and the space of a successor recovered.
LEMMA GivenUpFacts ==
  ASSUME NEW s \in State, NEW e \in s.nbr
  PROVE  /\ Recovers(s, e) \in Seq(Block) /\ GivenUp(s, e) \in State
         /\ Keeps(s, GivenUp(s, e)) /\ GivenUp(s, e).prim = s.prim
  <1> DEFINE q == s.rcvd \o Recovers(s, e)
             N == s.nbr \ {e}
             t == [s EXCEPT !.nbr = N, !.rcvd = q]
  <1>1. s.rcvd \in Seq(Block) /\ s.nbr \subseteq Neigh
    BY StateFields
  <1>2. [addr |-> e.addr, mask |-> e.inicial] \in Block
    BY <1>1 DEF Neigh, Block
  <1>3. Recovers(s, e) \in Seq(Block)
    BY <1>2 DEF Recovers
  <1>4. q \in Seq(Block) /\ N \subseteq Neigh
    BY <1>1, <1>3
  <1>5. GivenUp(s, e) = t
    BY DEF GivenUp
  <1> HIDE DEF q, N
  <1>6. t \in State
    BY <1>4 DEF State
  <1>7. t.prim = s.prim /\ t.nsl = s.nsl /\ t.flag = s.flag /\ t.sec = s.sec /\ t.link = s.link
    BY DEF State
  <1> HIDE DEF t
  <1> QED BY <1>3, <1>5, <1>6, <1>7 DEF Keeps

LEMMA ExpireLInv ==
  ASSUME LInv, NEW n \in Node, NEW e \in node[n].nbr, Expire(n, e)
  PROVE  LInv'
  <1> DEFINE t == IF Hangs(n, e) THEN node[n] ELSE GivenUp(node[n], e)
  <1>1. TypeInvariant /\ node[n] \in State
    BY DEF LInv, TypeInvariant
  <1>2. t \in State /\ Keeps(node[n], t) /\ t.prim = node[n].prim
    BY <1>1, GivenUpFacts, KeepsItself
  <1>3. Is(n, t) /\ UNCHANGED <<net, apart, given, moves>> /\ faulty' \subseteq Node
        /\ status' = [status EXCEPT ![n] = IF Hangs(n, e) THEN "crashed" ELSE @]
    BY <1>1 DEF Expire, TypeInvariant
  <1> HIDE DEF t
  <1>4. /\ node' \in [Node -> State] /\ node'[n] = t
        /\ \A k \in Node \ {n} : node'[k] = node[k]
    BY <1>1, <1>2, <1>3, OneState
  <1>5. TypeInvariant'
    BY <1>1, <1>3, <1>4 DEF TypeInvariant
  <1>6. \A k \in Node : Keeps(node[k], node'[k]) /\ node'[k].prim = node[k].prim
    BY <1>1, <1>2, <1>4, KeepsItself DEF TypeInvariant
  <1>7. \A k \in Node : Member(k)' => Member(k)
    BY <1>1, <1>3 DEF Member, TypeInvariant
  <1> QED BY <1>3, <1>5, <1>6, <1>7, NoNewLink

LEMMA StepLInv == LInv /\ [Next]_vars => LInv'
  <1> SUFFICES ASSUME LInv, [Next]_vars PROVE LInv'
    OBVIOUS
  <1>t. TypeInvariant /\ \A n \in Node : node[n] \in State
    BY DEF LInv, TypeInvariant
  <1>n. ASSUME UNCHANGED <<node, status>>, net' \subseteq net, TypeInvariant' PROVE LInv'
    BY <1>t, <1>n, KeepsItself, NoNewLink DEF Member
  <1>1. ASSUME NEW n \in Node, SendHb(n) PROVE LInv'
    BY <1>1, SendHbLInv
  <1>2. ASSUME NEW n \in Node, SendHbAlone(n) PROVE LInv'
    <2> DEFINE c == Checked(node[n])
    <2>1. Keeps(node[n], c) /\ c \in State /\ Is(n, c)
      BY <1>t, <1>2, CheckedFacts DEF SendHbAlone, Keeps
    <2> HIDE DEF c
    <2>2. /\ node' \in [Node -> State] /\ node'[n] = c
          /\ \A k \in Node \ {n} : node'[k] = node[k]
      BY <1>t, <2>1, OneState
    <2>3. TypeInvariant'
      BY <1>t, <1>2, <2>2 DEF SendHbAlone, TypeInvariant
    <2>4. \A k \in Node : Member(k)' => Member(k) /\ k # n
      BY <1>t, <1>2 DEF SendHbAlone, Member, TypeInvariant
    <2>5. \A k \in Node : Keeps(node[k], node'[k])
      BY <1>t, <2>1, <2>2, KeepsItself
    <2>6. net' = net
      BY <1>2 DEF SendHbAlone
    <2> QED BY <2>2, <2>3, <2>4, <2>5, <2>6, NoNewLink
  <1>3. ASSUME NEW n \in Node, SanTimeout(n) PROVE LInv'
    <2> DEFINE s == node[n]
               t == [s EXCEPT !.timer = FALSE, !.avai = TRUE]
    <2>1. t \in State
      BY <1>t, TimerExpired
    <2>2. t.prim = s.prim /\ t.nsl = s.nsl /\ t.flag = s.flag /\ t.sec = s.sec /\ t.link = s.link
      BY <1>t DEF State
    <2>3. Is(n, t) /\ UNCHANGED <<status, net, apart, given, faulty, moves>>
      BY <1>3 DEF SanTimeout
    <2> HIDE DEF t
    <2>4. Keeps(s, t)
      BY <2>1, <2>2 DEF Keeps
    <2>5. given' \in [Node -> Seq(Block)] /\ faulty' \subseteq Node
      BY <1>t, <2>3 DEF TypeInvariant
    <2> QED BY <2>2, <2>3, <2>4, <2>5, OneNoNewLink
  <1>4. ASSUME NEW n \in Node, Join(n) PROVE LInv'
    BY <1>4, JoinLInv
  <1>5. ASSUME NEW n \in Node, NEW m \in net, ProcessSap(n, m) PROVE LInv'
    BY <1>5, ProcessSapLInv
  <1>6. ASSUME NEW n \in Node, NEW m \in net, ProcessSan(n, m) PROVE LInv'
    BY <1>6, ProcessSanLInv
  <1>7. ASSUME NEW n \in Node, NEW e \in node[n].nbr, Expire(n, e) PROVE LInv'
    BY <1>7, ExpireLInv
  <1>8. ASSUME NEW p \in Movable, Move(p) PROVE LInv'
    <2>1. TypeInvariant'
      BY <1>t, <1>8, SecondaryAssumption DEF Move, TypeInvariant
    <2> QED BY <1>n, <1>8, <2>1 DEF Move
  <1>9. ASSUME NEW m \in net, Lose(m) PROVE LInv'
    <2>1. TypeInvariant'
      BY <1>t, <1>9 DEF Lose, TypeInvariant
    <2> QED BY <1>n, <1>9, <2>1 DEF Lose
  <1>10. CASE UNCHANGED vars
    <2>1. TypeInvariant'
      BY <1>t, <1>10 DEF vars, TypeInvariant
    <2> QED BY <1>n, <1>10, <2>1 DEF vars
  <1> QED BY <1>1, <1>2, <1>3, <1>4, <1>5, <1>6, <1>7, <1>8, <1>9, <1>10 DEF Next

(***************************************************************************)
(* The variables of Secondary keep their types: above all, the masks stay  *)
(* in an unsigned char, also the one that check_neigh_of_secondary_address *)
(* lowers.                                                                 *)
(***************************************************************************)
THEOREM TypeCorrect == Spec => []TypeInvariant
  <1>1. LInv => TypeInvariant
    BY DEF LInv
  <1> QED BY <1>1, InitLInv, StepLInv, PTL DEF Spec

(***************************************************************************)
(* Whatever SAPs and SANs are lost or late, and however often secondary    *)
(* addresses are taken and dropped, the node at the other end of a         *)
(* secondary link has its address in its n_s_l_table (process_sap1).       *)
(***************************************************************************)
THEOREM LinksAreKnown == Spec => []LinkIsKnown
  <1>1. LInv => LinkIsKnown
    BY DEF LInv, MembersKeepPrim, SecIsKnown, LinkIsKnown
  <1> QED BY <1>1, InitLInv, StepLInv, PTL DEF Spec

-----------------------------------------------------------------------------
Whole(b) == Space(b.addr, b.mask)
Own(s) == Space(s.prim, s.mask)
Second(s) == IF s.flag THEN Space(s.sec, s.sec_mask) ELSE {}
SecBlock(s) == [addr |-> s.sec, mask |-> s.sec_mask]

Disjoint(A, B) == A \cap B = {}

-----------------------------------------------------------------------------
\* Subcubes.
LEMMA OwnAddress ==
  ASSUME NEW a \in Addr, NEW m
  PROVE  a \in Space(a, m)
  BY DEF Space, InSpace

LEMMA SmallerSpace ==
  ASSUME NEW a, NEW m \in Nat, NEW k \in Nat, m <= k
  PROVE  Space(a, k) \subseteq Space(a, m)
  BY DimAssumption DEF Space, InSpace, Bits

\* Masks are numbers, and those of halves are bytes.
LEMMA MaskFacts ==
  /\ \A v \in 0 .. 255 : v \in Nat
  /\ \A v \in Nat : \A w : v < Dim /\ w = v + 1 => w \in 1 .. Dim /\ w - 1 = v /\ w \in 0 .. 255
  <1>1. Dim <= 255
    BY SecondaryAssumption
  <1> QED BY <1>1, DimAssumption

\* Two spaces meet where they have an address in common.
LEMMA MeetFacts ==
  ASSUME NEW b, NEW c, b.addr \in Addr, c.addr \in Addr, b.mask \in Nat, c.mask \in Nat
  PROVE  Meet(b, c) <=> ~Disjoint(Whole(b), Whole(c))
  <1>1. ASSUME Meet(b, c), b.mask <= c.mask PROVE c.addr \in Whole(b) /\ c.addr \in Whole(c)
    BY <1>1 DEF Meet, Whole, Space, InSpace
  <1>2. ASSUME Meet(b, c), ~(b.mask <= c.mask) PROVE b.addr \in Whole(b) /\ b.addr \in Whole(c)
    BY <1>2 DEF Meet, Whole, Space, InSpace
  <1>3. ASSUME NEW x, x \in Whole(b), x \in Whole(c) PROVE Meet(b, c)
    <2> DEFINE m == IF b.mask <= c.mask THEN b.mask ELSE c.mask
    <2>1. \A i \in Bits : i < m => i < b.mask /\ i < c.mask
      BY DimAssumption DEF Bits
    <2>2. Meet(b, c) <=> InSpace(b.addr, c.addr, m)
      BY DEF Meet
    <2> HIDE DEF m
    <2> QED BY <1>3, <2>1, <2>2 DEF Whole, Space, InSpace
  <1> QED BY <1>1, <1>2, <1>3 DEF Disjoint

\* A half of the space of a: outside of what is left, inside of what there was.
LEMMA HalfFacts ==
  ASSUME NEW a \in Addr, NEW b, IsHalf(a, b)
  PROVE  /\ b.addr \in Addr /\ b.mask \in Nat /\ b.mask - 1 \in Bits
         /\ \A m \in Nat : b.mask <= m => Disjoint(Space(a, m), Whole(b))
         /\ \A m \in Nat : m <= b.mask - 1 => Whole(b) \subseteq Space(a, m)
         /\ Space(a, b.mask - 1) \subseteq Space(a, b.mask) \cup Whole(b)
  <1> DEFINE i == b.mask - 1
  <1>1. i \in Bits /\ b.mask = i + 1 /\ b.mask \in Nat /\ i \in Nat
    BY DimAssumption DEF IsHalf, Bits
  <1>2. b.addr = Flip(a, i) /\ b.addr \in Addr
    BY <1>1 DEF IsHalf, Flip, Addr
  <1>3. /\ i \in b.addr <=> i \notin a
        /\ \A c \in Bits : c # i => (c \in b.addr <=> c \in a)
    BY <1>2 DEF Flip
  <1> HIDE DEF i
  <1>4. ASSUME NEW m \in Nat, b.mask <= m PROVE Disjoint(Space(a, m), Whole(b))
    <2>1. i < m /\ i < b.mask
      BY <1>1, <1>4
    <2> QED BY <1>1, <1>3, <2>1 DEF Disjoint, Space, InSpace, Whole
  <1>5. ASSUME NEW m \in Nat, m <= i PROVE Whole(b) \subseteq Space(a, m)
    <2>1. \A c \in Bits : c < m => c # i /\ c < b.mask
      BY <1>1, <1>5, DimAssumption DEF Bits
    <2> QED BY <1>3, <2>1 DEF Space, InSpace, Whole
  <1>6. Space(a, i) \subseteq Space(a, b.mask) \cup Whole(b)
    <2>1. \A c \in Bits : c < b.mask => c = i \/ c < i
      BY <1>1, DimAssumption DEF Bits
    <2>2. ASSUME NEW x \in Space(a, i), i \in x <=> i \in a PROVE x \in Space(a, b.mask)
      BY <2>1, <2>2 DEF Space, InSpace
    <2>3. ASSUME NEW x \in Space(a, i), ~(i \in x <=> i \in a) PROVE x \in Whole(b)
      BY <1>3, <2>1, <2>3 DEF Space, InSpace, Whole
    <2> QED BY <2>2, <2>3
  <1> QED BY <1>1, <1>2, <1>4, <1>5, <1>6 DEF i

\* Two halves are the same or apart.
LEMMA HalvesApart ==
  ASSUME NEW a \in Addr, NEW b, NEW c, IsHalf(a, b), IsHalf(a, c)
  PROVE  \/ b.addr = c.addr /\ b.mask = c.mask
         \/ b.addr # c.addr /\ b.mask # c.mask /\ Disjoint(Whole(b), Whole(c))
  <1>1. ASSUME NEW d, NEW e, IsHalf(a, d), IsHalf(a, e), d.mask < e.mask
        PROVE  Disjoint(Whole(d), Whole(e)) /\ d.addr # e.addr
    <2>1. d.mask \in Nat /\ e.mask \in Nat /\ d.mask <= e.mask - 1
          /\ d.addr \in Addr /\ e.addr \in Addr
      BY <1>1, HalfFacts
    <2>2. Disjoint(Space(a, d.mask), Whole(d)) /\ Whole(e) \subseteq Space(a, d.mask)
      BY <1>1, <2>1, HalfFacts
    <2>3. d.addr \in Whole(d) /\ e.addr \in Whole(e)
      BY <2>1, OwnAddress DEF Whole
    <2> QED BY <2>2, <2>3 DEF Disjoint
  <1>2. b.mask \in Nat /\ c.mask \in Nat
    BY HalfFacts
  <1>3. CASE b.mask = c.mask
    BY <1>3 DEF IsHalf
  <1>4. CASE b.mask < c.mask
    BY <1>1, <1>2, <1>4
  <1>5. CASE c.mask < b.mask
    BY <1>1, <1>2, <1>5 DEF Disjoint
  <1> QED BY <1>2, <1>3, <1>4, <1>5

LEMMA HalfDist ==
  ASSUME NEW a \in Addr, NEW b, IsHalf(a, b)
  PROVE  Dist(b.addr, a) = 1
  <1> DEFINE i == b.mask - 1
  <1>1. b.addr = Flip(a, i)
    BY DEF IsHalf
  <1> HIDE DEF i
  <1>2. Diff(b.addr, a) = {i}
    BY <1>1 DEF Diff, Flip
  <1> QED BY <1>2, FS_Singleton DEF Dist

-----------------------------------------------------------------------------
(***************************************************************************)
(* What a node in state s administers, g being what it gave away and F the *)
(* packets with what it proposed.                                          *)
(***************************************************************************)
InRealm(x, s, g, F) ==
  \/ x \in Own(s) \/ x \in Second(s)
  \/ \E i \in DOMAIN s.rcvd : x \in Whole(s.rcvd[i])
  \/ \E i \in DOMAIN g : x \in Whole(g[i])
  \/ \E b \in F : x \in Whole(b)

\* What it takes as a secondary address, and what is next to it, are halves.
Halves(s, F) ==
  /\ s.mask <= Dim
  /\ s.flag => IsHalf(s.prim, SecBlock(s))
  /\ \A b \in F : IsHalf(s.prim, b)
  /\ \A i \in DOMAIN s.rcvd :
       Dist(s.rcvd[i].addr, s.prim) = 1 => IsHalf(s.prim, s.rcvd[i])

AllApart(q) == \A i, j \in DOMAIN q : i # j => Disjoint(Whole(q[i]), Whole(q[j]))

\* The spaces of one node are disjoint.
OwnApart(s, g) ==
  /\ Disjoint(Own(s), Second(s))
  /\ \A i \in DOMAIN s.rcvd : /\ Disjoint(Whole(s.rcvd[i]), Own(s))
                              /\ Disjoint(Whole(s.rcvd[i]), Second(s))
  /\ \A i \in DOMAIN g : Disjoint(Whole(g[i]), Own(s)) /\ Disjoint(Whole(g[i]), Second(s))
  /\ AllApart(s.rcvd) /\ AllApart(g)
  /\ \A i \in DOMAIN s.rcvd, j \in DOMAIN g : Disjoint(Whole(s.rcvd[i]), Whole(g[j]))

\* What it proposed was not given away; if it was recovered, it is a whole entry.
ProposedApart(s, g, F) ==
  \A b \in F :
    /\ \A i \in DOMAIN g : Disjoint(Whole(b), Whole(g[i]))
    /\ \A i \in DOMAIN s.rcvd :
         s.rcvd[i].addr = b.addr \/ Disjoint(Whole(b), Whole(s.rcvd[i]))

Tidy(s, g, F) == Halves(s, F) /\ OwnApart(s, g) /\ ProposedApart(s, g, F)

\* The realm of a node grows no further.
Within(t, h, E, s, g, F) == \A x : InRealm(x, t, h, E) => InRealm(x, s, g, F)

\* The fields that say what a node administers.
SameRealm(s, t) ==
  /\ t.prim = s.prim /\ t.mask = s.mask /\ t.rcvd = s.rcvd
  /\ t.flag = s.flag /\ t.sec = s.sec /\ t.sec_mask = s.sec_mask

\* The packets in E say no more than those in F.
NoMore(E, F) == \A b \in E : \E c \in F : b.addr = c.addr /\ b.mask = c.mask

LEMMA QuietTidy ==
  ASSUME NEW s, NEW t, NEW g, NEW F, NEW E, Tidy(s, g, F), SameRealm(s, t), NoMore(E, F)
  PROVE  Tidy(t, g, E) /\ Within(t, g, E, s, g, F)
  <1>1. Own(t) = Own(s) /\ Second(t) = Second(s) /\ SecBlock(t) = SecBlock(s)
    BY DEF SameRealm, Own, Second, SecBlock
  <1>2. \A b \in E : \E c \in F : /\ b.addr = c.addr /\ Whole(b) = Whole(c)
                                  /\ IsHalf(s.prim, c) => IsHalf(s.prim, b)
    BY DEF NoMore, Whole, IsHalf
  <1>3. Halves(t, E)
    BY <1>1, <1>2 DEF Tidy, Halves, SameRealm
  <1>4. OwnApart(t, g)
    BY <1>1 DEF Tidy, OwnApart, SameRealm
  <1>5. ProposedApart(t, g, E)
    BY <1>2 DEF Tidy, ProposedApart, SameRealm
  <1>6. Within(t, g, E, s, g, F)
    BY <1>1, <1>2 DEF Within, InRealm, SameRealm
  <1> QED BY <1>3, <1>4, <1>5, <1>6 DEF Tidy

\* check_neigh_of_secondary_address, when the half of the secondary address is the
\* next one to give.
LEMMA LowerTidy ==
  ASSUME NEW s \in State, NEW t, NEW g, NEW F, Tidy(s, g, F), s.flag, s.mask = s.sec_mask,
         t.prim = s.prim, t.mask = s.mask - 1, t.rcvd = s.rcvd, ~t.flag
  PROVE  Tidy(t, g, F) /\ Within(t, g, F, s, g, F)
  <1>1. s.prim \in Addr /\ s.mask \in Nat /\ s.mask <= Dim
    <2>1. s.prim \in Addr /\ s.mask \in 0 .. 255
      BY StateFields
    <2>2. s.mask <= Dim
      BY DEF Tidy, Halves
    <2> QED BY <2>1, <2>2
  <1>2. IsHalf(s.prim, SecBlock(s)) /\ SecBlock(s).mask = s.mask
    BY DEF Tidy, Halves, SecBlock
  <1>3. Whole(SecBlock(s)) = Second(s) /\ Second(t) = {}
    BY DEF Whole, Second, SecBlock
  <1>4. Own(t) \subseteq Own(s) \cup Second(s)
    BY <1>1, <1>2, <1>3, HalfFacts DEF Own
  <1>5. Halves(t, F)
    BY <1>1, DimAssumption DEF Tidy, Halves
  <1>6. OwnApart(t, g)
    BY <1>3, <1>4 DEF Tidy, OwnApart, Disjoint
  <1>7. ProposedApart(t, g, F)
    BY DEF Tidy, ProposedApart
  <1>8. Within(t, g, F, s, g, F)
    BY <1>3, <1>4 DEF Within, InRealm
  <1> QED BY <1>5, <1>6, <1>7, <1>8 DEF Tidy

\* ... and when it is not: it becomes a recovered space.
LEMMA RaiseTidy ==
  ASSUME NEW s \in State, NEW t, NEW g, NEW F, Tidy(s, g, F), s.flag,
         t.prim = s.prim, t.mask = s.mask, t.rcvd = Append(s.rcvd, SecBlock(s)), ~t.flag
  PROVE  Tidy(t, g, F) /\ Within(t, g, F, s, g, F)
  <1> DEFINE b == SecBlock(s)
  <1>1. s.rcvd \in Seq(Block) /\ b \in Block /\ s.prim \in Addr
    BY StateFields DEF SecBlock, Block
  <1>2. IsHalf(s.prim, b) /\ Whole(b) = Second(s) /\ Second(t) = {} /\ Own(t) = Own(s)
    BY DEF Tidy, Halves, SecBlock, Whole, Second, Own
  <1> HIDE DEF b
  <1>3. \A i \in DOMAIN t.rcvd : IF i \in DOMAIN s.rcvd THEN t.rcvd[i] = s.rcvd[i]
                                 ELSE i = Len(s.rcvd) + 1 /\ t.rcvd[i] = b
    BY <1>1, AppendFacts DEF b
  <1>4. Halves(t, F)
    BY <1>2, <1>3 DEF Tidy, Halves
  <1>5. AllApart(t.rcvd)
    <2> SUFFICES ASSUME NEW i \in DOMAIN t.rcvd, NEW j \in DOMAIN t.rcvd, i # j
                 PROVE  Disjoint(Whole(t.rcvd[i]), Whole(t.rcvd[j]))
      BY DEF AllApart
    <2>1. \A k \in DOMAIN s.rcvd : Disjoint(Whole(s.rcvd[k]), Whole(b))
      BY <1>2 DEF Tidy, OwnApart
    <2> QED BY <1>3, <2>1 DEF Tidy, OwnApart, AllApart, Disjoint
  <1>6. OwnApart(t, g)
    BY <1>2, <1>3, <1>5 DEF Tidy, OwnApart, Disjoint
  <1>7. ProposedApart(t, g, F)
    <2>1. \A c \in F : c.addr = b.addr \/ Disjoint(Whole(c), Whole(b))
      BY <1>1, <1>2, HalvesApart DEF Tidy, Halves
    <2> QED BY <1>3, <2>1 DEF Tidy, ProposedApart
  <1>8. Within(t, g, F, s, g, F)
    BY <1>2, <1>3 DEF Within, InRealm
  <1> QED BY <1>4, <1>6, <1>7, <1>8 DEF Tidy

LEMMA CheckNeighTidy ==
  ASSUME NEW s \in State, NEW g, NEW F, Tidy(s, g, F)
  PROVE  LET t == CheckNeighOfSecondaryAddress(s)
         IN  Tidy(t, g, F) /\ Within(t, g, F, s, g, F)
  <1>1. CASE s.flag /\ ~LinkStands(s)
    <2> DEFINE r == Returned(s)
               t == [r EXCEPT !.flag = FALSE, !.sec = None, !.link = None, !.sec_mask = 0]
    <2>1. CheckNeighOfSecondaryAddress(s) = t
      BY <1>1 DEF CheckNeighOfSecondaryAddress
    <2>2. r \in State
      BY ReturnedFacts
    <2>3. /\ s.mask = s.sec_mask => r.mask = s.mask - 1 /\ r.rcvd = s.rcvd
          /\ s.mask # s.sec_mask => r.mask = s.mask /\ r.rcvd = Append(s.rcvd, SecBlock(s))
      <3>1. CASE s.mask = s.sec_mask
        <4>1. s.mask \in 1 .. 255
          BY <1>1, <3>1, StateFields DEF Tidy, Halves, IsHalf, SecBlock
        <4>2. Byte(s.mask + 255) = s.mask - 1
          BY <4>1 DEF Byte
        <4> QED BY <3>1, <4>2 DEF Returned, State
      <3>2. CASE s.mask # s.sec_mask
        BY <3>2 DEF Returned, State, SecBlock
      <3> QED BY <3>1, <3>2
    <2>4. r.prim = s.prim
      BY ReturnedFacts
    <2> HIDE DEF r
    <2>5. t.prim = r.prim /\ t.mask = r.mask /\ t.rcvd = r.rcvd /\ ~t.flag
      BY <2>2 DEF State
    <2> HIDE DEF t
    <2> QED BY <1>1, <2>1, <2>3, <2>4, <2>5, LowerTidy, RaiseTidy
  <1>2. CASE ~(s.flag /\ ~LinkStands(s))
    <2>1. CheckNeighOfSecondaryAddress(s) = s
      BY <1>2 DEF CheckNeighOfSecondaryAddress
    <2> QED BY <2>1 DEF Within
  <1> QED BY <1>1, <1>2

\* send_sap1 proposes a recovered space, or a half that is still to be given.
LEMMA ProposalFacts ==
  ASSUME NEW s \in State, NEW g, NEW F, Tidy(s, g, F), NEW a, NEW b \in Proposals(s, a)
  PROVE  /\ IsHalf(s.prim, b)
         /\ \/ \E i \in DOMAIN s.rcvd : b = s.rcvd[i]
            \/ Whole(b) \subseteq Own(s)
  <1>1. b \in ChkSecAddr(s, a) /\ Dist(b.addr, s.prim) = 1
    BY DEF Proposals
  <1>2. CASE RecoveredNextTo(s, a) # {}
    <2>1. PICK i \in DOMAIN s.rcvd : b = s.rcvd[i]
      BY <1>1, <1>2 DEF ChkSecAddr, RecoveredNextTo
    <2> QED BY <1>1, <2>1 DEF Tidy, Halves
  <1>3. CASE RecoveredNextTo(s, a) = {}
    <2>1. PICK i \in OwnNextTo(s, a) : b = [addr |-> s.prim \cup {i}, mask |-> i + 1]
      BY <1>1, <1>3 DEF ChkSecAddr
    <2>2. s.prim \in Addr /\ s.mask \in 0 .. 255
      BY StateFields
    <2>3. i \in Nat /\ s.mask <= i /\ i < Dim /\ i \notin s.prim
      BY <2>2, DimAssumption DEF OwnNextTo
    <2>4. IsHalf(s.prim, b)
      <3>1. b.mask = i + 1 /\ b.mask - 1 = i /\ b.mask \in 1 .. Dim
        BY <2>1, <2>3, DimAssumption
      <3>2. b.addr = Flip(s.prim, i)
        BY <2>1, <2>3 DEF Flip
      <3> QED BY <3>1, <3>2 DEF IsHalf
    <2>5. s.mask \in Nat /\ s.mask <= b.mask - 1
      BY <2>1, <2>2, <2>3
    <2> QED BY <2>2, <2>4, <2>5, HalfFacts DEF Own
  <1> QED BY <1>2, <1>3

LEMMA ProposeTidy ==
  ASSUME NEW s \in State, NEW t, NEW g, NEW F, NEW E, Tidy(s, g, F), SameRealm(s, t),
         NEW a, NEW b \in Proposals(s, a), NoMore(E, F \cup {b})
  PROVE  Tidy(t, g, E) /\ Within(t, g, E, s, g, F)
  <1>1. IsHalf(s.prim, b)
    BY ProposalFacts
  <1>2. \/ \E i \in DOMAIN s.rcvd : b = s.rcvd[i]
        \/ Whole(b) \subseteq Own(s)
    BY ProposalFacts
  <1>3. \A i \in DOMAIN g : Disjoint(Whole(b), Whole(g[i]))
    BY <1>2 DEF Tidy, OwnApart, Disjoint
  <1>4. \A i \in DOMAIN s.rcvd : s.rcvd[i].addr = b.addr \/ Disjoint(Whole(b), Whole(s.rcvd[i]))
    BY <1>2 DEF Tidy, OwnApart, AllApart, Disjoint
  <1>5. Tidy(s, g, F \cup {b})
    BY <1>1, <1>3, <1>4 DEF Tidy, Halves, ProposedApart
  <1>6. Within(s, g, F \cup {b}, s, g, F)
    BY <1>2 DEF Within, InRealm
  <1>7. Tidy(t, g, E) /\ Within(t, g, E, s, g, F \cup {b})
    BY <1>5, QuietTidy
  <1> QED BY <1>6, <1>7 DEF Within

\* del_rcvd_addr_table: the other entries stay.
LEMMA DelRcvdFacts ==
  ASSUME NEW q \in Seq(Block), NEW a,
         \A i, j \in DOMAIN q : q[i].addr = a /\ q[j].addr = a => i = j
  PROVE  \E f \in [DOMAIN DelRcvd(q, a) -> DOMAIN q] :
           \A i, j \in DOMAIN DelRcvd(q, a) :
             /\ DelRcvd(q, a)[i] = q[f[i]] /\ q[f[i]].addr # a
             /\ f[i] = f[j] => i = j
  <1>1. CASE ~ \E i \in DOMAIN q : q[i].addr = a
    <2>1. DelRcvd(q, a) = q
      BY <1>1 DEF DelRcvd
    <2> DEFINE f == [i \in DOMAIN q |-> i]
    <2>2. f \in [DOMAIN q -> DOMAIN q] /\ \A i \in DOMAIN q : f[i] = i
      OBVIOUS
    <2> HIDE DEF f
    <2> QED BY <1>1, <2>1, <2>2
  <1>2. ASSUME NEW k \in DOMAIN q, q[k].addr = a
        PROVE  \E f \in [DOMAIN DelRcvd(q, a) -> DOMAIN q] :
                 \A i, j \in DOMAIN DelRcvd(q, a) :
                   /\ DelRcvd(q, a)[i] = q[f[i]] /\ q[f[i]].addr # a
                   /\ f[i] = f[j] => i = j
    <2> DEFINE First(i) == q[i].addr = a /\ \A j \in 1 .. i - 1 : q[j].addr # a
               r == DelRcvd(q, a)
               f == [j \in 1 .. Len(q) - 1 |-> IF j < k THEN j ELSE j + 1]
    <2>1. DOMAIN q = 1 .. Len(q) /\ Len(q) \in Nat /\ k \in 1 .. Len(q)
      OBVIOUS
    <2>2. First(k)
      <3>1. ASSUME NEW j \in 1 .. k - 1 PROVE q[j].addr # a
        <4>1. j \in DOMAIN q /\ j # k
          BY <2>1
        <4> QED BY <1>2, <4>1
      <3> QED BY <1>2, <3>1
    <2>3. k = CHOOSE i \in DOMAIN q : First(i)
      BY <1>2, <2>2
    <2>4. r = RemoveAt(q, k)
      BY <1>2, <2>3 DEF DelRcvd
    <2> HIDE DEF r, First
    <2>5. DOMAIN r = 1 .. Len(q) - 1
          /\ \A j \in 1 .. Len(q) - 1 : r[j] = IF j < k THEN q[j] ELSE q[j + 1]
      BY <2>4, RemoveAtFacts
    <2>6. /\ f \in [DOMAIN r -> DOMAIN q]
          /\ \A j \in DOMAIN r : f[j] = (IF j < k THEN j ELSE j + 1) /\ f[j] # k /\ f[j] \in DOMAIN q
      BY <2>1, <2>5
    <2> HIDE DEF f
    <2>7. \A j \in DOMAIN r : r[j] = q[f[j]] /\ q[f[j]].addr # a
      BY <1>2, <2>5, <2>6
    <2>8. \A i, j \in DOMAIN r : f[i] = f[j] => i = j
      BY <2>1, <2>5, <2>6
    <2> QED BY <2>6, <2>7, <2>8 DEF r
  <1> QED BY <1>1, <1>2

\* process_san1: the half is taken out of what there is to give.
LEMMA SanTidy ==
  ASSUME NEW s \in State, NEW t, NEW g, NEW F, NEW E, Tidy(s, g, F), NoMore(E, F), NEW m \in F,
         t.prim = s.prim, t.mask = MaskAfterSan(s, m), t.rcvd = DelRcvd(s.rcvd, m.addr),
         t.flag, t.sec = m.addr, t.sec_mask = m.mask
  PROVE  Tidy(t, g, E) /\ Within(t, g, E, s, g, F)
  <1>1. s.prim \in Addr /\ s.mask \in 0 .. 255 /\ s.rcvd \in Seq(Block)
    BY StateFields
  <1>2. IsHalf(s.prim, m) /\ m.addr \in Addr /\ m.mask \in Nat /\ m.mask <= Dim
    <2>1. IsHalf(s.prim, m)
      BY DEF Tidy, Halves
    <2> QED BY <1>1, <2>1, HalfFacts, DimAssumption DEF IsHalf
  <1>3. t.mask = IF s.mask < m.mask THEN m.mask ELSE s.mask
    BY <1>1, <1>2, HalfDist DEF MaskAfterSan
  <1>4. t.mask \in Nat /\ s.mask \in Nat /\ s.mask <= t.mask /\ m.mask <= t.mask
    <2>1. \A v \in Nat, w \in Nat : LET u == IF v < w THEN w ELSE v
                                   IN  u \in Nat /\ v <= u /\ w <= u
      OBVIOUS
    <2>2. s.mask \in Nat
      BY <1>1, MaskFacts
    <2> QED BY <1>2, <1>3, <2>1, <2>2
  <1>5. t.mask <= Dim
    BY <1>2, <1>3 DEF Tidy, Halves
  <1>6. Own(t) \subseteq Own(s)
    BY <1>4, SmallerSpace DEF Own
  <1>7. Second(t) = Whole(m) /\ IsHalf(t.prim, SecBlock(t))
    BY <1>2 DEF Second, Whole, SecBlock, IsHalf
  <1>8. Disjoint(Own(t), Second(t))
    BY <1>1, <1>2, <1>4, <1>7, HalfFacts DEF Own
  <1>9. \A i, j \in DOMAIN s.rcvd : s.rcvd[i].addr = m.addr /\ s.rcvd[j].addr = m.addr => i = j
    <2> SUFFICES ASSUME NEW i \in DOMAIN s.rcvd, NEW j \in DOMAIN s.rcvd, i # j,
                        s.rcvd[i].addr = m.addr, s.rcvd[j].addr = m.addr
                 PROVE  FALSE
      OBVIOUS
    <2>1. m.addr \in Whole(s.rcvd[i]) /\ m.addr \in Whole(s.rcvd[j])
      BY <1>2, OwnAddress DEF Whole
    <2> QED BY <2>1 DEF Tidy, OwnApart, AllApart, Disjoint
  <1>10. PICK f \in [DOMAIN t.rcvd -> DOMAIN s.rcvd] :
           \A i, j \in DOMAIN t.rcvd :
             /\ t.rcvd[i] = s.rcvd[f[i]] /\ s.rcvd[f[i]].addr # m.addr
             /\ f[i] = f[j] => i = j
    BY <1>1, <1>9, DelRcvdFacts
  <1>11. \A i \in DOMAIN t.rcvd : Disjoint(Whole(t.rcvd[i]), Second(t))
    BY <1>7, <1>10 DEF Tidy, ProposedApart, Disjoint
  <1>12. \A i \in DOMAIN g : Disjoint(Whole(g[i]), Second(t))
    BY <1>7 DEF Tidy, ProposedApart, Disjoint
  <1>13. Tidy(s, g, E)
    BY QuietTidy DEF SameRealm
  <1>14. Halves(t, E)
    BY <1>5, <1>7, <1>10, <1>13 DEF Tidy, Halves
  <1>15. AllApart(t.rcvd)
    BY <1>10 DEF Tidy, OwnApart, AllApart
  <1>16. OwnApart(t, g)
    BY <1>6, <1>8, <1>10, <1>11, <1>12, <1>15 DEF Tidy, OwnApart, Disjoint
  <1>17. ProposedApart(t, g, E)
    BY <1>10, <1>13 DEF Tidy, ProposedApart
  <1>18. Within(t, g, E, s, g, F)
    <2>1. \A x : InRealm(x, t, g, E) => InRealm(x, s, g, F) \/ \E c \in E : x \in Whole(c)
      BY <1>6, <1>7, <1>10 DEF InRealm
    <2>2. \A c \in E : \E d \in F : Whole(c) = Whole(d)
      BY DEF NoMore, Whole
    <2> QED BY <2>1, <2>2 DEF Within, InRealm
  <1> QED BY <1>14, <1>16, <1>17, <1>18 DEF Tidy

\* Something is given away: g gets another entry, which is in none of the others.
LEMMA GivenApart ==
  ASSUME NEW g \in Seq(Block), NEW b \in Block, AllApart(g),
         \A i \in DOMAIN g : Disjoint(Whole(g[i]), Whole(b))
  PROVE  LET h == Append(g, b)
         IN  /\ AllApart(h)
             /\ \A i \in DOMAIN h : (i \in DOMAIN g /\ h[i] = g[i]) \/ h[i] = b
  <1> DEFINE h == Append(g, b)
  <1>1. \A i \in DOMAIN h : IF i \in DOMAIN g THEN h[i] = g[i] ELSE i = Len(g) + 1 /\ h[i] = b
    BY AppendFacts
  <1> HIDE DEF h
  <1>2. AllApart(h)
    BY <1>1 DEF AllApart, Disjoint
  <1> QED BY <1>1, <1>2 DEF h

\* send_panc gives the last recovered space away.
LEMMA JoinRecoveredTidy ==
  ASSUME NEW s \in State, NEW t, NEW g \in Seq(Block), NEW F, Tidy(s, g, F), s.rcvd # <<>>,
         t.prim = s.prim, t.mask = s.mask, t.flag = s.flag, t.sec = s.sec, t.sec_mask = s.sec_mask,
         t.rcvd = Front(s.rcvd),
         \A c \in F : Disjoint(Whole(c), Whole(Last(s.rcvd)))
  PROVE  LET h == Append(g, Last(s.rcvd))
         IN  Tidy(t, h, F) /\ Within(t, h, F, s, g, F)
  <1> DEFINE l == Len(s.rcvd)
             b == Last(s.rcvd)
             h == Append(g, b)
  <1>1. s.rcvd \in Seq(Block) /\ l \in Nat /\ DOMAIN s.rcvd = 1 .. l /\ l # 0
    BY StateFields
  <1>2. b = s.rcvd[l] /\ l \in DOMAIN s.rcvd /\ b \in Block
    BY <1>1 DEF Last
  <1>3. \A i \in DOMAIN t.rcvd : i \in DOMAIN s.rcvd /\ i # l /\ t.rcvd[i] = s.rcvd[i]
    BY <1>1 DEF Front
  <1> HIDE DEF l, b
  <1>4. \A i \in DOMAIN g : Disjoint(Whole(g[i]), Whole(b))
    BY <1>2 DEF Tidy, OwnApart, Disjoint
  <1>5. AllApart(h) /\ \A i \in DOMAIN h : (i \in DOMAIN g /\ h[i] = g[i]) \/ h[i] = b
    BY <1>2, <1>4, GivenApart DEF Tidy, OwnApart
  <1> HIDE DEF h
  <1>6. Own(t) = Own(s) /\ Second(t) = Second(s) /\ SecBlock(t) = SecBlock(s)
    BY DEF Own, Second, SecBlock
  <1>7. Halves(t, F)
    BY <1>3, <1>6 DEF Tidy, Halves
  <1>8. AllApart(t.rcvd) /\ \A i \in DOMAIN t.rcvd : Disjoint(Whole(t.rcvd[i]), Whole(b))
    BY <1>2, <1>3 DEF Tidy, OwnApart, AllApart
  <1>9. Disjoint(Whole(b), Own(t)) /\ Disjoint(Whole(b), Second(t))
    BY <1>2, <1>6 DEF Tidy, OwnApart
  <1>10. OwnApart(t, h)
    BY <1>3, <1>5, <1>6, <1>8, <1>9 DEF Tidy, OwnApart
  <1>11. ProposedApart(t, h, F)
    BY <1>3, <1>5 DEF Tidy, ProposedApart, b
  <1>12. Within(t, h, F, s, g, F)
    BY <1>2, <1>3, <1>5, <1>6 DEF Within, InRealm
  <1> QED BY <1>7, <1>10, <1>11, <1>12 DEF Tidy, h, b

\* ... or the next half.
LEMMA JoinHalfTidy ==
  ASSUME NEW s \in State, NEW t, NEW g \in Seq(Block), NEW F, NEW b, Tidy(s, g, F),
         s.mask < Dim, b = [addr |-> Flip(s.prim, s.mask), mask |-> s.mask + 1],
         t.prim = s.prim, t.mask = s.mask + 1, t.flag = s.flag, t.sec = s.sec,
         t.sec_mask = s.sec_mask, t.rcvd = s.rcvd,
         \A c \in F : Disjoint(Whole(c), Whole(b))
  PROVE  LET h == Append(g, b)
         IN  Tidy(t, h, F) /\ Within(t, h, F, s, g, F)
  <1> DEFINE h == Append(g, b)
  <1>1. s.prim \in Addr /\ s.mask \in Nat /\ Dim <= 255 /\ s.mask \in 0 .. 255
    <2>1. s.prim \in Addr /\ s.mask \in 0 .. 255
      BY StateFields
    <2>2. s.mask \in Nat
      BY <2>1, MaskFacts
    <2>3. Dim <= 255
      BY SecondaryAssumption
    <2> QED BY <2>1, <2>2, <2>3
  <1>2. b.addr = Flip(s.prim, s.mask) /\ b.mask = s.mask + 1
    OBVIOUS
  <1>3. b.mask \in 1 .. Dim /\ b.mask - 1 = s.mask /\ b.mask \in 0 .. 255
    BY <1>1, <1>2, MaskFacts
  <1>4. IsHalf(s.prim, b)
    BY <1>2, <1>3 DEF IsHalf
  <1>5. b \in Block
    BY <1>1, <1>3, <1>4, HalfFacts DEF Block
  <1>6. Own(t) \subseteq Own(s) /\ Disjoint(Own(t), Whole(b)) /\ Whole(b) \subseteq Own(s)
    <2>1. \A v \in Nat : v <= v + 1 /\ v + 1 \in Nat
      OBVIOUS
    <2>2. s.mask <= b.mask - 1 /\ b.mask <= t.mask /\ t.mask \in Nat /\ s.mask <= t.mask
      BY <1>1, <1>2, <1>3, <2>1
    <2> QED BY <1>1, <1>4, <2>2, HalfFacts, SmallerSpace DEF Own
  <1>7. \A i \in DOMAIN g : Disjoint(Whole(g[i]), Whole(b))
    BY <1>6 DEF Tidy, OwnApart, Disjoint
  <1>8. AllApart(h) /\ \A i \in DOMAIN h : (i \in DOMAIN g /\ h[i] = g[i]) \/ h[i] = b
    BY <1>5, <1>7, GivenApart DEF Tidy, OwnApart
  <1> HIDE DEF h
  <1>9. Second(t) = Second(s) /\ SecBlock(t) = SecBlock(s)
    BY DEF Second, SecBlock
  <1>10. Halves(t, F)
    BY <1>2, <1>3, <1>9, DimAssumption DEF Tidy, Halves
  <1>11. OwnApart(t, h)
    BY <1>6, <1>8, <1>9 DEF Tidy, OwnApart, Disjoint
  <1>12. ProposedApart(t, h, F)
    BY <1>8 DEF Tidy, ProposedApart
  <1>13. Within(t, h, F, s, g, F)
    BY <1>6, <1>8, <1>9 DEF Within, InRealm
  <1> QED BY <1>10, <1>11, <1>12, <1>13 DEF Tidy, h

\* recover_addr_space takes back what nobody has: the only step after which a node
\* administers more than before.
LEMMA RecoverTidy ==
  ASSUME NEW s \in State, NEW t, NEW g, NEW F, NEW b \in Block, Tidy(s, g, F),
         t.prim = s.prim, t.mask = s.mask, t.flag = s.flag, t.sec = s.sec,
         t.sec_mask = s.sec_mask, t.rcvd = Append(s.rcvd, b),
         \A x \in Whole(b) : ~InRealm(x, s, g, F),
         Dist(b.addr, s.prim) = 1 => IsHalf(s.prim, b)
  PROVE  /\ Tidy(t, g, F)
         /\ \A x : InRealm(x, t, g, F) => InRealm(x, s, g, F) \/ x \in Whole(b)
  <1>1. \A i \in DOMAIN t.rcvd : IF i \in DOMAIN s.rcvd THEN t.rcvd[i] = s.rcvd[i]
                                 ELSE i = Len(s.rcvd) + 1 /\ t.rcvd[i] = b
    BY StateFields, AppendFacts
  <1>2. Own(t) = Own(s) /\ Second(t) = Second(s) /\ SecBlock(t) = SecBlock(s)
    BY DEF Own, Second, SecBlock
  <1>3. /\ Disjoint(Whole(b), Own(s)) /\ Disjoint(Whole(b), Second(s))
        /\ \A i \in DOMAIN s.rcvd : Disjoint(Whole(b), Whole(s.rcvd[i]))
        /\ \A i \in DOMAIN g : Disjoint(Whole(b), Whole(g[i]))
        /\ \A c \in F : Disjoint(Whole(b), Whole(c))
    BY DEF InRealm, Disjoint
  <1>4. Halves(t, F)
    BY <1>1, <1>2 DEF Tidy, Halves
  <1>5. AllApart(t.rcvd)
    BY <1>1, <1>3 DEF Tidy, OwnApart, AllApart, Disjoint
  <1>6. OwnApart(t, g)
    BY <1>1, <1>2, <1>3, <1>5 DEF Tidy, OwnApart
  <1>7. ProposedApart(t, g, F)
    BY <1>1, <1>3 DEF Tidy, ProposedApart, Disjoint
  <1>8. \A x : InRealm(x, t, g, F) => InRealm(x, s, g, F) \/ x \in Whole(b)
    BY <1>1, <1>2 DEF InRealm
  <1> QED BY <1>4, <1>6, <1>7, <1>8 DEF Tidy

-----------------------------------------------------------------------------
\* The packets with what n proposed, and the addresses that are or may become its own.
Flying(n) == {m \in net : Proposer(m) = PrimAddr[n]}

In(n, x) == InRealm(x, node[n], given[n], Flying(n))

AllTidy == \A n \in Sound : Tidy(node[n], given[n], Flying(n))

RealmsApart == \A n, k \in Sound : n # k => \A x : ~(In(n, x) /\ In(k, x))

\* Where packets go: to no address that somebody else may take.
NotForeign ==
  \A n \in Sound :
    /\ \A k \in Node \ {n} : Member(k) => ~In(n, PrimAddr[k])
    /\ \A m \in net : In(n, Proposer(m)) => Proposer(m) = PrimAddr[n]

Realms == AllTidy /\ RealmsApart /\ NotForeign

\* A step after which nobody administers more than before.
LEMMA Shrinks ==
  ASSUME Realms,
         \A n \in Sound' : /\ n \in Sound
                           /\ Tidy(node'[n], given'[n], Flying(n)')
                           /\ Within(node'[n], given'[n], Flying(n)', node[n], given[n], Flying(n)),
         \A n \in Node : Member(n)' => Member(n),
         \A m \in net' : \/ \E k \in net : Proposer(k) = Proposer(m)
                         \/ \E k \in Node : Member(k) /\ Proposer(m) = PrimAddr[k]
  PROVE  Realms'
  <1>1. ASSUME NEW n \in Sound', NEW x, In(n, x)' PROVE n \in Sound /\ In(n, x)
    BY <1>1 DEF In, Within
  <1>2. AllTidy'
    BY DEF AllTidy
  <1>3. RealmsApart'
    BY <1>1 DEF Realms, RealmsApart
  <1>4. NotForeign'
    <2> SUFFICES ASSUME NEW n \in Sound'
                 PROVE  /\ \A k \in Node \ {n} : Member(k)' => ~In(n, PrimAddr[k])'
                        /\ \A m \in net' : In(n, Proposer(m))' => Proposer(m) = PrimAddr[n]
      BY DEF NotForeign, Proposer
    <2>1. n \in Sound
      OBVIOUS
    <2>2. \A k \in Node \ {n} : Member(k) => ~In(n, PrimAddr[k])
      BY <2>1 DEF Realms, NotForeign
    <2>3. ASSUME NEW m \in net', In(n, Proposer(m))' PROVE Proposer(m) = PrimAddr[n]
      <3> DEFINE a == Proposer(m)
      <3>1. In(n, a)
        BY <1>1, <2>3
      <3>2. \A k \in net : In(n, Proposer(k)) => Proposer(k) = PrimAddr[n]
        BY <2>1 DEF Realms, NotForeign
      <3>3. \/ \E k \in net : Proposer(k) = a
            \/ \E k \in Node : Member(k) /\ a = PrimAddr[k]
        OBVIOUS
      <3> HIDE DEF a
      <3>4. a = PrimAddr[n]
        BY <2>2, <3>1, <3>2, <3>3
      <3> QED BY <3>4 DEF a
    <2> QED BY <1>1, <2>2, <2>3
  <1> QED BY <1>2, <1>3, <1>4 DEF Realms

\* The packets say no more than before.
NetNoMore ==
  \A m \in net' : \E k \in net : Proposer(m) = Proposer(k) /\ m.addr = k.addr /\ m.mask = k.mask

\* ... in which one node changes, and nothing new is proposed.
LEMMA OneShrinks ==
  ASSUME LInv, Realms, NEW n \in Node, NetNoMore,
         n \in Sound' =>
           /\ n \in Sound
           /\ Tidy(node'[n], given'[n], Flying(n)')
           /\ Within(node'[n], given'[n], Flying(n)', node[n], given[n], Flying(n)),
         \A k \in Node \ {n} : SameRealm(node[k], node'[k]) /\ given'[k] = given[k],
         \A k \in Node \ {n} : k \in Sound' => k \in Sound,
         \A k \in Node : Member(k)' => Member(k)
  PROVE  Realms'
  <1>1. \A k \in Node : NoMore(Flying(k)', Flying(k))
    BY DEF NetNoMore, NoMore, Flying, Proposer
  <1>2. ASSUME NEW k \in Sound', k # n
        PROVE  /\ k \in Sound
               /\ Tidy(node'[k], given'[k], Flying(k)')
               /\ Within(node'[k], given'[k], Flying(k)', node[k], given[k], Flying(k))
    <2>1. k \in Node
      BY DEF Sound
    <2>2. k \in Sound /\ Tidy(node[k], given[k], Flying(k))
      BY <1>2, <2>1 DEF Realms, AllTidy
    <2> QED BY <1>1, <1>2, <2>1, <2>2, QuietTidy
  <1>3. \A m \in net' : \E k \in net : Proposer(k) = Proposer(m)
    BY DEF NetNoMore
  <1> QED BY <1>2, <1>3, Shrinks

\* ... in which not even that one administers less.
LEMMA QuietRealms ==
  ASSUME LInv, Realms, NetNoMore, UNCHANGED given,
         \A k \in Node : SameRealm(node[k], node'[k]),
         \A k \in Node : k \in Sound' => k \in Sound,
         \A k \in Node : Member(k)' => Member(k)
  PROVE  Realms'
  <1>1. \A k \in Node : NoMore(Flying(k)', Flying(k))
    BY DEF NetNoMore, NoMore, Flying, Proposer
  <1>2. ASSUME NEW k \in Sound'
        PROVE  /\ k \in Sound
               /\ Tidy(node'[k], given'[k], Flying(k)')
               /\ Within(node'[k], given'[k], Flying(k)', node[k], given[k], Flying(k))
    <2>1. k \in Node
      BY DEF Sound
    <2>2. k \in Sound /\ Tidy(node[k], given[k], Flying(k))
      BY <1>2, <2>1 DEF Realms, AllTidy
    <2> QED BY <1>1, <1>2, <2>1, <2>2, QuietTidy
  <1>3. \A m \in net' : \E k \in net : Proposer(k) = Proposer(m)
    BY DEF NetNoMore
  <1> QED BY <1>2, <1>3, Shrinks

LEMMA SoundStays ==
  ASSUME UNCHANGED <<status, faulty>>
  PROVE  Sound' = Sound /\ \A n \in Node : Member(n)' = Member(n)
  BY DEF Sound, Member

LEMMA NetSame == ASSUME net' \subseteq net PROVE NetNoMore
  BY DEF NetNoMore

-----------------------------------------------------------------------------
\* The steps.
LEMMA CheckedTidy ==
  ASSUME NEW s \in State, ~Lonely(s), NEW g, NEW F, Tidy(s, g, F)
  PROVE  Tidy(Checked(s), g, F) /\ Within(Checked(s), g, F, s, g, F)
  <1>1. Checked(s) = CheckNeighOfSecondaryAddress(s)
    BY DEF Checked, CheckNslTable, CheckIfIAmOnly
  <1> QED BY <1>1, CheckNeighTidy

LEMMA ProcessHbSame ==
  ASSUME NEW s \in State, NEW m
  PROVE  SameRealm(s, ProcessHb(s, m))
  <1> DEFINE t == AddNeighbor(s, m.from, m.len)
             u == [s EXCEPT !.avai = FALSE, !.timer = TRUE]
  <1>1. SameRealm(s, t)
    BY DEF AddNeighbor, State, SameRealm
  <1>2. SameRealm(s, u) /\ SameRealm(s, s)
    BY DEF State, SameRealm
  <1>3. ProcessHb(s, m) \in {s, t, u}
    BY DEF ProcessHb
  <1> HIDE DEF t, u
  <1> QED BY <1>1, <1>2, <1>3

\* The SAPs of k come from k, with what send_sap1 lets through.
LEMMA SapFacts ==
  ASSUME NEW k, NEW m, NEW c \in SendSap(k, m)
  PROVE  /\ Proposer(c) = node[k].prim
         /\ \E b \in Proposals(node[k], m.from) : c.addr = b.addr /\ c.mask = b.mask
  BY DEF SendSap, Proposer

\* send_sap1 proposes the same space to the sender of the heartbeat, if any.
LEMMA OneProposal ==
  ASSUME NEW s \in State, NEW a, NEW b \in Proposals(s, a), NEW c \in Proposals(s, a)
  PROVE  b = c
  <1>1. \A v \in Nat, w \in Nat : v <= w /\ w <= v => v = w
    OBVIOUS
  <1>2. s.mask \in Nat /\ DOMAIN s.rcvd \subseteq Nat
    <2>1. s.mask \in 0 .. 255 /\ s.rcvd \in Seq(Block)
      BY StateFields
    <2>2. s.mask \in Nat
      BY <2>1, MaskFacts
    <2> QED BY <2>1, <2>2
  <1>3. b \in ChkSecAddr(s, a) /\ c \in ChkSecAddr(s, a)
    BY DEF Proposals
  <1>4. RecoveredNextTo(s, a) \subseteq Nat /\ OwnNextTo(s, a) \subseteq Nat
    BY <1>2, DimAssumption DEF RecoveredNextTo, OwnNextTo
  <1>5. CASE RecoveredNextTo(s, a) # {}
    <2>1. PICK i \in RecoveredNextTo(s, a), j \in RecoveredNextTo(s, a) :
            /\ b = s.rcvd[i] /\ \A k \in RecoveredNextTo(s, a) : i <= k
            /\ c = s.rcvd[j] /\ \A k \in RecoveredNextTo(s, a) : j <= k
      BY <1>3, <1>5 DEF ChkSecAddr
    <2> QED BY <1>1, <1>4, <2>1
  <1>6. CASE RecoveredNextTo(s, a) = {}
    <2>1. PICK i \in OwnNextTo(s, a), j \in OwnNextTo(s, a) :
            /\ b = [addr |-> s.prim \cup {i}, mask |-> i + 1]
            /\ c = [addr |-> s.prim \cup {j}, mask |-> j + 1]
            /\ \A k \in OwnNextTo(s, a) : i <= k
            /\ \A k \in OwnNextTo(s, a) : j <= k
      BY <1>3, <1>6 DEF ChkSecAddr
    <2> QED BY <1>1, <1>4, <2>1
  <1> QED BY <1>5, <1>6

LEMMA SendHbRealms ==
  ASSUME LInv, Realms, NEW n \in Node, SendHb(n)
  PROVE  Realms'
  <1> DEFINE c == Checked(node[n])
  <1>1. TypeInvariant /\ \A k \in Node : node[k] \in State
    BY DEF LInv, TypeInvariant
  <1>2. n \in Sound => Tidy(c, given[n], Flying(n))
                       /\ Within(c, given[n], Flying(n), node[n], given[n], Flying(n))
    BY <1>1, CheckedTidy DEF SendHb, Realms, AllTidy
  <1>3. UNCHANGED given /\ Sound' = Sound /\ \A k \in Node : Member(k)' = Member(k)
    BY SoundStays DEF SendHb
  <1>4. c \in State
    BY <1>1, CheckedFacts DEF Keeps
  <1>5. CASE Is(n, c) /\ UNCHANGED net
    <2> HIDE DEF c
    <2>1. node'[n] = c /\ \A k \in Node \ {n} : node'[k] = node[k]
      BY <1>1, <1>4, <1>5, OneState
    <2>2. Flying(n)' = Flying(n)
      BY <1>5 DEF Flying, Proposer
    <2>3. \A k \in Node \ {n} : SameRealm(node[k], node'[k]) /\ given'[k] = given[k]
      BY <1>3, <2>1 DEF SameRealm
    <2> QED BY <1>2, <1>3, <1>5, <2>1, <2>2, <2>3, NetSame, OneShrinks
  <1>6. ASSUME NEW k \in Near(n), NEW m \in Beats(n, c),
               node' = [node EXCEPT ![n] = Checked(@), ![k] = ProcessHb(@, m)],
               net' = net \cup SendSap(k, m)
        PROVE  Realms'
    <2> DEFINE d == ProcessHb(node[k], m)
    <2>1. k \in Node /\ k # n /\ Member(k) /\ node[k] \in State
      BY <1>1 DEF Near
    <2>2. node'[n] = c /\ node'[k] = d /\ \A l \in Node \ {n, k} : node'[l] = node[l]
      BY <1>1, <1>6, <2>1 DEF TypeInvariant
    <2>3. SameRealm(node[k], d)
      BY <2>1, ProcessHbSame
    <2>4. node[k].prim = PrimAddr[k]
      BY <2>1 DEF LInv, MembersKeepPrim
    <2> HIDE DEF c, d
    <2>5. \A p \in SendSap(k, m) : Proposer(p) = PrimAddr[k]
      BY <2>4, SapFacts
    <2>6. \A l \in Node \ {k} : Flying(l)' = Flying(l)
      <3> SUFFICES ASSUME NEW l \in Node \ {k} PROVE Flying(l)' = Flying(l)
        OBVIOUS
      <3>1. \A p \in SendSap(k, m) : Proposer(p) # PrimAddr[l]
        BY <2>1, <2>5, SecondaryAssumption
      <3>2. Flying(l)' = {p \in net' : Proposer(p) = PrimAddr[l]}
        BY DEF Flying, Proposer
      <3> QED BY <1>6, <3>1, <3>2 DEF Flying
    <2>7. ASSUME k \in Sound
          PROVE  Tidy(d, given[k], Flying(k)')
                 /\ Within(d, given[k], Flying(k)', node[k], given[k], Flying(k))
      <3>1. Tidy(node[k], given[k], Flying(k))
        BY <2>7 DEF Realms, AllTidy
      <3>2. Flying(k)' = Flying(k) \cup SendSap(k, m)
        <4>1. Flying(k)' = {p \in net' : Proposer(p) = PrimAddr[k]}
          BY DEF Flying, Proposer
        <4> QED BY <1>6, <2>5, <4>1 DEF Flying
      <3>3. CASE SendSap(k, m) = {}
        <4>1. NoMore(Flying(k)', Flying(k))
          BY <3>2, <3>3 DEF NoMore
        <4> QED BY <2>3, <3>1, <4>1, QuietTidy
      <3>4. ASSUME NEW p \in SendSap(k, m)
            PROVE  Tidy(d, given[k], Flying(k)')
                   /\ Within(d, given[k], Flying(k)', node[k], given[k], Flying(k))
        <4>1. PICK b \in Proposals(node[k], m.from) : TRUE
          BY <3>4, SapFacts
        <4>2. \A q \in SendSap(k, m) : q.addr = b.addr /\ q.mask = b.mask
          BY <2>1, SapFacts, OneProposal
        <4>3. NoMore(Flying(k)', Flying(k) \cup {b})
          BY <3>2, <4>2 DEF NoMore
        <4> QED BY <2>1, <2>3, <3>1, <4>3, ProposeTidy
      <3> QED BY <3>3, <3>4
    <2>8. ASSUME NEW l \in Sound'
          PROVE  /\ l \in Sound
                 /\ Tidy(node'[l], given'[l], Flying(l)')
                 /\ Within(node'[l], given'[l], Flying(l)', node[l], given[l], Flying(l))
      <3>1. l \in Node /\ l \in Sound /\ given' = given
        BY <1>3 DEF Sound
      <3>2. CASE l = k
        BY <2>2, <2>7, <3>1, <3>2
      <3>3. CASE l = n
        BY <1>2, <2>1, <2>2, <2>6, <3>1, <3>3
      <3>4. CASE l \notin {n, k}
        <4>1. node'[l] = node[l] /\ Flying(l)' = Flying(l)
          BY <2>2, <2>6, <3>1, <3>4
        <4> QED BY <3>1, <4>1 DEF Realms, AllTidy, Within
      <3> QED BY <3>2, <3>3, <3>4
    <2>9. \A p \in net' : \/ \E q \in net : Proposer(q) = Proposer(p)
                          \/ \E l \in Node : Member(l) /\ Proposer(p) = PrimAddr[l]
      BY <1>6, <2>1, <2>5
    <2> QED BY <1>3, <2>8, <2>9, Shrinks
  <1> QED BY <1>5, <1>6 DEF SendHb

\* san_t_handler, process_sap1, and what is lost.
LEMMA SanTimeoutRealms ==
  ASSUME LInv, Realms, NEW n \in Node, SanTimeout(n)
  PROVE  Realms'
  <1> DEFINE t == [node[n] EXCEPT !.timer = FALSE, !.avai = TRUE]
  <1>1. TypeInvariant /\ node[n] \in State /\ t \in State
    BY TimerExpired DEF LInv, TypeInvariant
  <1>2. SameRealm(node[n], t) /\ Is(n, t)
    BY <1>1 DEF SameRealm, State, SanTimeout
  <1> HIDE DEF t
  <1>3. node'[n] = t /\ \A k \in Node \ {n} : node'[k] = node[k]
    BY <1>1, <1>2, OneState
  <1>4. \A k \in Node : SameRealm(node[k], node'[k])
    BY <1>2, <1>3 DEF SameRealm
  <1> QED BY <1>4, SoundStays, NetSame, QuietRealms DEF SanTimeout

LEMMA ProcessSapRealms ==
  ASSUME LInv, Realms, NEW n \in Node, NEW m \in net, ProcessSap(n, m)
  PROVE  Realms'
  <1> DEFINE t == AddNsl(node[n], m.addr)
             k == [type |-> "SAN", from |-> node[n].prim, to |-> m.from, addr |-> m.addr,
                   mask |-> m.mask, len |-> node[n].mask, hear |-> Near(n)]
  <1>1. TypeInvariant /\ node[n] \in State /\ m \in Message
    BY DEF LInv, TypeInvariant
  <1>2. t \in State /\ SameRealm(node[n], t)
    <2>1. m.addr \in Addr
      BY <1>1, MessageFields
    <2> QED BY <1>1, <2>1 DEF AddNsl, State, SameRealm
  <1>3. /\ Is(n, t) /\ net' = (net \ {m}) \cup {k} /\ UNCHANGED <<status, given, faulty>>
        /\ m.type = "SAP"
    BY DEF ProcessSap
  <1>4. Proposer(k) = Proposer(m) /\ k.addr = m.addr /\ k.mask = m.mask
    BY <1>3 DEF Proposer
  <1> HIDE DEF t, k
  <1>5. node'[n] = t /\ \A l \in Node \ {n} : node'[l] = node[l]
    BY <1>1, <1>2, <1>3, OneState
  <1>6. \A l \in Node : SameRealm(node[l], node'[l])
    BY <1>2, <1>5 DEF SameRealm
  <1>7. NetNoMore
    BY <1>3, <1>4 DEF NetNoMore
  <1> QED BY <1>3, <1>6, <1>7, SoundStays, QuietRealms

\* A node that is no member any more administers nothing.
LEMMA LeavesRealms ==
  ASSUME LInv, Realms, NEW n \in Node, ~Member(n)', net' \subseteq net, UNCHANGED <<given, faulty>>,
         \A k \in Node \ {n} : node'[k] = node[k] /\ Member(k)' = Member(k)
  PROVE  Realms'
  <1>1. n \notin Sound'
    BY DEF Sound
  <1>2. \A k \in Node \ {n} : SameRealm(node[k], node'[k])
    BY DEF SameRealm
  <1>3. \A k \in Node \ {n} : k \in Sound' => k \in Sound
    BY DEF Sound
  <1> QED BY <1>1, <1>2, <1>3, NetSame, OneShrinks

\* A SAN is taken by the node that proposed: nobody else has its address.
LEMMA ProcessSanRealms ==
  ASSUME LInv, Realms, NEW n \in Node, NEW m \in net, ProcessSan(n, m)
  PROVE  Realms'
  <1> DEFINE s == node[n]
             w == MaskAfterSan(s, m)
             q == DelRcvd(s.rcvd, m.addr)
             t == [s EXCEPT !.sec = m.addr, !.sec_mask = m.mask, !.flag = TRUE, !.avai = TRUE,
                            !.mask = w, !.rcvd = q, !.link = m.from]
             u == AddNeighbor(t, m.from, m.len)
  <1>1. TypeInvariant /\ s \in State /\ m \in Message
    BY DEF LInv, TypeInvariant
  <1>2. /\ m.type = "SAN" /\ net' = net \ {m} /\ UNCHANGED <<apart, given, faulty, moves>>
        /\ Member(n) /\ m.to \in AddressesOf(n)
    BY DEF ProcessSan
  <1>3. CASE s.nbr = {} /\ status' = [status EXCEPT ![n] = "crashed"] /\ UNCHANGED node
    <2>1. ~Member(n)' /\ \A k \in Node \ {n} : Member(k)' = Member(k)
      BY <1>1, <1>3 DEF Member, TypeInvariant
    <2> QED BY <1>2, <1>3, <2>1, LeavesRealms
  <1>4. CASE Is(n, u) /\ UNCHANGED status
    <2>1. /\ u.prim = s.prim /\ u.mask = w /\ u.rcvd = q /\ u.flag
          /\ u.sec = m.addr /\ u.sec_mask = m.mask
      <3> HIDE DEF w, q, s
      <3>1. /\ t.prim = s.prim /\ t.mask = w /\ t.rcvd = q /\ t.flag
            /\ t.sec = m.addr /\ t.sec_mask = m.mask
        BY <1>1 DEF State
      <3>2. /\ u.prim = t.prim /\ u.mask = t.mask /\ u.rcvd = t.rcvd /\ u.flag = t.flag
            /\ u.sec = t.sec /\ u.sec_mask = t.sec_mask
        BY <1>1 DEF State, AddNeighbor
      <3> HIDE DEF t, u
      <3> QED BY <3>1, <3>2
    <2> HIDE DEF u, w, q
    <2>2. node'[n] = u /\ \A k \in Node \ {n} : node'[k] = node[k]
      BY <1>1, <1>4 DEF Is, TypeInvariant
    <2>3. Sound' = Sound /\ \A k \in Node : Member(k)' = Member(k)
      BY <1>2, <1>4, SoundStays
    <2>4. ASSUME n \in Sound
          PROVE  Tidy(u, given[n], Flying(n)')
                 /\ Within(u, given[n], Flying(n)', s, given[n], Flying(n))
      <3>1. Tidy(s, given[n], Flying(n))
        BY <2>4 DEF Realms, AllTidy
      <3>2. Proposer(m) = PrimAddr[n]
        <4>1. CASE m.to = s.prim
          BY <1>2, <4>1 DEF Proposer, LInv, MembersKeepPrim
        <4>2. CASE m.to = s.sec /\ s.flag
          <5>1. m.to \in Second(s)
            BY <1>1, <4>2, StateFields, OwnAddress DEF Second
          <5>2. In(n, Proposer(m))
            BY <1>2, <5>1 DEF In, InRealm, Proposer
          <5> QED BY <2>4, <5>2 DEF Realms, NotForeign
        <4> QED BY <1>2, <4>1, <4>2 DEF AddressesOf
      <3>3. m \in Flying(n) /\ NoMore(Flying(n)', Flying(n))
        BY <1>2, <3>2 DEF Flying, NoMore, Proposer
      <3> HIDE DEF s
      <3> QED BY <1>1, <2>1, <3>1, <3>3, SanTidy DEF w, q
    <2>5. \A k \in Node \ {n} : SameRealm(node[k], node'[k]) /\ given'[k] = given[k]
      BY <1>2, <2>2 DEF SameRealm
    <2> QED BY <1>2, <2>2, <2>3, <2>4, <2>5, NetSame, OneShrinks
  <1> QED BY <1>3, <1>4 DEF ProcessSan

\* send_panc: what was proposed and is given away makes the node a faulty one.
LEMMA JoinRealms ==
  ASSUME LInv, Realms, NEW n \in Node, Join(n)
  PROVE  Realms'
  <1> DEFINE s == node[n]
             half == [addr |-> Flip(s.prim, s.mask), mask |-> s.mask + 1]
  <1>1. /\ TypeInvariant /\ s \in State /\ given[n] \in Seq(Block) /\ net \subseteq Message
        /\ Member(n) /\ UNCHANGED <<status, net, apart, moves>>
    BY DEF LInv, TypeInvariant, Join
  <1>2. \A k \in Node : (k \in Sound' => k \in Sound) /\ Member(k)' = Member(k)
    BY <1>1 DEF Sound, Member, Join, Gives
  <1>3. Flying(n)' = Flying(n)
    BY <1>1 DEF Flying, Proposer
  <1>4. ASSUME NEW b, b.addr \in Addr, b.mask \in Nat, Gives(n, b), n \in Sound', NEW c \in Flying(n)
        PROVE  Disjoint(Whole(c), Whole(b))
    <2>1. s.prim = PrimAddr[n] /\ c \in net
      BY <1>1 DEF LInv, MembersKeepPrim, Flying
    <2>2. c \in Proposed(n)
      BY <1>1, <2>1 DEF Flying, Proposer, Proposed, AddressesOf, Message
    <2>3. ~Meet(c, b)
      BY <1>4, <2>2 DEF Gives, Sound
    <2>4. c.addr \in Addr /\ c.mask \in Nat
      BY <1>1, <2>1, MessageFields, MaskFacts
    <2> QED BY <1>4, <2>3, <2>4, MeetFacts
  <1>5. ASSUME NEW b, Gives(n, b), NEW t, Is(n, t),
               n \in Sound' => LET h == Append(given[n], b)
                               IN  /\ Tidy(t, h, Flying(n))
                                   /\ Within(t, h, Flying(n), s, given[n], Flying(n))
        PROVE  Realms'
    <2>1. /\ node'[n] = t /\ \A k \in Node \ {n} : node'[k] = node[k]
          /\ given'[n] = Append(given[n], b) /\ \A k \in Node \ {n} : given'[k] = given[k]
      BY <1>1, <1>5 DEF Is, Gives, TypeInvariant
    <2>2. \A k \in Node \ {n} : SameRealm(node[k], node'[k])
      BY <2>1 DEF SameRealm
    <2>3. net' \subseteq net
      BY <1>1
    <2> HIDE DEF s
    <2> QED BY <1>2, <1>3, <1>5, <2>1, <2>2, <2>3, NetSame, OneShrinks DEF s
  <1>6. CASE s.rcvd # <<>> /\ Gives(n, Last(s.rcvd)) /\ Is(n, [s EXCEPT !.rcvd = Front(@)])
    <2> DEFINE q == Front(s.rcvd)
               t == [s EXCEPT !.rcvd = q]
               b == Last(s.rcvd)
    <2>1. b \in Block
      BY <1>1, <1>6, StateFields DEF Last
    <2>2. b.addr \in Addr /\ b.mask \in Nat
      BY <2>1, MaskFacts DEF Block
    <2> HIDE DEF q
    <2>3. /\ t.prim = s.prim /\ t.mask = s.mask /\ t.flag = s.flag /\ t.sec = s.sec
          /\ t.sec_mask = s.sec_mask /\ t.rcvd = q
      BY <1>1 DEF State
    <2>4. Is(n, t) /\ Gives(n, b) /\ s.rcvd # <<>>
      BY <1>6 DEF q
    <2> HIDE DEF t
    <2>5. ASSUME n \in Sound'
          PROVE  LET h == Append(given[n], b)
                 IN  /\ Tidy(t, h, Flying(n))
                     /\ Within(t, h, Flying(n), s, given[n], Flying(n))
      <3>1. Tidy(s, given[n], Flying(n))
        BY <1>2, <2>5 DEF Realms, AllTidy
      <3>2. \A c \in Flying(n) : Disjoint(Whole(c), Whole(b))
        BY <1>4, <2>2, <2>4, <2>5
      <3> HIDE DEF s
      <3> QED BY <1>1, <2>3, <2>4, <3>1, <3>2, JoinRecoveredTidy DEF q
    <2> HIDE DEF b
    <2> QED BY <1>5, <2>4, <2>5
  <1>7. CASE s.mask < Dim /\ Gives(n, half) /\ Is(n, [s EXCEPT !.mask = @ + 1])
    <2> DEFINE v == s.mask + 1
               t == [s EXCEPT !.mask = v]
    <2> HIDE DEF v
    <2>1. /\ t.prim = s.prim /\ t.mask = v /\ t.flag = s.flag /\ t.sec = s.sec
          /\ t.sec_mask = s.sec_mask /\ t.rcvd = s.rcvd
      BY <1>1 DEF State
    <2>2. Is(n, t) /\ Gives(n, half) /\ s.mask < Dim
      BY <1>7 DEF v
    <2> HIDE DEF t
    <2>3. half.addr \in Addr /\ half.mask \in Nat
      <3>1. s.prim \in Addr /\ s.mask \in 0 .. 255
        BY <1>1, StateFields
      <3>2. s.mask \in Nat /\ s.mask < Dim
        BY <3>1, <2>2, MaskFacts
      <3>3. \A x \in Nat : x < Dim => x \in Bits /\ x + 1 \in Nat
        BY DimAssumption DEF Bits
      <3>4. s.mask \in Bits /\ s.mask + 1 \in Nat
        BY <3>2, <3>3
      <3> QED BY <3>1, <3>4 DEF Flip, Addr
    <2>4. ASSUME n \in Sound'
          PROVE  LET h == Append(given[n], half)
                 IN  /\ Tidy(t, h, Flying(n))
                     /\ Within(t, h, Flying(n), s, given[n], Flying(n))
      <3>1. Tidy(s, given[n], Flying(n))
        BY <1>2, <2>4 DEF Realms, AllTidy
      <3>2. \A c \in Flying(n) : Disjoint(Whole(c), Whole(half))
        BY <1>4, <2>2, <2>3, <2>4
      <3> DEFINE b == half
      <3>3. b = [addr |-> Flip(s.prim, s.mask), mask |-> s.mask + 1]
        OBVIOUS
      <3> HIDE DEF s, b
      <3>4. \A c \in Flying(n) : Disjoint(Whole(c), Whole(b))
        BY <3>2 DEF b
      <3>5. LET h == Append(given[n], b)
            IN  /\ Tidy(t, h, Flying(n))
                /\ Within(t, h, Flying(n), s, given[n], Flying(n))
        BY <1>1, <2>1, <2>2, <3>1, <3>3, <3>4, JoinHalfTidy DEF v
      <3> QED BY <3>5 DEF b
    <2> HIDE DEF half
    <2> QED BY <1>5, <2>2, <2>4
  <1> QED BY <1>6, <1>7 DEF Join

-----------------------------------------------------------------------------
\* The spaces of Blocks(n).
LEMMA ConcatApart ==
  ASSUME NEW p \in Seq(Block), NEW q \in Seq(Block), AllApart(p), AllApart(q),
         \A b \in Range(p), c \in Range(q) : Disjoint(Whole(b), Whole(c))
  PROVE  AllApart(p \o q)
  <1>1. /\ DOMAIN p = 1 .. Len(p) /\ DOMAIN q = 1 .. Len(q) /\ Len(p) \in Nat /\ Len(q) \in Nat
        /\ DOMAIN (p \o q) = 1 .. Len(p) + Len(q)
    BY ConcatProperties
  <1>2. \A i \in DOMAIN (p \o q) :
          (p \o q)[i] = IF i <= Len(p) THEN p[i] ELSE q[i - Len(p)]
    BY <1>1, ConcatProperties
  <1>3. \A i \in DOMAIN (p \o q) : /\ i <= Len(p) => i \in DOMAIN p
                                   /\ ~(i <= Len(p)) => i - Len(p) \in DOMAIN q
    BY <1>1
  <1>4. \A i, j \in DOMAIN (p \o q) : i # j => i - Len(p) # j - Len(p)
    BY <1>1
  <1>5. \A i \in DOMAIN p, j \in DOMAIN q : Disjoint(Whole(p[i]), Whole(q[j]))
    BY DEF Range
  <1> DEFINE r == p \o q
             l == Len(p)
  <1> HIDE DEF r, l
  <1>6. ASSUME NEW i \in DOMAIN r, NEW j \in DOMAIN r, i # j
        PROVE  Disjoint(Whole(r[i]), Whole(r[j]))
    <2>1. CASE i <= l /\ j <= l
      BY <1>2, <1>3, <1>6, <2>1 DEF AllApart, r, l
    <2>2. CASE ~(i <= l) /\ ~(j <= l)
      BY <1>2, <1>3, <1>4, <1>6, <2>2 DEF AllApart, r, l
    <2>3. CASE i <= l /\ ~(j <= l)
      BY <1>2, <1>3, <1>5, <1>6, <2>3 DEF r, l
    <2>4. CASE ~(i <= l) /\ j <= l
      <3>1. Disjoint(Whole(r[j]), Whole(r[i]))
        BY <1>2, <1>3, <1>5, <1>6, <2>4 DEF r, l
      <3> QED BY <3>1 DEF Disjoint
    <2> QED BY <2>1, <2>2, <2>3, <2>4
  <1> QED BY <1>6 DEF AllApart, r

LEMMA OneBlock ==
  ASSUME NEW b \in Block
  PROVE  <<b>> \in Seq(Block) /\ AllApart(<<b>>) /\ Range(<<b>>) = {b}
  <1>1. DOMAIN <<b>> = {1} /\ <<b>>[1] = b
    OBVIOUS
  <1> QED BY <1>1 DEF AllApart, Range

OwnBlock(s) == [addr |-> s.prim, mask |-> s.mask]
SecBlocks(s) == IF s.flag THEN <<SecBlock(s)>> ELSE <<>>

LEMMA SecBlocksFacts ==
  ASSUME NEW s \in State
  PROVE  /\ OwnBlock(s) \in Block /\ Whole(OwnBlock(s)) = Own(s)
         /\ SecBlocks(s) \in Seq(Block) /\ AllApart(SecBlocks(s))
         /\ \A b \in Range(SecBlocks(s)) : Whole(b) = Second(s)
         /\ \A x \in Second(s) : \E b \in Range(SecBlocks(s)) : x \in Whole(b)
  <1>1. OwnBlock(s) \in Block /\ SecBlock(s) \in Block
    BY StateFields DEF OwnBlock, SecBlock, Block
  <1>2. Whole(OwnBlock(s)) = Own(s)
    BY DEF OwnBlock, Whole, Own
  <1>3. CASE s.flag
    <2>1. SecBlocks(s) = <<SecBlock(s)>> /\ Whole(SecBlock(s)) = Second(s)
      BY <1>3 DEF SecBlocks, SecBlock, Whole, Second
    <2> QED BY <1>1, <1>2, <2>1, OneBlock
  <1>4. CASE ~s.flag
    <2>1. SecBlocks(s) = <<>> /\ Second(s) = {}
      BY <1>4 DEF SecBlocks, Second
    <2>2. <<>> \in Seq(Block) /\ AllApart(<<>>) /\ Range(<<>>) = {}
      BY DEF AllApart, Range
    <2> QED BY <1>1, <1>2, <2>1, <2>2
  <1> QED BY <1>3, <1>4

LEMMA BlocksFacts ==
  ASSUME LInv, NEW n \in Node
  PROVE  /\ Blocks(n) \in Seq(Block)
         /\ Range(Blocks(n)) = {OwnBlock(node[n])} \cup Range(node[n].rcvd) \cup Range(given[n])
                                 \cup Range(SecBlocks(node[n]))
         /\ OwnApart(node[n], given[n]) => AllApart(Blocks(n))
  <1> DEFINE s == node[n]
             a == <<OwnBlock(s)>>
             b == a \o s.rcvd
             c == b \o given[n]
             d == SecBlocks(s)
  <1>1. s \in State /\ given[n] \in Seq(Block) /\ s.rcvd \in Seq(Block)
    BY StateFields DEF LInv, TypeInvariant
  <1>2. OwnBlock(s) \in Block /\ d \in Seq(Block)
    BY <1>1, SecBlocksFacts
  <1>3. a \in Seq(Block) /\ AllApart(a) /\ Range(a) = {OwnBlock(s)}
    BY <1>2, OneBlock
  <1>4. Blocks(n) = c \o d
    BY DEF Blocks, OwnBlock, SecBlocks, SecBlock
  <1> HIDE DEF a, d
  <1>5. b \in Seq(Block) /\ Range(b) = {OwnBlock(s)} \cup Range(s.rcvd)
    BY <1>1, <1>3, ConcatFacts
  <1>6. c \in Seq(Block) /\ Range(c) = {OwnBlock(s)} \cup Range(s.rcvd) \cup Range(given[n])
    <2> HIDE DEF b
    <2> QED BY <1>1, <1>5, ConcatFacts
  <1>7. c \o d \in Seq(Block) /\ Range(c \o d) = Range(c) \cup Range(d)
    <2> HIDE DEF c
    <2> QED BY <1>2, <1>6, ConcatFacts
  <1>8. ASSUME OwnApart(s, given[n]) PROVE AllApart(c \o d)
    <2>1. Whole(OwnBlock(s)) = Own(s) /\ AllApart(d) /\ \A e \in Range(d) : Whole(e) = Second(s)
      BY <1>1, SecBlocksFacts DEF d
    <2>2. AllApart(b)
      <3>1. \A e \in Range(s.rcvd) : Disjoint(Own(s), Whole(e))
        BY <1>8 DEF OwnApart, Disjoint, Range
      <3>2. AllApart(s.rcvd)
        BY <1>8 DEF OwnApart
      <3> HIDE DEF s
      <3> QED BY <1>1, <1>3, <2>1, <3>1, <3>2, ConcatApart
    <2>3. AllApart(c)
      <3>1. \A e \in Range(given[n]) : /\ Disjoint(Own(s), Whole(e))
                                       /\ \A f \in Range(s.rcvd) : Disjoint(Whole(f), Whole(e))
        BY <1>8 DEF OwnApart, Disjoint, Range
      <3>2. AllApart(given[n])
        BY <1>8 DEF OwnApart
      <3>3. \A f \in Range(b), e \in Range(given[n]) : Disjoint(Whole(f), Whole(e))
        BY <1>5, <2>1, <3>1
      <3> HIDE DEF s, b
      <3> QED BY <1>1, <1>5, <2>2, <3>2, <3>3, ConcatApart
    <2>4. \A f \in Range(c) : Disjoint(Whole(f), Second(s))
      <3>1. Disjoint(Own(s), Second(s))
        BY <1>8 DEF OwnApart
      <3>2. \A f \in Range(s.rcvd) \cup Range(given[n]) : Disjoint(Whole(f), Second(s))
        BY <1>8 DEF OwnApart, Range
      <3> QED BY <1>6, <2>1, <3>1, <3>2
    <2>5. \A f \in Range(c), e \in Range(d) : Disjoint(Whole(f), Whole(e))
      BY <2>1, <2>4
    <2> HIDE DEF c
    <2> QED BY <1>2, <1>6, <2>1, <2>3, <2>5, ConcatApart
  <1> QED BY <1>4, <1>6, <1>7, <1>8 DEF d

\* They are what n administers but has not proposed.
LEMMA BlocksRealm ==
  ASSUME LInv, NEW n \in Node, NEW x
  PROVE  In(n, x) <=> \/ \E b \in Range(Blocks(n)) : x \in Whole(b)
                      \/ \E b \in Flying(n) : x \in Whole(b)
  <1>1. node[n] \in State
    BY DEF LInv, TypeInvariant
  <1>2. \A q : (\E i \in DOMAIN q : x \in Whole(q[i])) <=> \E b \in Range(q) : x \in Whole(b)
    BY DEF Range
  <1>3. /\ Whole(OwnBlock(node[n])) = Own(node[n])
        /\ x \in Second(node[n]) <=> \E b \in Range(SecBlocks(node[n])) : x \in Whole(b)
    BY <1>1, SecBlocksFacts
  <1>4. Range(Blocks(n)) = {OwnBlock(node[n])} \cup Range(node[n].rcvd) \cup Range(given[n])
                             \cup Range(SecBlocks(node[n]))
    BY BlocksFacts
  <1> QED BY <1>2, <1>3, <1>4 DEF In, InRealm

LEMMA RealmsAreMine ==
  ASSUME LInv, Realms
  PROVE  SecondaryIsMine
  <1> SUFFICES ASSUME NEW n \in Sound, NEW k \in Sound,
                      NEW i \in DOMAIN Blocks(n), NEW j \in DOMAIN Blocks(k), <<n, i>> # <<k, j>>
               PROVE  ~Meet(Blocks(n)[i], Blocks(k)[j])
    BY DEF SecondaryIsMine
  <1>1. n \in Node /\ k \in Node
    BY DEF Sound
  <1> DEFINE b == Blocks(n)[i]
             c == Blocks(k)[j]
  <1>2. b \in Range(Blocks(n)) /\ c \in Range(Blocks(k)) /\ b \in Block /\ c \in Block
    BY <1>1, BlocksFacts DEF Range
  <1>3. Disjoint(Whole(b), Whole(c))
    <2>1. CASE n = k
      <3>1. AllApart(Blocks(n))
        BY <1>1, BlocksFacts DEF Realms, AllTidy, Tidy
      <3> QED BY <2>1, <3>1 DEF AllApart
    <2>2. CASE n # k
      <3>1. \A x : x \in Whole(b) => In(n, x)
        BY <1>1, <1>2, BlocksRealm
      <3>2. \A x : x \in Whole(c) => In(k, x)
        BY <1>1, <1>2, BlocksRealm
      <3> QED BY <2>2, <3>1, <3>2 DEF Realms, RealmsApart, Disjoint
    <2> QED BY <2>1, <2>2
  <1>4. b.addr \in Addr /\ c.addr \in Addr /\ b.mask \in Nat /\ c.mask \in Nat
    BY <1>2, MaskFacts DEF Block
  <1> QED BY <1>3, <1>4, MeetFacts

-----------------------------------------------------------------------------
\* check_neighbors takes back what nobody administers or proposes, and where nobody is.
LEMMA RecoveredIsNew ==
  ASSUME LInv, Realms, RecoverableIsFree, NEW n \in Sound, NEW e \in node[n].nbr, Gone(n, e),
         CheckSuccesor(node[n].prim, e.addr) = "succesor", IsSuccesor(node[n].prim, e.addr),
         NEW b, b = [addr |-> e.addr, mask |-> e.inicial]
  PROVE  /\ b \in Block
         /\ \A x \in Whole(b) : /\ \A k \in Sound : ~In(k, x)
                                /\ \A k \in Node : Member(k) => x # PrimAddr[k]
                                /\ \A m \in net : x # Proposer(m)
         /\ Dist(b.addr, node[n].prim) = 1 => IsHalf(node[n].prim, b)
  <1>1. n \in Node /\ node[n] \in State
    BY DEF Sound, LInv, TypeInvariant
  <1>2. b \in Block /\ b.addr \in Addr /\ b.mask \in Nat
    <2>1. e \in Neigh
      BY <1>1, StateFields
    <2>2. e.addr \in Addr /\ e.inicial \in 0 .. 255
      BY <2>1 DEF Neigh
    <2> QED BY <2>2, MaskFacts DEF Block
  <1>3. /\ \A k \in Sound : \A i \in DOMAIN Blocks(k) : ~Meet(Blocks(k)[i], b)
        /\ \A k \in Node : Member(k) => ~InSpace(node[k].prim, b.addr, b.mask)
        /\ \A m \in net : ~Meet(m, b) /\ ~InSpace(Proposer(m), b.addr, b.mask)
        /\ Dist(b.addr, node[n].prim) = 1 => IsHalf(node[n].prim, b)
    BY DEF RecoverableIsFree
  <1>4. ASSUME NEW x \in Whole(b), NEW k \in Sound PROVE ~In(k, x)
    <2>1. k \in Node
      BY DEF Sound
    <2>2. ASSUME NEW c \in Range(Blocks(k)) PROVE x \notin Whole(c)
      <3>1. PICK i \in DOMAIN Blocks(k) : c = Blocks(k)[i]
        BY DEF Range
      <3>2. c \in Block
        BY <2>1, <3>1, BlocksFacts
      <3>3. c.addr \in Addr /\ c.mask \in Nat
        BY <3>2, MaskFacts DEF Block
      <3>4. Disjoint(Whole(c), Whole(b))
        BY <1>2, <1>3, <3>1, <3>3, MeetFacts
      <3> QED BY <3>4 DEF Disjoint
    <2>3. ASSUME NEW m \in Flying(k) PROVE x \notin Whole(m)
      <3>1. m \in net /\ m \in Message
        BY DEF Flying, LInv, TypeInvariant
      <3>2. m.addr \in Addr /\ m.mask \in Nat
        BY <3>1, MessageFields, MaskFacts
      <3>3. Disjoint(Whole(m), Whole(b))
        BY <1>2, <1>3, <3>1, <3>2, MeetFacts
      <3> QED BY <3>3 DEF Disjoint
    <2> QED BY <2>1, <2>2, <2>3, BlocksRealm
  <1>5. ASSUME NEW x \in Whole(b) PROVE InSpace(x, b.addr, b.mask)
    BY DEF Whole, Space
  <1>6. \A k \in Node : Member(k) => node[k].prim = PrimAddr[k]
    BY DEF LInv, MembersKeepPrim
  <1> QED BY <1>2, <1>3, <1>4, <1>5, <1>6

\* ... so that the realm of n grows by what belongs to no other.
LEMMA GrownRealms ==
  ASSUME LInv, Realms, NEW n \in Sound, NEW b \in Block,
         \A x \in Whole(b) : /\ \A k \in Sound : ~In(k, x)
                             /\ \A k \in Node : Member(k) => x # PrimAddr[k]
                             /\ \A m \in net : x # Proposer(m),
         Tidy(node'[n], given[n], Flying(n)),
         \A x : InRealm(x, node'[n], given[n], Flying(n)) => In(n, x) \/ x \in Whole(b),
         \A k \in Node \ {n} : node'[k] = node[k],
         UNCHANGED <<status, net, given, faulty>>
  PROVE  Realms'
  <1>1. Sound' = Sound /\ \A k \in Node : Member(k)' = Member(k)
    BY SoundStays
  <1>2. \A k \in Node : Flying(k)' = Flying(k)
    BY DEF Flying, Proposer
  <1>3. n \in Node /\ Sound \subseteq Node
    BY DEF Sound
  <1>4. ASSUME NEW k \in Sound, NEW x, In(k, x)'
        PROVE  In(k, x) \/ (k = n /\ x \in Whole(b))
    <2>1. InRealm(x, node'[k], given[k], Flying(k))
      BY <1>2, <1>3, <1>4 DEF In
    <2>2. CASE k = n
      BY <2>1, <2>2
    <2>3. CASE k # n
      BY <1>3, <2>1, <2>3 DEF In
    <2> QED BY <2>2, <2>3
  <1>5. AllTidy'
    <2>1. ASSUME NEW k \in Sound PROVE Tidy(node'[k], given[k], Flying(k))
      BY <1>3, <2>1 DEF Realms, AllTidy
    <2> QED BY <1>1, <1>2, <1>3, <2>1 DEF AllTidy
  <1>6. RealmsApart'
    <2> SUFFICES ASSUME NEW k \in Sound, NEW l \in Sound, k # l, NEW x, In(k, x)', In(l, x)'
                 PROVE  FALSE
      BY <1>1 DEF RealmsApart
    <2>1. CASE In(k, x) /\ In(l, x)
      BY <2>1 DEF Realms, RealmsApart
    <2>2. CASE ~(In(k, x) /\ In(l, x))
      BY <1>4, <2>2
    <2> QED BY <2>1, <2>2
  <1>7. NotForeign'
    <2>1. ASSUME NEW k \in Sound, NEW l \in Node \ {k}, Member(l) PROVE ~In(k, PrimAddr[l])'
      <3>1. ~In(k, PrimAddr[l])
        BY <2>1 DEF Realms, NotForeign
      <3> DEFINE x == PrimAddr[l]
      <3>2. ~(x \in Whole(b))
        BY <2>1
      <3>3. ~In(k, x)'
        BY <1>4, <3>1, <3>2
      <3> QED BY <3>3
    <2>2. ASSUME NEW k \in Sound, NEW m \in net, In(k, Proposer(m))' PROVE Proposer(m) = PrimAddr[k]
      <3> DEFINE x == Proposer(m)
      <3>1. In(k, x)'
        BY <2>2
      <3>2. ~(x \in Whole(b))
        OBVIOUS
      <3>3. In(k, x)
        BY <1>4, <3>1, <3>2
      <3> QED BY <3>3 DEF Realms, NotForeign
    <2>3. \A k \in Node : PrimAddr'[k] = PrimAddr[k]
      OBVIOUS
    <2>4. net' = net
      OBVIOUS
    <2> QED BY <1>1, <2>1, <2>2, <2>4 DEF NotForeign, Proposer
  <1> QED BY <1>5, <1>6, <1>7 DEF Realms

LEMMA ExpireRealms ==
  ASSUME LInv, Realms, RecoverableIsFree, NEW n \in Node, NEW e \in node[n].nbr, Expire(n, e)
  PROVE  Realms'
  <1> DEFINE s == node[n]
             t == GivenUp(s, e)
  <1>1. /\ TypeInvariant /\ s \in State /\ t \in State /\ Recovers(s, e) \in Seq(Block)
        /\ s.rcvd \in Seq(Block) /\ UNCHANGED <<net, apart, given, moves>>
        /\ faulty' = IF Mistaken(n, e) THEN faulty \cup {n} ELSE faulty
    BY GivenUpFacts, StateFields DEF LInv, TypeInvariant, Expire
  <1>2. CASE Hangs(n, e)
    <2>1. status' = [status EXCEPT ![n] = "crashed"] /\ node' = [node EXCEPT ![n] = node[n]]
      BY <1>2 DEF Expire, Is
    <2>2. ~Member(n)' /\ \A k \in Node \ {n} : node'[k] = node[k] /\ Member(k)' = Member(k)
      BY <1>1, <2>1 DEF Member, TypeInvariant
    <2>3. faulty' = faulty
      BY <1>1, <1>2 DEF Hangs, Mistaken
    <2> QED BY <1>1, <2>2, <2>3, LeavesRealms
  <1>3. CASE ~Hangs(n, e)
    <2>1. Is(n, t) /\ status' = status
      BY <1>1, <1>3 DEF Expire, TypeInvariant
    <2>2. /\ t.prim = s.prim /\ t.mask = s.mask /\ t.flag = s.flag /\ t.sec = s.sec
          /\ t.sec_mask = s.sec_mask /\ t.rcvd = s.rcvd \o Recovers(s, e)
      <3> DEFINE q == s.rcvd \o Recovers(s, e)
                 N == s.nbr \ {e}
      <3>1. t = [s EXCEPT !.nbr = N, !.rcvd = q]
        BY DEF GivenUp
      <3> HIDE DEF q, N, t
      <3>2. /\ t.prim = s.prim /\ t.mask = s.mask /\ t.flag = s.flag /\ t.sec = s.sec
            /\ t.sec_mask = s.sec_mask /\ t.rcvd = q
        BY <1>1, <3>1 DEF State
      <3> QED BY <3>2 DEF q
    <2> HIDE DEF t
    <2>3. node'[n] = t /\ \A k \in Node \ {n} : node'[k] = node[k]
      BY <1>1, <2>1, OneState
    <2>4. /\ \A k \in Node : Member(k)' = Member(k)
          /\ Sound' \subseteq Sound
          /\ Mistaken(n, e) => n \notin Sound'
      BY <1>1, <2>1 DEF Sound, Member
    <2>s. ~Mistaken(n, e) => faulty' = faulty /\ Sound' = Sound
      BY <1>1, <2>1, SoundStays
    <2>5. CASE CheckSuccesor(s.prim, e.addr) # "succesor"
      <3>1. Recovers(s, e) = <<>>
        BY <2>5 DEF Recovers
      <3>2. t.rcvd = s.rcvd
        BY <1>1, <2>2, <3>1, ConcatEmptySeq
      <3>3. \A k \in Node : SameRealm(node[k], node'[k])
        BY <2>2, <2>3, <3>2 DEF SameRealm
      <3>4. ~Mistaken(n, e)
        BY <2>5 DEF Mistaken
      <3> QED BY <1>1, <2>4, <2>s, <3>3, <3>4, NetSame, QuietRealms
    <2>6. CASE n \notin Sound'
      <3>1. \A k \in Node \ {n} : SameRealm(node[k], node'[k]) /\ given'[k] = given[k]
        BY <1>1, <2>3 DEF SameRealm
      <3> QED BY <1>1, <2>4, <2>6, <3>1, NetSame, OneShrinks
    <2>7. CASE CheckSuccesor(s.prim, e.addr) = "succesor" /\ n \in Sound'
      <3>s. /\ n \in Sound /\ ~Mistaken(n, e) /\ faulty' = faulty
            /\ IsSuccesor(s.prim, e.addr)
        BY <2>4, <2>7, <2>s DEF Mistaken
      <3> DEFINE b == [addr |-> e.addr, mask |-> e.inicial]
      <3>1. Gone(n, e)
        BY DEF Expire
      <3>2. Recovers(s, e) = <<b>>
        BY <2>7 DEF Recovers
      <3> HIDE DEF b
      <3>3. /\ b \in Block
            /\ \A x \in Whole(b) : /\ \A k \in Sound : ~In(k, x)
                                   /\ \A k \in Node : Member(k) => x # PrimAddr[k]
                                   /\ \A m \in net : x # Proposer(m)
            /\ Dist(b.addr, s.prim) = 1 => IsHalf(s.prim, b)
        BY <2>7, <3>s, <3>1, RecoveredIsNew DEF b
      <3>4. t.rcvd = Append(s.rcvd, b)
        BY <1>1, <2>2, <3>2, <3>3
      <3>5. Tidy(s, given[n], Flying(n))
        BY <3>s DEF Realms, AllTidy
      <3>6. \A x \in Whole(b) : ~InRealm(x, s, given[n], Flying(n))
        BY <3>s, <3>3 DEF In
      <3> HIDE DEF s
      <3>7. /\ Tidy(t, given[n], Flying(n))
            /\ \A x : InRealm(x, t, given[n], Flying(n))
                        => InRealm(x, s, given[n], Flying(n)) \/ x \in Whole(b)
        BY <1>1, <2>2, <3>3, <3>4, <3>5, <3>6, RecoverTidy
      <3>8. \A x : InRealm(x, t, given[n], Flying(n)) => In(n, x) \/ x \in Whole(b)
        BY <3>7 DEF In, s
      <3> QED BY <1>1, <2>1, <2>3, <3>s, <3>3, <3>7, <3>8, GrownRealms
    <2> QED BY <2>5, <2>6, <2>7
  <1> QED BY <1>2, <1>3

LEMMA StepRealms == LInv /\ Realms /\ RecoverableIsFree /\ [Next]_vars => Realms'
  <1> SUFFICES ASSUME LInv, Realms, RecoverableIsFree, [Next]_vars PROVE Realms'
    OBVIOUS
  <1>1. ASSUME NEW n \in Node, SendHb(n) PROVE Realms'
    BY <1>1, SendHbRealms
  <1>2. ASSUME NEW n \in Node, SendHbAlone(n) PROVE Realms'
    <2>1. ~Member(n)' /\ \A k \in Node \ {n} : node'[k] = node[k] /\ Member(k)' = Member(k)
      BY <1>2 DEF SendHbAlone, Is, Member, LInv, TypeInvariant
    <2>2. net' \subseteq net /\ UNCHANGED <<given, faulty>>
      BY <1>2 DEF SendHbAlone
    <2> QED BY <2>1, <2>2, LeavesRealms
  <1>3. ASSUME NEW n \in Node, SanTimeout(n) PROVE Realms'
    BY <1>3, SanTimeoutRealms
  <1>4. ASSUME NEW n \in Node, Join(n) PROVE Realms'
    BY <1>4, JoinRealms
  <1>5. ASSUME NEW n \in Node, NEW m \in net, ProcessSap(n, m) PROVE Realms'
    BY <1>5, ProcessSapRealms
  <1>6. ASSUME NEW n \in Node, NEW m \in net, ProcessSan(n, m) PROVE Realms'
    BY <1>6, ProcessSanRealms
  <1>7. ASSUME NEW n \in Node, NEW e \in node[n].nbr, Expire(n, e) PROVE Realms'
    BY <1>7, ExpireRealms
  <1>8. ASSUME UNCHANGED <<node, status, given, faulty>>, net' \subseteq net PROVE Realms'
    <2>1. \A k \in Node : SameRealm(node[k], node'[k])
      BY <1>8 DEF SameRealm
    <2> QED BY <1>8, <2>1, SoundStays, NetSame, QuietRealms
  <1>9. ASSUME NEW p \in Movable, Move(p) PROVE Realms'
    BY <1>8, <1>9 DEF Move
  <1>10. ASSUME NEW m \in net, Lose(m) PROVE Realms'
    BY <1>8, <1>10 DEF Lose
  <1>11. CASE UNCHANGED vars
    BY <1>8, <1>11 DEF vars
  <1> QED BY <1>1, <1>2, <1>3, <1>4, <1>5, <1>6, <1>7, <1>9, <1>10, <1>11 DEF Next

\* What the nodes start with.
LEMMA InitRealms == StartsApart /\ Init => Realms
  <1> SUFFICES ASSUME StartsApart, Init PROVE Realms
    OBVIOUS
  <1>1. LInv
    BY InitLInv
  <1>2. PICK f \in Starts :
          node = [n \in Node |->
                   [prim |-> PrimAddr[n], mask |-> f[n].mask, sec |-> None, sec_mask |-> 0,
                    link |-> None, flag |-> FALSE, avai |-> TRUE, timer |-> FALSE, nsl |-> {},
                    nbr |-> f[n].nbr, rcvd |-> f[n].rcvd]]
    BY DEF Init
  <1>3. \A n \in Node : /\ node[n].prim = PrimAddr[n] /\ node[n].mask = f[n].mask
                        /\ node[n].flag = FALSE /\ node[n].rcvd = f[n].rcvd
    BY <1>2
  <1>4. /\ net = {} /\ (\A n \in Node : given[n] = <<>> /\ Flying(n) = {})
        /\ Sound \subseteq Node
    BY DEF Init, Flying, Sound
  <1>5. ASSUME NEW n \in Node
        PROVE  /\ StartBlocks(f, n) = Blocks(n) /\ Blocks(n) \in Seq(Block)
               /\ f[n].mask \in 0 .. Dim /\ f[n].rcvd \in Seq(Block)
    <2>1. f[n].mask \in 0 .. Dim /\ f[n].rcvd \in Seq(Block)
      BY SecondaryAssumption
    <2>2. Blocks(n) \in Seq(Block)
      BY <1>1, BlocksFacts
    <2>3. Blocks(n) = StartBlocks(f, n) \o <<>> \o <<>>
      BY <1>3, <1>4 DEF Blocks, StartBlocks
    <2>4. StartBlocks(f, n) \in Seq(Block)
      <3>1. OwnBlock(node[n]) \in Block
        BY <1>1, SecBlocksFacts DEF LInv, TypeInvariant
      <3>2. StartBlocks(f, n) = <<OwnBlock(node[n])>> \o f[n].rcvd
        BY <1>3 DEF StartBlocks, OwnBlock
      <3>3. <<OwnBlock(node[n])>> \in Seq(Block)
        BY <3>1, OneBlock
      <3> QED BY <2>1, <3>2, <3>3, ConcatProperties
    <2> QED BY <2>1, <2>2, <2>3, <2>4, ConcatEmptySeq
  <1>6. ASSUME NEW n \in Node, NEW k \in Node, NEW i \in DOMAIN Blocks(n), NEW j \in DOMAIN Blocks(k),
               <<n, i>> # <<k, j>>
        PROVE  Disjoint(Whole(Blocks(n)[i]), Whole(Blocks(k)[j]))
    <2> DEFINE b == Blocks(n)[i]
               c == Blocks(k)[j]
    <2>1. ~Meet(b, c)
      BY <1>5, <1>6 DEF StartsApart
    <2>2. b \in Block /\ c \in Block
      BY <1>5
    <2>3. b.addr \in Addr /\ c.addr \in Addr /\ b.mask \in Nat /\ c.mask \in Nat
      BY <2>2, MaskFacts DEF Block
    <2> QED BY <2>1, <2>3, MeetFacts
  <1>7. \A n \in Node : \A x : In(n, x) <=> \E b \in Range(Blocks(n)) : x \in Whole(b)
    BY <1>1, <1>4, BlocksRealm
  <1>8. RealmsApart
    BY <1>4, <1>6, <1>7 DEF RealmsApart, Disjoint, Range
  <1>9. ASSUME NEW n \in Node PROVE In(n, PrimAddr[n])
    <2>1. PrimAddr[n] \in Own(node[n])
      BY <1>3, AddrFacts, OwnAddress DEF Own
    <2> QED BY <2>1 DEF In, InRealm
  <1>10. NotForeign
    <2>1. ASSUME NEW n \in Node, NEW k \in Node \ {n} PROVE ~In(n, PrimAddr[k])
      <3>1. In(k, PrimAddr[k])
        BY <1>9
      <3> QED BY <1>6, <1>7, <3>1 DEF Disjoint, Range
    <2> QED BY <1>4, <2>1 DEF NotForeign
  <1>11. ASSUME NEW n \in Node PROVE Tidy(node[n], given[n], Flying(n))
    <2> DEFINE s == node[n]
               q == f[n].rcvd
               a == <<OwnBlock(s)>>
    <2>1. /\ s.flag = FALSE /\ s.rcvd = q /\ s.mask \in 0 .. Dim /\ s.prim = PrimAddr[n]
          /\ given[n] = <<>> /\ Flying(n) = {} /\ q \in Seq(Block) /\ Second(s) = {}
      BY <1>3, <1>4, <1>5 DEF Second
    <2>2. Halves(s, {})
      <3>1. s.mask <= Dim
        BY <2>1, DimAssumption
      <3>2. \A i \in DOMAIN q : Dist(q[i].addr, PrimAddr[n]) = 1 => IsHalf(PrimAddr[n], q[i])
        BY DEF StartsApart
      <3> QED BY <2>1, <3>1, <3>2 DEF Halves
    <2>3. Blocks(n) = a \o q
      BY <1>3, <1>5 DEF StartBlocks, OwnBlock
    <2>4. OwnBlock(s) \in Block /\ Whole(OwnBlock(s)) = Own(s)
      BY <1>1, SecBlocksFacts DEF LInv, TypeInvariant
    <2>5. a \in Seq(Block) /\ Len(a) = 1 /\ a[1] = OwnBlock(s)
      BY <2>4, OneBlock
    <2> HIDE DEF a, q
    <2>6. /\ DOMAIN q = 1 .. Len(q) /\ Len(q) \in Nat /\ DOMAIN Blocks(n) = 1 .. 1 + Len(q)
          /\ Blocks(n)[1] = OwnBlock(s)
          /\ \A i \in 1 .. Len(q) : Blocks(n)[i + 1] = q[i] /\ i + 1 \in DOMAIN Blocks(n)
      <3>1. DOMAIN q = 1 .. Len(q) /\ Len(q) \in Nat
        BY <2>1
      <3>2. a \o q \in Seq(Block) /\ Len(a \o q) = 1 + Len(q)
            /\ \A i \in 1 .. 1 + Len(q) : (a \o q)[i] = IF i <= 1 THEN a[i] ELSE q[i - 1]
        <4>1. /\ a \o q \in Seq(Block) /\ Len(a \o q) = Len(a) + Len(q)
              /\ \A i \in 1 .. Len(a) + Len(q) :
                   (a \o q)[i] = IF i <= Len(a) THEN a[i] ELSE q[i - Len(a)]
          BY <2>1, <2>5, ConcatProperties, ZenonT(30)
        <4> QED BY <2>5, <4>1
      <3>3. DOMAIN (a \o q) = 1 .. 1 + Len(q)
        BY <3>2
      <3>4. (a \o q)[1] = a[1]
        BY <3>1, <3>2
      <3>5. ASSUME NEW i \in 1 .. Len(q)
            PROVE  (a \o q)[i + 1] = q[i] /\ i + 1 \in 1 .. 1 + Len(q)
        <4>1. i + 1 \in 1 .. 1 + Len(q) /\ ~(i + 1 <= 1) /\ i + 1 - 1 = i
          BY <3>1
        <4> QED BY <3>2, <4>1
      <3> QED BY <2>3, <2>5, <3>1, <3>3, <3>4, <3>5
    <2>7. \A i \in DOMAIN q : Disjoint(Whole(q[i]), Own(s))
      <3> SUFFICES ASSUME NEW i \in DOMAIN q PROVE Disjoint(Whole(q[i]), Own(s))
        OBVIOUS
      <3>1. i + 1 # 1 /\ i \in 1 .. Len(q) /\ 1 \in DOMAIN Blocks(n)
        BY <2>6
      <3>2. Disjoint(Whole(Blocks(n)[i + 1]), Whole(Blocks(n)[1]))
        BY <1>6, <2>6, <3>1
      <3> QED BY <2>4, <2>6, <3>1, <3>2
    <2>8. AllApart(q)
      <3> SUFFICES ASSUME NEW i \in DOMAIN q, NEW j \in DOMAIN q, i # j
                   PROVE  Disjoint(Whole(q[i]), Whole(q[j]))
        BY DEF AllApart
      <3>1. i + 1 # j + 1
        BY <2>6
      <3>2. Disjoint(Whole(Blocks(n)[i + 1]), Whole(Blocks(n)[j + 1]))
        BY <1>6, <2>6, <3>1
      <3> QED BY <2>6, <3>2
    <2>9. OwnApart(s, <<>>)
      <3>1. DOMAIN <<>> = {}
        OBVIOUS
      <3> QED BY <2>1, <2>7, <2>8, <3>1 DEF OwnApart, AllApart, Disjoint
    <2>10. ProposedApart(s, <<>>, {})
      BY DEF ProposedApart
    <2> QED BY <2>1, <2>2, <2>9, <2>10 DEF Tidy
  <1> QED BY <1>4, <1>8, <1>10, <1>11 DEF Realms, AllTidy

(***************************************************************************)
(* However often secondary addresses are taken and dropped, given back and *)
(* given away, and whatever packets are lost or late, no address is in two *)
(* of the spaces of the nodes that are not faulty: that gave nothing away  *)
(* that they had proposed, and took nothing back from a node that is no    *)
(* successor when all bits are looked at (process_san1, send_panc,         *)
(* check_neigh_of_secondary_address).  What they start with has been       *)
(* assigned to them, and what check_neighbors takes back from a real       *)
(* successor is not in use any more: see RecoverableIsFree.                *)
(***************************************************************************)
THEOREM SecondaryAddressesAreMine ==
  ASSUME StartsApart
  PROVE  Spec /\ []RecoverableIsFree => []SecondaryIsMine
  <1>1. Init => LInv /\ Realms
    BY InitLInv, InitRealms
  <1>2. LInv /\ Realms /\ RecoverableIsFree /\ [Next]_vars => LInv' /\ Realms'
    BY StepLInv, StepRealms
  <1>3. LInv /\ Realms => SecondaryIsMine
    BY RealmsAreMine
  <1> QED BY <1>1, <1>2, <1>3, PTL DEF Spec
=============================================================================
