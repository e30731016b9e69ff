------------------------------ MODULE Members ------------------------------
(***************************************************************************)
(* What the fragmentation of a network and the merge of two have in        *)
(* common: the state of a node that they change, the shifts of addresses,  *)
(* and the packets.                                                        *)
(*                                                                         *)
(* The nodes have no secondary addresses: sec_addr_flag and                *)
(* flag_neigh_by_second are 0, and so the flags of the two halves of a     *)
(* change (_primaria, _secundaria) are not told apart.  A handler runs to  *)
(* its end before the next packet is read, its sleeps included.            *)
(***************************************************************************)
EXTENDS Hypercube, Integers, Sequences, SequencesExt

CONSTANTS
  Node,
  Link,      \* Link[n]: the nodes in the range of n
  Mac        \* Mac[n]: mac_address of n, the number of a network that n founds

ASSUME MembersAssumption ==
  /\ Link \in [Node -> SUBSET Node] /\ \A n \in Node : n \notin Link[n]
  /\ Mac \in [Node -> Nat]
  /\ Dim >= 4

\* dir_default, 2001:db8::a.
Default == {Dim - 4, Dim - 2}

\* Masks are unsigned char.
Byte(x) == x % 256

Masks == 0 .. 255

\* The greatest distance of neighbor_to_root, which any neighbour is nearer than.
FarAway == 99

(***************************************************************************)
(* nbr is neigh_table, n2r is neighbor_to_root, aux is prim_addr_aux and   *)
(* pmm is prim_mask_mezcla; frag and mez are flag_fragmentacion and        *)
(* flag_mezcla.                                                            *)
(***************************************************************************)
State ==
  [addr : Addr, mask : Masks, inicial : Masks, red : Nat, nbr : Seq(Addr),
   rcvd : Seq([addr : Addr, mask : Masks]), n2r : [addr : Addr, distance : Nat],
   frag : BOOLEAN, mez : BOOLEAN, aux : Addr, pmm : Masks]

(***************************************************************************)
(* A packet: `from', `to' and `src' are prim_addr, ad_addr.addr and        *)
(* src_addr.  `hear' are the nodes that the radio can bring it to: they    *)
(* take it if it is for all nodes or for their own address.  `for' is not  *)
(* in a packet: the node that waits for the answer to it, or that it is    *)
(* the answer for.                                                         *)
(***************************************************************************)
Message ==
  [type : {"FAR", "FAN", "MAR1", "MAR2", "MAN1", "MAN2", "HB"}, from : Addr,
   to : Addr, src : Addr, mask : Masks, pmm : Masks, red : Nat,
   hear : SUBSET Node, all : BOOLEAN, for : Node]

VARIABLES
  node,     \* node[n] is a State
  up,       \* the nodes that run
  net,      \* the packets on their way
  bereft    \* history: nodes that a request, or the answer to it, was lost for

Is(n, s) == node' = [node EXCEPT ![n] = s]

\* n changes addresses and does not listen to heartbeats.
Flagged(n) == node[n].frag \/ node[n].mez

-----------------------------------------------------------------------------
\* shift: the bits that the root has stay where they are.
ShiftLeft(a, k)  == {b - k : b \in {c \in a \ Root : c >= k}} \cup Root
ShiftRight(a, k) == {b + k : b \in {c \in a \ Root : c + k < Dim}} \cup Root

\* The neighbours without those in A.
Without(nbr, A) == SelectSeq(nbr, LAMBDA a : a \notin A)

\* Packets of n to the addresses in A.
Packets(n, type, A, from, src, mask, pmm, red) ==
  {[type |-> type, from |-> from, to |-> a, src |-> src, mask |-> mask, pmm |-> pmm, red |-> red,
    hear |-> Link[n], all |-> FALSE, for |-> n] : a \in A}

Packet(n, type, to, from, src, mask, red, for) ==
  [type |-> type, from |-> from, to |-> to, src |-> src, mask |-> mask, pmm |-> 0, red |-> red,
   hear |-> Link[n], all |-> FALSE, for |-> for]

\* A packet comes to n.
Comes(n, m) ==
  /\ n \in up /\ m \in net /\ n \in m.hear
  /\ m.all \/ m.to = node[n].addr

\* It changes nothing.
Ignored(m) ==
  /\ net' = net \ {m}
  /\ bereft' = bereft \cup {m.for}
  /\ UNCHANGED <<node, up>>
=============================================================================
