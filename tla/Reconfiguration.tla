-------------------------- MODULE Reconfiguration --------------------------
(***************************************************************************)
(* Fragmentation and merge together: heartbeats start them (process_hb),   *)
(* the dispatch of antop_process_pkt brings their packets in, and packets  *)
(* are delayed, overtaken or lost.                                         *)
(***************************************************************************)
EXTENDS Fragmentation, Merge

CONSTANTS
  Start,     \* the states that the nodes may start from
  MaxBeats   \* bound: how many heartbeats are sent

ASSUME ReconfigurationAssumption ==
  Start \subseteq [Node -> State] /\ MaxBeats \in Nat

VARIABLE beats   \* how many heartbeats were sent

vars == <<node, up, net, bereft, beats>>

Init ==
  /\ node \in Start
  /\ up = Node
  /\ net = {}
  /\ bereft = {}
  /\ beats = 0

\* check_if_i_am_only: a node without neighbours becomes a root again.
CheckIfIAmOnly(n, s) ==
  IF s.nbr = <<>> /\ s.addr # Root
  THEN [s EXCEPT !.addr = Root, !.mask = 0, !.inicial = 0, !.red = Mac[n],
                 !.n2r.distance = FarAway, !.rcvd = <<>>]
  ELSE s

\* send_hb; a node with a flag sends nothing.
SendHb(n) ==
  LET s == CheckIfIAmOnly(n, node[n])
  IN  /\ n \in up /\ ~Flagged(n)
      /\ beats < MaxBeats
      /\ beats' = beats + 1
      /\ Is(n, s)
      /\ net' = net \cup {[Packet(n, "HB", Root, s.addr, s.addr, s.mask, s.red, n)
                             EXCEPT !.hear = {k}, !.all = TRUE] : k \in Link[n]}
      /\ UNCHANGED <<up, bereft>>

\* process_hb from the network of n: a sender at distance one is a neighbour;
\* then the way to the root is looked for.  ping6 may fail or not.
Neighbor(n, m) ==
  LET s == node[n]
      t == IF m.from \in Range(s.nbr) THEN s ELSE [s EXCEPT !.nbr = Append(@, m.from)]
      r == IF t.addr = Root THEN t ELSE [t EXCEPT !.n2r = NearestToRoot(t)]
  IN  /\ m.red = s.red /\ m.from # s.addr
      /\ Dist(s.addr, m.from) = 1
      /\ \/ /\ Is(n, r)
            /\ net' = net \ {m}
         \/ /\ Detects(t)
            /\ Is(n, Fragmented(n, r))
            /\ net' = (net \ {m}) \cup FragmentationFars(n, r)

\* process_hb from a network with a higher number: detector_de_mezcla.
OtherNetwork(n, m) ==
  LET s == node[n]
  IN  /\ m.red > s.red
      /\ Is(n, Merging(s))
      /\ net' = (net \ {m}) \cup FirstMar1(n, s, m.from)

NotNeighbor(n, m) ==
  LET s == node[n]
  IN  /\ \/ m.red < s.red
         \/ m.red = s.red /\ Dist(s.addr, m.from) # 1
      /\ net' = net \ {m}
      /\ UNCHANGED node

ProcessHb(n, m) ==
  /\ Comes(n, m) /\ m.type = "HB"
  /\ \/ Flagged(n) /\ net' = net \ {m} /\ UNCHANGED node
     \/ ~Flagged(n) /\ Neighbor(n, m)
     \/ ~Flagged(n) /\ OtherNetwork(n, m)
     \/ ~Flagged(n) /\ NotNeighbor(n, m)
  /\ UNCHANGED <<up, bereft>>

\* The dispatch of antop_process_pkt.
Receive(n, m) ==
  \/ ProcessFar(n, m) /\ UNCHANGED beats
  \/ ProcessFan(n, m) /\ UNCHANGED beats
  \/ ProcessMar1(n, m) /\ UNCHANGED beats
  \/ GiveUpMerge(n, m) /\ UNCHANGED beats
  \/ IgnoreMar1(n, m) /\ UNCHANGED beats
  \/ ProcessMar2(n, m) /\ UNCHANGED beats
  \/ ProcessMan1(n, m) /\ UNCHANGED beats
  \/ ProcessMan2(n, m) /\ UNCHANGED beats
  \/ IgnoreOther(n, m) /\ UNCHANGED beats
  \/ ProcessHb(n, m) /\ UNCHANGED beats

\* A packet is lost, or nobody has its address any more.
Lose(m) ==
  /\ m \in net
  /\ net' = net \ {m}
  /\ bereft' = IF m.type = "HB" THEN bereft ELSE bereft \cup {m.for}
  /\ UNCHANGED <<node, up, beats>>

Next ==
  \/ \E n \in Node : SendHb(n)
  \/ \E n \in Node, m \in net : Receive(n, m)
  \/ \E m \in net : Lose(m)

\* Every packet arrives or is lost in the end.
Spec == Init /\ [][Next]_vars /\ WF_vars(\E m \in net : Lose(m) \/ \E n \in Node : Receive(n, m))

-----------------------------------------------------------------------------
TypeInvariant ==
  /\ node \in [Node -> State]
  /\ up \subseteq Node
  /\ net \subseteq Message
  /\ bereft \subseteq Node
  /\ beats \in 0 .. MaxBeats

\* Nobody changes addresses, and nothing of it is on its way.
Settled ==
  /\ \A n \in up : ~Flagged(n)
  /\ \A m \in net : m.type = "HB"

\* The running nodes of one network.
SameNetwork(n, k) == n \in up /\ k \in up /\ n # k /\ node[n].red = node[k].red

\* When all answers have come, no two nodes of a network have the same address
\* or administer the same one, however the trees were cut off, moved and turned.
SettledIsDisjoint ==
  Settled /\ bereft = {} =>
    \A n, k \in Node : SameNetwork(n, k) =>
      Space(node[n].addr, node[n].mask) \cap Space(node[k].addr, node[k].mask) = {}

\* A node stays out of the network, its flag set, only when its request or the
\* answer to it was lost.
FlagsCleared == <>[](\A n \in up : Flagged(n) => n \in bereft)
=============================================================================
