------------------------------- MODULE Merge -------------------------------
(***************************************************************************)
(* The merge of two networks (mezcla.c).  A node that hears of a network   *)
(* with a higher number takes the default address and asks the node it     *)
(* heard (MAR1) to become its child.  That node sends its successors the   *)
(* same way down (MAR1) and turns its tree upside down above itself        *)
(* (MAR2).  Nodes that sent something wait for one answer (MAN1, MAN2)     *)
(* before they change their addresses.                                     *)
(***************************************************************************)
EXTENDS Members

\* shift_mezcla: below src, whose space has mask k, instead of below the node
\* whose space had mask mf.
ShiftMezcla(src, a, k, mf) ==
  IF mf >= 1 THEN ShiftRight(ShiftLeft(a, mf - 1), k) \cup src
  ELSE ShiftRight(a, k + 1) \cup ({k} \cap Bits) \cup src

\* The same for the recovered spaces.
MovedSpaces(rcvd, src, k, mf) ==
  [i \in DOMAIN rcvd |-> [addr |-> ShiftMezcla(src, rcvd[i].addr, k, mf),
                          mask |-> Byte(rcvd[i].mask + k - (mf - 1))]]

-----------------------------------------------------------------------------
\* Wrong variant: one bit less in both cases.
ProposedMaskLess(s) ==
  IF s.rcvd = <<>> THEN s.mask - 1 ELSE s.rcvd[1].mask - 1

\* The space that mezcla offers: the first recovered one, or half of its own.
ProposedMask(s) ==
  IF s.rcvd = <<>> \/ \A i \in DOMAIN s.rcvd : s.rcvd[i].mask = 0 THEN s.mask
  ELSE SelectSeq(s.rcvd, LAMBDA r : r.mask # 0)[1].mask - 1

\* The recovered spaces without the one that was offered.
StillRecovered(s) ==
  LET S == {i \in DOMAIN s.rcvd : s.rcvd[i].mask # 0}
  IN  IF S = {} THEN s.rcvd ELSE RemoveAt(s.rcvd, CHOOSE i \in S : \A j \in S : i <= j)

\* mezcla, run by n in the state s.
Merging(s) ==
  [s EXCEPT !.mez = TRUE, !.aux = s.addr, !.addr = Default, !.rcvd = StillRecovered(s)]

\* The MAR1 of the default address goes to all nodes in range.
FirstMar1(n, s, dst) ==
  {[type |-> "MAR1", from |-> Default, to |-> dst, src |-> s.addr, mask |-> ProposedMask(s),
    pmm |-> 0, red |-> s.red, hear |-> {k}, all |-> TRUE, for |-> n] : k \in Link[n]}

-----------------------------------------------------------------------------
\* The neighbours that are nearer to the root, or as near.
Above(s, A) == {b \in A : Dist(Root, b) <= Dist(Root, s.addr)}

\* The loops that send MAR2: each of the B is given half of the space that is
\* left, in the order of the list.  src[i] is the address in the i-th packet.
Mar2s(n, s, B, src, mask, red) ==
  LET to == SelectSeq(s.nbr, LAMBDA b : b \in B)
  IN  {Packet(n, "MAR2", to[i], s.addr, src[i], Byte(mask + i), red, n) : i \in DOMAIN to}

\* process_mar1 as the dispatch lets it in: from another network, to this
\* address.
ProcessMar1(n, m) ==
  LET s       == node[n]
      first   == m.from = Default
      sender  == IF first THEN m.src ELSE m.from
      known   == first /\ sender \in Range(s.nbr)
      nbr     == IF first /\ s.nbr # <<>> /\ ~known THEN Append(s.nbr, sender) ELSE s.nbr
      pmm     == IF first THEN s.inicial ELSE m.pmm
      mask    == Byte(s.mask + m.mask - (pmm - 1))
      inicial == Byte(m.mask + 1 + (s.inicial - pmm))
      sends   == s.mask # s.inicial \/ (first /\ s.nbr # <<>>)
      A       == IF ~sends THEN {} ELSE IF known THEN Range(nbr) ELSE Range(nbr) \ {sender}
      up2     == Above(s, A)
      moved[i \in 0 .. Len(s.nbr) + 1] ==
        IF i = 0 THEN s.addr ELSE ShiftMezcla(m.src, moved[i - 1], m.mask, pmm)
      t       == [s EXCEPT !.pmm = pmm, !.red = m.red, !.inicial = inicial,
                           !.n2r.distance = FarAway, !.mez = TRUE]
      Man1(from) == Packet(n, "MAN1", m.from, from, m.src, m.mask, m.red, m.for)
  IN  /\ Comes(n, m) /\ m.type = "MAR1"
      /\ m.red # s.red /\ m.to = s.addr
      /\ \/ /\ A # {}
            /\ Is(n, [t EXCEPT !.mask = Byte(mask + Cardinality(up2)), !.nbr = Without(nbr, A)])
            /\ net' = (net \ {m}) \cup {Man1(s.addr)}
                        \cup Packets(n, "MAR1", A \ up2, s.addr, m.src, m.mask, pmm, m.red)
                        \cup Mar2s(n, s, up2, moved, mask, m.red)
         \/ /\ A = {}
            /\ Is(n, [t EXCEPT !.mask = mask, !.addr = moved[1], !.mez = FALSE,
                               !.rcvd = MovedSpaces(@, m.src, m.mask, pmm),
                               !.nbr = IF first /\ nbr = <<>> THEN <<sender>> ELSE nbr])
            /\ net' = (net \ {m})
                        \cup {Man1(IF first /\ nbr = <<>> THEN moved[1] ELSE s.addr)}
      /\ UNCHANGED <<up, bereft>>

\* Another MAR1 of its own network ends the merge of a node that waits.
GiveUpMerge(n, m) ==
  LET s == node[n]
  IN  /\ Comes(n, m) /\ m.type = "MAR1"
      /\ m.red = s.red /\ s.addr = Default
      /\ Is(n, [s EXCEPT !.addr = s.aux, !.mez = FALSE])
      /\ net' = net \ {m}
      /\ bereft' = bereft \cup {m.for}
      /\ UNCHANGED up

\* The MAR1 that the dispatch leaves.
IgnoreMar1(n, m) ==
  /\ Comes(n, m) /\ m.type = "MAR1"
  /\ \/ m.red = node[n].red /\ node[n].addr # Default
     \/ m.red # node[n].red /\ m.to # node[n].addr
  /\ Ignored(m)

\* process_mar2: n is now below the sender.
ProcessMar2(n, m) ==
  LET s   == node[n]
      new == m.src \cup ({m.mask - 1} \cap Bits)
      A   == IF s.mask = s.inicial THEN {} ELSE Range(s.nbr) \ {m.from}
      t   == [s EXCEPT !.red = m.red, !.inicial = m.mask, !.n2r.distance = FarAway, !.mez = TRUE]
      end == Byte(m.mask + Cardinality(A))
      man2 == Packet(n, "MAN2", m.from, s.addr, m.src, end, m.red, m.for)
  IN  /\ Comes(n, m) /\ m.type = "MAR2" /\ m.red # s.red
      /\ \/ /\ A # {}
            /\ Is(n, [t EXCEPT !.mask = end, !.nbr = Without(@, A)])
            /\ net' = (net \ {m}) \cup {man2}
                        \cup Mar2s(n, s, A, [i \in DOMAIN s.nbr |-> new], m.mask, m.red)
         \/ /\ A = {}
            /\ Is(n, [t EXCEPT !.mask = end, !.addr = new, !.rcvd = <<>>, !.mez = FALSE])
            /\ net' = (net \ {m}) \cup {man2}
      /\ UNCHANGED <<up, bereft>>

\* Wrong variant: the starter keeps the space that it gave away.
MaskAfterMan1Same(s, m) == s.mask

\* The mask of the node that started the merge, once it is answered.
MaskAfterMan1(s, m) == IF m.mask = s.mask THEN Byte(s.mask + 1) ELSE s.mask

\* process_man1: the node that started the merge has its address again; others
\* change theirs now.
ProcessMan1(n, m) ==
  LET s == node[n]
  IN  /\ Comes(n, m) /\ m.type = "MAN1" /\ m.red = s.red
      /\ Is(n, CASE s.mez /\ s.addr = Default ->
                      [s EXCEPT !.addr = s.aux, !.mask = MaskAfterMan1(s, m), !.mez = FALSE]
                 [] s.mez /\ s.addr # Default ->
                      [s EXCEPT !.addr = ShiftMezcla(m.src, @, m.mask, s.pmm), !.mez = FALSE,
                                !.rcvd = MovedSpaces(@, m.src, m.mask, s.pmm)]
                 [] OTHER -> s)
      /\ net' = net \ {m}
      /\ bereft' = IF n = m.for THEN bereft ELSE bereft \cup {m.for}
      /\ UNCHANGED up

\* process_man2: the address that went out in the MAR2 is taken.
ProcessMan2(n, m) ==
  LET s == node[n]
  IN  /\ Comes(n, m) /\ m.type = "MAN2" /\ m.red = s.red
      /\ Is(n, IF s.mez THEN [s EXCEPT !.addr = m.src, !.rcvd = <<>>, !.mez = FALSE] ELSE s)
      /\ net' = net \ {m}
      /\ bereft' = IF n = m.for THEN bereft ELSE bereft \cup {m.for}
      /\ UNCHANGED up

\* The other packets of another, or of the same network.
IgnoreOther(n, m) ==
  /\ Comes(n, m)
  /\ \/ m.type = "MAR2" /\ m.red = node[n].red
     \/ m.type \in {"MAN1", "MAN2"} /\ m.red # node[n].red
  /\ Ignored(m)
=============================================================================
