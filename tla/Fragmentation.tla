--------------------------- MODULE Fragmentation ---------------------------
(***************************************************************************)
(* Fragmentation (fragmentacion.c).  A node that has lost its way to the   *)
(* root becomes the root of a network of its own, and tells its neighbours *)
(* (FAR), who tell theirs: all cut the bits off that the new root had      *)
(* before its own space began.  Everybody waits for one answer (FAN).      *)
(***************************************************************************)
EXTENDS Members

\* The addresses that the loops send a FAR to.
FarTo(s, m, own) == Range(s.nbr) \ {m.from, own, m.src}

\* detector_de_fragmentacion, first loop: the last of the nearest neighbours.
NearestToRoot(s) ==
  LET Step(r, a) ==
        IF Dist(Root, a) <= r.distance /\ Dist(s.addr, a) = 1
        THEN [addr |-> a, distance |-> Dist(Root, a)] ELSE r
  IN  FoldLeft(Step, s.n2r, s.nbr)

Detects(s) == s.addr # Root /\ NearestToRoot(s).addr \notin Range(s.nbr)

Recovered(rcvd, k) ==
  [i \in DOMAIN rcvd |-> [addr |-> ShiftLeft(rcvd[i].addr, k), mask |-> Byte(rcvd[i].mask - k)]]

\* fragmentacion, run by n in the state s.
Fragmented(n, s) ==
  LET k == s.inicial
  IN  [s EXCEPT !.frag = TRUE, !.red = Mac[n], !.addr = ShiftLeft(@, k), !.mask = Byte(@ - k),
                !.rcvd = Recovered(@, k), !.nbr = <<>>, !.inicial = 0]

FragmentationFars(n, s) ==
  Packets(n, "FAR", Range(s.nbr), ShiftLeft(s.addr, s.inicial), s.addr, s.inicial, 0, Mac[n])

\* Wrong variant: a node without successors waits too.
WaitsAlways(fars) == TRUE

\* Whether n waits for an answer.
WaitsForFan(fars) == fars # {}

\* process_far.  add_neighbor reads the first entry of neigh_table without
\* looking whether there is one.
ProcessFar(n, m) ==
  LET s    == node[n]
      a    == ShiftLeft(s.addr, m.mask)
      sends == s.mask # s.inicial
      A    == IF sends THEN FarTo(s, m, a) ELSE {}
      fars == Packets(n, "FAR", A, a, s.addr, m.mask, 0, m.red)
      gone == IF sends THEN A \cup {m.src} ELSE {}
  IN  /\ Comes(n, m) /\ m.type = "FAR"
      /\ \/ /\ s.nbr = <<>>
            /\ up' = up \ {n}
            /\ net' = net \ {m}
            /\ bereft' = bereft \cup {m.for}
            /\ UNCHANGED node
         \/ /\ s.nbr # <<>>
            /\ Is(n, [s EXCEPT !.addr = a, !.mask = Byte(@ - m.mask), !.inicial = Byte(@ - m.mask),
                               !.red = m.red, !.rcvd = Recovered(@, m.mask),
                               !.n2r = [addr |-> m.from, distance |-> Dist(Root, m.from)],
                               !.nbr = Without(Append(@, m.from), gone),
                               !.frag = WaitsForFan(fars)])
            /\ net' = (net \ {m}) \cup fars
                        \cup {Packet(n, "FAN", m.from, s.addr, s.addr, 0, s.red, m.for)}
            /\ UNCHANGED <<up, bereft>>

\* process_fan: the first answer is enough.
ProcessFan(n, m) ==
  /\ Comes(n, m) /\ m.type = "FAN"
  /\ Is(n, [node[n] EXCEPT !.frag = FALSE])
  /\ net' = net \ {m}
  /\ bereft' = IF n = m.for THEN bereft ELSE bereft \cup {m.for}
  /\ UNCHANGED up
=============================================================================
