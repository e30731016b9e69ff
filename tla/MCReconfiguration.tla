------------------------ MODULE MCReconfiguration ------------------------
(***************************************************************************)
(* Instances of Reconfiguration for TLC: four nodes in a row.              *)
(***************************************************************************)
EXTENDS Reconfiguration, TLC

CONSTANTS n1, n2, n3, n4

MCLink == (n1 :> {n2}) @@ (n2 :> {n1, n3}) @@ (n3 :> {n2, n4}) @@ (n4 :> {n3})
MCMac  == (n1 :> 1) @@ (n2 :> 2) @@ (n3 :> 3) @@ (n4 :> 4)

\* The state of a node at rest with address a; r is its parent.
St(a, mask, inicial, red, nbr, r) ==
  [addr |-> a \cup Root, mask |-> mask, inicial |-> inicial, red |-> red,
   nbr |-> [i \in DOMAIN nbr |-> nbr[i] \cup Root], rcvd |-> <<>>,
   n2r |-> [addr |-> r \cup Root, distance |-> Cardinality(r)],
   frag |-> FALSE, mez |-> FALSE, aux |-> Root, pmm |-> 0]

RootSt(mask, red, nbr) == [St({}, mask, 0, red, nbr, {}) EXCEPT !.n2r.distance = FarAway]

\* The root is gone that n1 was a child of; n2, n3 and n4 came after n1, and n4
\* has missed the heartbeats of n3.
Orphans ==
  (n1 :> St({0}, 2, 1, 0, <<{0, 1}>>, {}))
    @@ (n2 :> St({0, 1}, 3, 2, 0, <<{0}, {0, 1, 2}>>, {0}))
    @@ (n3 :> St({0, 1, 2}, 4, 3, 0, <<{0, 1}, {0, 1, 2, 3}>>, {0, 1}))
    @@ (n4 :> St({0, 1, 2, 3}, 4, 4, 0, <<>>, {0, 1, 2}))

\* n1 is alone, n2 is the root of the others.
AboveJoins ==
  (n1 :> RootSt(0, 1, <<>>))
    @@ (n2 :> RootSt(1, 2, <<{0}>>))
    @@ (n3 :> St({0}, 2, 1, 2, <<{}, {0, 1}>>, {}))
    @@ (n4 :> St({0, 1}, 2, 2, 2, <<{0}>>, {0}))

\* n1 is alone and has got back a space; n3 is the root of the others.
BelowJoins ==
  (n1 :> [RootSt(1, 1, <<>>) EXCEPT !.rcvd = <<[addr |-> {0} \cup Root, mask |-> 1]>>])
    @@ (n2 :> St({0}, 1, 1, 2, <<{}>>, {}))
    @@ (n3 :> RootSt(2, 2, <<{0}, {1}>>))
    @@ (n4 :> St({1}, 2, 2, 2, <<{}>>, {}))

MCStart == {Orphans, AboveJoins, BelowJoins}
=============================================================================
