---------------------------- MODULE MCSecondary ----------------------------
(***************************************************************************)
(* Four children of the root, {0}, {1}, {2} and {3}; the first is in range *)
(* of the others.  Words of three bits put the bit of the last one into    *)
(* another word than those of the others.                                  *)
(***************************************************************************)
EXTENDS Secondary

CONSTANTS x, y, z, w

MCPrimAddr == (x :> {0, 4}) @@ (y :> {1, 4}) @@ (z :> {2, 4}) @@ (w :> {3, 4})

MCInicial == (x :> 1) @@ (y :> 2) @@ (z :> 3) @@ (w :> 4)

RootEntry == {[addr |-> Root, inicial |-> 0]}

Begin(who, mask, nbr) == [status |-> who, mask |-> mask, rcvd |-> <<>>, nbr |-> nbr]

\* A neighbour of x that is gone: x gave {0, 1, 4} to it.
GoneSuccesor == [addr |-> {0, 1, 4}, inicial |-> 2]

\* x has all of its space and hears y and z, or w; or it hears y and z and will take
\* a part of its space back.
MCStarts ==
  {(x :> Begin("member", mask, nbr)) @@ [n \in {y, z, w} |->
      Begin(IF n \in there THEN "member" ELSE "crashed", 4, RootEntry)] :
     <<mask, nbr, there>> \in {<<1, RootEntry, {y, z}>>, <<1, RootEntry, {w}>>,
                               <<4, RootEntry \cup {GoneSuccesor}, {y, z}>>}}

ASSUME MCStartsAssumption == StartsApart

\* x may lose its neighbour the root.
MCOthers == [n \in Node |-> IF n = x THEN {} ELSE {Root}]

MCHidden == {<<y, z>>}

MCMovable == {<<x, y>>, <<x, w>>}
=============================================================================
