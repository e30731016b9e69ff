---------------------------- MODULE MCHcbAddress ----------------------------
(***************************************************************************)
(* Instances of HcbAddress for TLC: two or three nodes that hear each      *)
(* other.                                                                  *)
(***************************************************************************)
EXTENDS HcbAddress, TLC

CONSTANTS n1, n2, n3

AllLinks == {l \in Node \X Node : l[1] # l[2]}

\* Every node founds a network of its own number.
TwoMacs   == n1 :> 1 @@ n2 :> 2
ThreeMacs == TwoMacs @@ n3 :> 3

\* Where there is only one network at a time its number distinguishes nothing,
\* and the nodes are interchangeable.
OneMac  == [n \in Node |-> 1]
Symmetry == Permutations(Node)
=============================================================================
