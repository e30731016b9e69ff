---------------------------- MODULE MCRendezvous ----------------------------
(***************************************************************************)
(* Instances of Rendezvous for TLC: two nodes, the first with a secondary  *)
(* address.                                                                *)
(***************************************************************************)
EXTENDS Rendezvous

CONSTANTS n1, n2, x1, x2, a1, a2, a3, a4, s1

MCUnivAddr == (n1 :> x1) @@ (n2 :> x2)
MCSecAddr  == (n1 :> {a3}) @@ (n2 :> {})
MCAddr0    == (n1 :> a1) @@ (n2 :> a2)
MCServes0  == (n1 :> {}) @@ (n2 :> {s1})
MCAsk      == {<<n1, x2>>}
MCHash     == [x \in Name |-> {s1}]
MCPrefixOf == [x \in Name |-> {x}]
=============================================================================
