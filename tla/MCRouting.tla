----------------------------- MODULE MCRouting -----------------------------
(***************************************************************************)
(* Instances of Routing for TLC: the root of a cube of dimension 3 with    *)
(* two possible neighbours and two nodes further away.                     *)
(***************************************************************************)
EXTENDS Routing

MCMe       == Root
MCPeer     == {{0, 2}, {1, 2}}
MCPeerMask == [p \in MCPeer |-> 2]
MCSecPeer  == {{1, 2}}
MCSecAddr  == {[addr |-> {0, 1, 2}, mask |-> 3]}
MCFar      == {{0, 1}, {1}}

Pkt(h, t, s, d, f) ==
  [hook |-> h, type |-> t, src |-> s, dst |-> d, from |-> f, hops |-> 2]

\* A node sends to another one and gets an answer; both use this node.
MCPacket ==
  {Pkt("PRE_ROUTING", "data", {1}, {0, 1}, {1, 2}),
   Pkt("FORWARD", "data", {1}, {0, 1}, {1, 2}),
   Pkt("PRE_ROUTING", "data", {0, 1}, {1}, {0, 2}),
   Pkt("PRE_ROUTING", "data", MCMe, {0, 1}, {0, 2}),
   Pkt("LOCAL_OUT", "rv", MCMe, {0, 2}, MCMe),
   Pkt("LOCAL_IN", "data", {1}, MCMe, Garbage)}
=============================================================================
