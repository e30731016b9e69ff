---------------------------- MODULE AddressSpace ----------------------------
(***************************************************************************)
(* What the address assignment of ANTop promises.  Every running node      *)
(* administers a set of addresses of its network, its own among them.  A   *)
(* node may let go of part of its set, take over addresses that nobody     *)
(* administers, or come up with a set of such addresses.  No address ever  *)
(* has two administrators in one network, so no two nodes of a network     *)
(* have the same address.                                                  *)
(***************************************************************************)
CONSTANTS
  Node,      \* the nodes
  Network,   \* the network numbers
  Address,   \* the addresses
  NoNetwork, \* the network of a node that is not running
  NoAddress  \* and its address

VARIABLES
  network,   \* network[n]: the network n belongs to, or NoNetwork
  own,       \* own[n]: the address of n, or NoAddress
  held       \* held[n]: the addresses n administers

vars == <<network, own, held>>

TypeOK ==
  /\ network \in [Node -> Network \cup {NoNetwork}]
  /\ own \in [Node -> Address \cup {NoAddress}]
  /\ held \in [Node -> SUBSET Address]

\* The addresses of network r that no node other than n administers.
Unclaimed(n, r) ==
  Address \ UNION {held[m] : m \in {k \in Node \ {n} : network[k] = r}}

Init ==
  /\ network = [n \in Node |-> NoNetwork]
  /\ own = [n \in Node |-> NoAddress]
  /\ held = [n \in Node |-> {}]

\* Only n changes, into any state of its type.
Only(n) ==
  /\ network' = [network EXCEPT ![n] = network'[n]]
  /\ own' = [own EXCEPT ![n] = own'[n]]
  /\ held' = [held EXCEPT ![n] = held'[n]]

\* n comes up in a network, with a set of addresses that nobody administers
\* there, its own among them; it leaves the network it was in.
Take(n) ==
  /\ Only(n)
  /\ network'[n] \in Network
  /\ held'[n] \subseteq Unclaimed(n, network'[n])
  /\ own'[n] \in held'[n]

\* n gives part of its set away; it keeps its own address.
Give(n) ==
  /\ network[n] # NoNetwork
  /\ UNCHANGED <<network, own>>
  /\ Only(n)
  /\ held'[n] \subseteq held[n]
  /\ own[n] \in held'[n]

\* n takes over addresses that nobody administers any more.
Recover(n) ==
  /\ network[n] # NoNetwork
  /\ UNCHANGED <<network, own>>
  /\ Only(n)
  /\ held[n] \subseteq held'[n]
  /\ held'[n] \subseteq held[n] \cup Unclaimed(n, network[n])

Stop(n) ==
  /\ network' = [network EXCEPT ![n] = NoNetwork]
  /\ own' = [own EXCEPT ![n] = NoAddress]
  /\ held' = [held EXCEPT ![n] = {}]

Next == \E n \in Node : Take(n) \/ Give(n) \/ Recover(n) \/ Stop(n)

Spec == Init /\ [][Next]_vars

-----------------------------------------------------------------------------
\* A node that is up administers its own address.
OwnHeld == \A n \in Node : network[n] # NoNetwork => own[n] \in held[n]

\* No address of a network has two administrators.
Disjoint ==
  \A m, n \in Node :
    m # n /\ network[m] = network[n] /\ network[n] # NoNetwork
      => held[m] \cap held[n] = {}

\* No two nodes of a network have the same address.
Unique ==
  \A m, n \in Node :
    m # n /\ network[m] = network[n] /\ network[n] # NoNetwork => own[m] # own[n]
=============================================================================
