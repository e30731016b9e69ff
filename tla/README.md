# A TLA+ model of ANTop

ANTop gives the nodes of an ad hoc wireless network IPv6 addresses that are the corners of a hypercube,
routes along the edges of the cube, and resolves names at rendezvous nodes found by hashing. Every node is one
process with one thread: a `select` loop (`main.c:343`) that serves timers and sockets. What is hard about the
program is therefore not threads but the protocol between processes: every node changes state on its own, datagrams
are lost, late and reordered, nodes go away, and several handlers block (`sleep(2)`, or the two `select` loops of
`get_prim_addr`) while the node's other timers are due.

The repository has no documentation or tests; its comments (Spanish and English) are the only statements about it.

## 1. Inventory

| part | source | state it keeps | operations |
|---|---|---|---|
| primary address | `hcb_address.c` | `prim_addr`, `prim_mask`, `prim_mask_inicial`, `red_numero`, `flag_conexion`, `rcvd_offered`, the vector of PAPs | `get_prim_addr`, `send_par/pap/pan/panc`, `receive_pap` |
| hypercube arithmetic | `pkt_handle.c:312-367,858-910`, `heart_beat.c:311-383` | none | `dist`, `dist_w_mask`, `check_addr_space`, `check_succesor` |
| heartbeats, neighbours | `heart_beat.c` | `neigh_table`, `count` of every entry, `rcvd_addr` | `send_hb`, `process_hb`, `add/find/delete_neighbor`, `check_neighbors`, `recover_addr_space` |
| timers, main loop | `timer_queue.c`, `main.c` | the list `TQ`, `used` and `timeout` of every timer | `timer_add(_msec)`, `timer_remove`, `timer_timeout`, `timer_age_queue` |
| dispatch | `antop_socket.c` | none | `antop_socket_read` processes a packet *and* returns it; `antop_process_pkt` |
| merging of networks | `mezcla.c` | `flag_mezcla`, `_primaria`, `_secundaria` | `detector_de_mezcla`, `mezcla`, `process_mar1/2`, `process_man1/2`, `shift_mezcla` |
| fragmentation | `fragmentacion.c` | `flag_fragmentacion*`, `neighbor_to_root` | `detector_de_fragmentacion`, `fragmentacion`, `process_far/fan`, `check_if_i_am_only` |
| secondary addresses | `secondary.c` | `sec_addr`, `sec_mask`, `flag_addr_avai`, `n_s_l_table` | `chk_sec_addr1`, `send_sap1/san1`, `process_sap1/san1`, `check_n_s_l_table` |
| rendezvous, names | `rendezvous.c` | `rv_table`, `rv_servers`, pending DNS queries | `register_rv`, `rv_table_add/delete`, `solve_name`, `answer_rv_query`, `answer_dns_query` |
| routing | `pkt_handle.c` | `rt_info` entries with a visited bitmap and two timers each | `route`, `rv_route`, `send_to_next_neighbor`, `return_from`, `cb` |
| kernel routes | `rt_table.c`, `funciones.c` | one heap-allocated timer per route | `add_rt_route`, `del_rt_route(2)`, `del_and_addnew`, `shift` |
| input and output | `ping6.c`, `if_addr.c`, `if_info.c`, `utils.c`, `routing.c`, `lnx/kantop.c` | none that matters | |
| libraries | `libnfnetlink.c`, `libnetfilter_queue.c`, `nlmsg.c`, `attr.c`, `callback.c`, `socket.c` | vendored | |

**How they interact.** Timers and packets call handlers from the main loop; handlers share the state above as global
variables. `send_hb` calls the detectors of isolation and of the secondary addresses, `process_hb` those of merging and
fragmentation. `check_neighbors` hands the space of a successor that went away to `send_pap`, which offers it
again. `delete_neighbor` also removes the rendezvous entries of the neighbour. Fragmentation and merging give a node a
new primary address outside `get_prim_addr`.

**What makes each part correct.**

* Address assignment: within a network an address has one administrator at any time, however messages are lost and
  nodes come and go; a recovered space is recovered and given once. (Two nodes with one address are not noticed by
  anything in the program.)
* Heartbeats: a neighbour that stays is known, one that goes is given up within bounded time, and none is given up
  that was heard in time.
* Timer queue: a timer that is armed goes off once, not early, and not later than what the blocking handlers and callbacks explain;
  the list stays a list.
* Merging, fragmentation: the flags that suspend everything else are cleared again; moved nodes keep their spaces disjoint.
* Secondary addresses: `sec_addr` lies in nobody else's space, its space comes back when the link breaks, and both ends
  know which links are secondary ones.
* Rendezvous: an answer is an address of the owner of the name, a query is answered once, and registrations catch up
  with every change of addresses.
* Routing: every route that is added goes again, and no packet is left to a route that was never completed.

The hazards this leads to are listed, with lines and the properties that cover them, under `hazards` in `PROJECT.json`.

## 2. Modules

| module | models | composed with |
|---|---|---|
| `Hypercube` | addresses as sets of one bits; `dist`, the flip of `send_pap`, `check_addr_space`, `check_succesor` | |
| `AddressSpace` | **abstract**: what the assignment promises | |
| `HcbAddress` | `hcb_address.c`, with the neighbour table and recovery of `heart_beat.c` | EXTENDS `Hypercube`, implements `AddressSpace` |
| `HeartBeat` | the times of `heart_beat.c` against the clock | discharges an assumption of `HcbAddress` (below) |
| `Alarms` | **abstract**: what a timer queue promises | |
| `TimerQueue` | `timer_queue.c` and the main loop | implements `Alarms`; its `LateBound` is the `MaxDelay` of `HeartBeat` |
| `Secondary` | `secondary.c` with the parts of `heart_beat.c` that call it | EXTENDS `Hypercube` |
| `Members` | what merging and fragmentation share: the state of a node, the shifts of `funciones.c`, packets | EXTENDS `Hypercube` |
| `Fragmentation`, `Merge` | `fragmentacion.c`, `mezcla.c` | EXTEND `Members` |
| `Reconfiguration` | both together: what heartbeats start, the dispatch, loss | **composes** `Fragmentation` and `Merge` |
| `Rendezvous` | `rendezvous.c`; the other parts appear as the steps in which they call it | |
| `Routing` | `pkt_handle.c` and `rt_table.c` of one node | EXTENDS `Hypercube` |
| `Lists` | the members of a list that a set names | used by `Routing` |
| `ListLemmas` | what the proofs need of sequences and of loops written as functions | |
| `AddressSpaceProofs`, `HcbAddressProofs`, `HeartBeatProofs`, `TimerQueueProofs`, `SecondaryProofs`, `RendezvousProofs`, `RoutingProofs` | theorems about the module of that name | each EXTENDS its module and `ListLemmas`, where it has lists |
| `MC*` | instances for TLC | |

### Hypercube
A host address is a set of bits, bit 0 the most significant (the first that is flipped). The word-wise C functions are
set operations; the word length is kept only in `CheckSuccesor`, where it matters: the second differing word is compared
through a mask that is already zero, an endless loop (`"hangs"`).

### HcbAddress
One variable per global variable of the C program, indexed by node; `msgs` is the set of datagrams in flight, which
makes loss and reordering free and duplicates absent (UDP over one hop). `pc` says where a node is: off, waiting for PAPs, waiting
for the PANC, up, or hung in `check_succesor`. Actions:

| action | code |
|---|---|
| `Boot` | `main`, `prim_addr_init`, first PAR of `get_prim_addr` |
| `SendPan`, `Found`, `PancTimeout` | the ends of the two waits of `get_prim_addr` |
| `ReceivePar`, `ReceivePan` | `antop_process_pkt` with `send_pap`, `send_panc`; *also in nodes that are still joining* |
| `ReceiveOffer`, `ReceiveOtherPap`, `ReceivePanc`, `ReceiveOtherPanc`, `ReceiveOtherPan` | `receive_pap` and the wait for the PANC |
| `HearHb` | `process_hb` with `detector_de_mezcla`, `add_neighbor` |
| `CheckNeighbors` | the round that gives a neighbour up, with `check_succesor`, `recover_addr_space`, `delete_neighbor` |
| `ResetAlone` | `check_if_i_am_only`, called by `send_hb` |
| `Lose`, `Crash` | the network, the end of a process |

Every packet goes through `antop_socket_read`, which processes it before `get_prim_addr` sees it; `NotAwaited` is what
is left of that packet for `get_prim_addr`. In particular `receive_pap` copies the field `red_numero` of whatever
packet it is, and the wait for the PANC is given up for any other packet. Undefined behaviour is a choice: the missing
`return` of `detector_de_mezcla` (`mezcla.c:218`), the uninitialised mask of the first heartbeat
(`StackMasks`, `hcb_address.c:584`), uninitialised fields of PARs and PANCs (`Red`). The buffer of
`antop_socket_read` is used after its frame is gone; it lies 64 KB below the frames that are pushed over it and survives.

The environment is *assumed* to be this, and each assumption is a constant or a named guard:

* `Prompt`: an answer that is not lost arrives before the wait for it ends (run `late` drops this).
* `MaxJoining`: one node joins at a time (run `concurrent` allows two).
* `MaxRcvdPap`: the vector of PAPs does not fill up when every other node answers; the code has ten places.
* `OneNetwork`: with three nodes, nobody founds a network beside another one. Otherwise a joiner that heard a foreign heartbeat
  takes it for a neighbour of the network it then founds, and later "recovers" a space it never gave. What two
  networks then do is the subject of `Reconfiguration`; run `pair` has two networks.
* `Leaf`: only nodes that gave nothing away crash. If an inner node goes, its successors are a fragment, and fragmentation is not part of this module.
* `Near`: an entry of a node that runs and is in reach is not given up; this is `OnlyTheDownGo` of `HeartBeat`.
* The false heartbeat of `ReceivePanc` is not delivered to nodes that are joining (it may be lost).

`Prompt`, `MaxJoining` and the room in the vector weigh: without any one of them the code assigns addresses twice (section 4).
With them, two premises about the states are left that the proofs use by name: what `check_neighbors` takes back is free
(`RecoverableIsFree`), and who founds a network does it under a number that nobody uses (`NewNetworkIsNew`).

### AddressSpace
Nodes hold sets of addresses: take a free set, give part away, recover what is free, stop. `HcbAddress` maps to it
with `held` = the space `prim_addr/prim_mask` and the spaces in `rcvd_addr`; so `Give` at the proposer
(`prim_mask++`) comes before `Take` at the joiner, and a lost PANC leaks space but never doubles it.

### HeartBeat
One node and its peers at distance 1, a clock of seconds, timers up to `MaxDelay` late, up to `MaxLost`
heartbeats lost in a row. `neigh_table` and `count` are the code's; `silence`, `lost`, `missed`, `heard` and `down` are
history for the properties. A deleted entry is forgotten in `silence` and `missed`.

### TimerQueue
The pointers `TQ`, `next`, `expired` and the flag `used`, with insertion and the walk over the expired list as in C.
Times are relative (`left`), so that the state space is finite without a bound on time. `Tick` lets time pass in `select`
and in a handler or a callback that blocks, for at most `MaxBlock` each. When packets come, `main` calls the callback of every
socket that is ready, up to `Callbacks` (`CALLBACK_FUNCS`), before it looks at the timers again: `Packets`, then `Return` after each; `ready` counts
them, and each may arm timers on its way (`ArmByPacket`; a new entry of the routing table arms two). A handler arms its own timer again (`send_hb`, `check_neighbors`,
`register_rv`), or not (`register_rv` while networks merge, the one-shot timers of routes, of entries of the routing
table, and of the wait for a SAN). The timers that callbacks arm stand for those. No handler arms another timer that is
due at the same time, so this is not in the model: it would break the walk.

### Secondary
A node that hears a stranger of its network (distance more than one) proposes an address of its own space that is at
distance one of it (SAP), and takes that address itself when the other one agrees (SAN). `node[n]` has the globals of
`secondary.c`; `status` tells members from nodes that reset themselves and from those that `add_neighbor` killed by reading
an empty `neigh_table` or that hang in `check_succesor`.

| action | code |
|---|---|
| `SendHb`, `SendHbAlone` | `send_hb`: `check_if_i_am_only`, `check_neigh_of_secondary_address`, `check_n_s_l_table`, then one or two heartbeats, of which one is heard at once (`ProcessHb`: `process_hb`, `chk_sec_addr1`, `send_sap1`) or none |
| `SanTimeout` | `san_t_handler` |
| `ProcessSap`, `ProcessSan` | `process_sap1`, `process_san1`, whether the SAN is awaited or not |
| `Expire` | `check_neighbors` gives an address up that nobody in range has, or whose heartbeats `process_hb` no longer takes for those of a neighbour (`Refreshes`), and recovers its space when `check_succesor` takes it for that of a successor; where that compares two words that differ, the node hangs |
| `Join` | `send_panc` gives a space away, all of it in one step (`HcbAddress` has the protocol) |
| `Move`, `Lose` | the environment |

Nobody merges or fragments in this module. `given` and `faulty` are history: `faulty` are the nodes that gave a space to a joiner which they
had proposed in a SAP, or took one back because `check_succesor` was wrong (`Mistaken`).  `CheckNslTable` is the identity because
the condition of `secondary.c:412` is an assignment of 0. `StartsApart` says of the starts what `HcbAddress` is responsible for: they are
disjoint, and a recovered space next to a node is one that the node gave. `RecoverableIsFree` says that `check_neighbors` takes nothing back that is in use,
where `check_succesor` does what its comment says (`IsSuccesor`) and for nodes that are not faulty; where it does not, the space of another node may be
taken back, and is (section 4).

### Members, Fragmentation, Merge, Reconfiguration
`node[n]` is a record of the globals that a change of address touches (`State` in `Members` names them). A handler runs to its end,
its `sleep(2)` included, before the next packet is read, so a handler is one step. `shift` and `shift_mezcla` are
set operations; masks are `unsigned char` (`Byte`). `for` in a packet and `bereft` are history: `bereft` are the nodes whose request, or
the answer to it, was lost or came to somebody else.

| action | code |
|---|---|
| `SendHb` | `send_hb` with `check_if_i_am_only` |
| `ProcessHb` | `process_hb`: `Neighbor` (with `detector_de_fragmentacion`, `fragmentacion`), `OtherNetwork` (`detector_de_mezcla`, `mezcla`), `NotNeighbor` |
| `ProcessFar`, `ProcessFan` | the functions of those names; the first FAN ends the wait |
| `ProcessMar1`, `ProcessMar2`, `ProcessMan1`, `ProcessMan2` | the functions of those names, with the conditions of the dispatch |
| `GiveUpMerge`, `IgnoreMar1`, `IgnoreOther` | the other branches of the dispatch (`antop_socket.c:373-411`) |
| `Lose` | the environment |

The nodes have no secondary addresses here, `ping6` may succeed or fail, and the trees are such that every link in
range is one of the tree (a row); with links beside the tree a FAR reaches nodes that are no successors.

### Rendezvous
Names hash to servers (`Hash`), a packet for a server comes to the node whose space it lies in (`rv_route`). `prim_addr` and `serves`
are what the address assignment says; they change in the steps that stand for the callers of this part: `Reassign` (`send_panc`), `Reconfigure` and
`Reconfigured` (fragmentation, merge), `StartMerge` and `EndMerge` (`mezcla`, `process_man1`), `DeleteNeighbor`, `Stop`, `Boot`.
`TimerRv` is `register_rv` as the handler of `rv_t`; `ProcessReg`, `AnswerRvQuery`, `AskDns`, `ProcessSolve` are `rv_table_add`, `answer_rv_query`,
`answer_dns_query` of a query and of an answer. The call of `register_rv` that sends the secondary address lacks three arguments, so
it may send nothing. Which of two servers is asked depends on an uninitialised mask: a choice. `net` is a set; packets are late,
overtaken and lost. `replies` and `had` are history.

### Routing
The state of one node between its neighbours: `kernel` is the table of the kernel (external: sorted by destination and priority,
a route is taken when its gateway is on the link), `route_t` the list that `rt_table_dump` writes over, `rt_info`, the timers, `nat_table`. A handler
is one step; its helpers are operators on the record of those variables, in the order of the calls.

| action | code |
|---|---|
| `PreRouting`, `Forward`, `LocalOut`, `LocalIn` | the hooks of `print_pkt`, with `route` (`RouteTo`), `rv_route`, `send_to_next_neighbor`, `return_from`, `add_rt_route`, `del_rt_route`, `add_rt_info` |
| `Expire` | `del_rt_route2` with `del_rt_info` |
| `NeighborComes`, `NeighborGoes`, `Tick` | `add_neighbor`, `delete_neighbor`, the clock |

Three things are read that nobody has written, and are choices: `metric` (is there a loop?), the gateways that `del_rt_info` compares, and `gw` of an echo request
that comes when `neigh_table` is empty (`ReplyGateway`: an address that was once a neighbour's, as the last call left it, or none on the link; never `2001:db8::`, which
no variable of `print_pkt` holds). The bitmap of visited neighbours
is not kept: it is filled during one call and never read afterwards, because `add_rt_info` compares destinations with a pointer and always appends.

## 3. Runs

| run | instance | shows |
|---|---|---|
| `join` | 3 nodes in reach of each other, 2 bits, 1 crash, one network | types; nobody administers what a PANC in flight confirms, or what a successor that went away leaves; refinement of `AddressSpace` |
| `pair` | 2 nodes, 3 bits in words of 2, 2 crashes, two networks, vector of 2 PAPs | the same beside repeated recovery; a space is recovered once; a network that is founded has a new number |
| `concurrent` | as `join`, two joiners, no crash | **violation**: one address twice |
| `late` | as `join`, late answers, no crash | **violation**: one address twice |
| `flag` | as `pair`, no crash | **violation**: `flag_conexion` of a node that is connected |
| `heartbeat` | 1 peer, the times of `labels.h` in seconds (5, 8, 1), 2 s late, 1 lost | counts, bounds and liveness of the neighbour table |
| `timers` | 4 timers: heartbeats, rounds, registration, a route; `MaxBlock` 1, up to 2 callbacks in a pass | list soundness, bounds, liveness, refinement of `Alarms` |
| `routing` | 3 bits, two possible neighbours (one over a secondary address), two far nodes, 4 packets, 2 changes of the neighbours | every route has a timer and goes; incomplete routes only to neighbours |
| `rendezvous` | two nodes, one server, one secondary address, 2 queries, 1 change of any kind | true and single answers, no fatal answer before a change, registration in the end |
| `reconfiguration` | four nodes in a row, 6 bits, three starts: the root is gone, a single node above meets a network by its root, or by a leaf; 3 heartbeats | disjoint spaces when all answers came; flags stay only where a packet was lost |
| `secondary` | children of the root, 5 bits in words of 3, one move, one join; x has all of its space and hears y and z (hidden from each other), or w, whose bit is in the other word; or it hears y and z and a successor of it is gone, its space not yet recovered | no space twice and nothing recovered that is in use, but for the two exceptions of section 4; both ends know the link; broken links go |
| `alone` | as `secondary` | **violation**: a node that starts anew has no address to give |

*Why the bounds are enough.* Two bits and three nodes let the root give two halves, one of them be split again, a leaf
crash and its space be offered to the next joiner; three bits in words of two let `check_succesor` cross a word. The
vector of PAPs has room for all answers, and one more. Peers do not interact in `HeartBeat`, so one is
enough. Four timers are all the kinds there are: first, middle and last of the list, equal deadlines, re-armed and one-shot. Two callbacks in one
pass is what makes a pass longer than one callback: 8 of the 9 msec of `MaxLate` are reached. Nodes
are symmetric in `join`, `concurrent` and `late` (one link each, one network number); these runs check no liveness.
Deadlock is not checked in the address runs: everybody may be up, with no crash left. The same holds for `rendezvous` and
`reconfiguration`, where all nodes may wait or be dead. In `routing` four packets let a route be made, returned, made again and
used by the answer, with a timer of each between; the list `route_t` is longer than the table in most states. In `rendezvous` one
change is enough to set every node against stale packets; boots after it are free. Four nodes in a row have a node with a parent
and a successor on both sides of the one that moves, a merge that moves a tree down and one that turns it; three heartbeats are enough for a fragmentation and a
merge beside it. In `secondary` a node has two strangers to propose to, so a second SAN comes over a first secondary address. With addresses in two words
`check_succesor` is mistaken about w, and hangs: both happen in the run.

*Fairness.* `HcbAddress` has none, for it has only safety properties. `HeartBeat`: the clock ticks, and timers that are
due are served (weak fairness), because the main loop returns to `timer_age_queue` after every pass over the callbacks;
nothing forces a heartbeat to arrive, but `MaxLost` bounds the losses. `TimerQueue`: weak fairness of the loop's steps, strong
fairness of the clock, since packets that keep coming do not stop time. `Routing`: the clock and the timers of routes. `Rendezvous`: `rv_t` is served, and of
the registrations that a node sends to a server for ever some arrive (strong fairness: the radio loses packets, not all of them). `Reconfiguration`: a packet arrives or is
lost in the end; nothing forces a heartbeat. `Secondary`: a node sends heartbeats
(`Notices` when the checks before it change something), and `check_neighbors`, which walks the whole table, comes to the entry of the secondary link (`LosesLink`); no SAP or SAN need ever arrive.

Every property was seen to fail under a wrong variant of the code (the operators marked "Wrong variant" in the modules;
`mutants` in `PROJECT.json`).

## 4. What the violations show

* **Concurrent joins** (`hcb_address.c:178`, `:249`). An offer reserves nothing and a PAN is not compared with what is
  still free: both joiners choose the half that was offered to both. Moreover a joiner answers the PAR of the
  other with the root address it starts from. `hcb_address.c:571` prints that the address can be used now.
* **Late PANC** (`hcb_address.c:570`). The PANC names the proposer only. Its handlers sleep for two seconds at a time, so answers later than
  T_PANC are real; the joiner takes a late one for the answer to its next PAN.
* **flag_conexion** (`hcb_address.c:482`). Set by the first offer, cleared only by an awaited PANC. After a failed connection the node founds a network
  and never merges it with another (`mezcla.c:202`).
* **Starting anew** (`fragmentacion.c:430`). `check_if_i_am_only` clears the secondary address and its mask but not its flag. The check of the
  secondary link that follows in the same `send_hb` takes the mask 0 of both addresses for that of a half that comes back, and
  lowers `prim_mask` to 255. The node then has the root address and nothing to offer.

Five more disagreements stand in the properties as conditions, with notes under `hazards`; TLC finds a behaviour when the condition is dropped, or the bound changed:
a space that was proposed by a SAP and given to a node that joins before the SAN (`faulty` in `SecondaryIsMine`); names of which one begins with
another (`PrefixOf`, `rendezvous.c:645`); and a node that started a merge, whose registration timer is not armed again (`Starter`, `rendezvous.c:353`);
a successor that is none (`heart_beat.c:358`, below);
and a vector of PAPs that fills up (`hcb_address.c:502`). Any packet ends the wait for a PANC. The next round lasts T_PAP, in which that PANC comes or is lost, unless there are
`MAX_RCVD_PAP` answers: then `get_prim_addr` goes on at once, and the PANC of the first round confirms an offer of the second. So a node with ten neighbours can get an
address that somebody has, with no answer late and nobody else joining. (`MaxRcvdPap = 1` in the instance of `pair`; `NeverFull` is the lemma that rules it out.)
`check_succesor` compares the rest of the word that differs, not the words after it. A neighbour by a secondary address, which differs from the own address in
one bit of an earlier word, passes for a successor, and when that address changes its whole space is taken back from the node that still has it. In `secondary`
this happens between x and w, whose addresses differ in both words; `RecoverableIsFree` has the condition that the address is that of a successor (`IsSuccesor`, the comment
at `heart_beat.c:319`), and TLC finds it violated without.

## 5. Proofs

TLAPS checks the following for all values of the constants (TLC shows the properties on the instances above first).

* `AddressSpaceProofs`: `Disjoint` and `Unique` for every implementation. `IInv` = types, own address held, disjointness; it is
  inductive. So what `ImplementsAddressSpace` shows by TLC includes that addresses are unique.
* `HcbAddressProofs`, types: `Spec => []TypeInvariant`. Not inductive alone: a node takes the address of a PAP, and a PAP with mask 0
  carries none. `IInv` adds that every PAP with a mask has an address, in flight, in the vector and chosen.
* `HcbAddressProofs`, arithmetic: a space is the disjoint union of what `send_pap` offers and what `send_panc` leaves (`SpaceSplit`); a
  full mask names one address; longer masks name smaller spaces; `check_succesor` recognises what was given by a flip
  exactly when a zero was flipped and only zeros follow in the word (`GivenIsSuccesor`), and takes the giver for a successor exactly when a one was, as happens to the last bit
  of the root (`GiverIsSuccesor`, `hcb_address.c:183`). So nodes with that bit, as all have that have space of their own to give, never recover a half in the last word (`LastWordIsLost`).
* `HcbAddressProofs`, one by one: under `OneByOne` (`Prompt`, one joiner at a time, a vector that does not fill up) and as long as `RecoverableIsFree` and `NewNetworkIsNew`
  hold, `HcbAddress` implements `AddressSpace`, addresses are unique, `ConfirmedIsFree` and `RecoveredOnce` hold
  (`SpecImplementsAddressSpace`, `SpecUniqueAddress`, ...), with crashes, losses and recovered spaces. The difficulty is that a PAP reserves
  nothing: why is its space still there when the PAN comes? The inductive invariant is `AInv`, three groups of conjuncts. `IInv`: the types.
  `Control`: what can be in flight in each phase of the joiner. Packets belong to the one node that joins; every node is asked
  once per round, so the vector never fills; while the node waits for the PANC there is one PAN *or* one PANC of the proposer; and what the
  proposer would give away for the chosen PAP is still what the PAP offers (`ChosenStands`). `Spaces`: the spaces of a network are disjoint
  (`HeldApart`), also within one node (`OwnSpaces`), everything offered that can still be confirmed lies in the space of its
  proposer (`GoodOffers`), and what a PANC confirms lies in none (`ConfirmedIsFree`). Each action has a lemma for each group, and one that says
  which step of `AddressSpace` it is.
* `HcbAddressProofs`, undisturbed: that premise is itself proved for networks in which nobody stops, links work both ways and there is
  one network (`Undisturbed`), for any number of nodes that the vector has room for, any topology and dimension. So there
  `UndisturbedImplements` has no premise about states. It takes more than that nobody stops: `get_prim_addr` sends a heartbeat with the root
  address before the node has one of its own, and it is sent again when an attempt failed. The invariant `Calm` says that every address but the root's was
  given over a link, by the node it differs from in one bit (`Tree`), so that the only ones to take the root for a neighbour are those it gave
  their address. Hence an entry is always the address of a node that is up and on a link (`Entries`), no neighbour is given up, nothing is recovered, and nobody hangs in `check_succesor` (`UndisturbedNothingRecovered`).
* `HeartBeatProofs`: all safety properties of the module. `IInv` relates `count` to the missed rounds; `Ages` bounds the silence of an
  entry from above by rounds (`SilentAtMost`) and by lost heartbeats (`SilentWhenLost`), from below by missed rounds
  (`SilentAtLeast`). The last two collide at a deletion when `(MaxLost+1)(T_HB+MaxDelay) < (N_INACT+1) T_LHB`, the
  hypothesis of `SpecOnlyTheDownGo`; with the values of `labels.h` it allows one lost heartbeat and 2 seconds.
* `TimerQueueProofs`: all safety properties of the module, and that the linked lists implement `Alarms`. `SoundLists` speaks of walks along
  pointers and is not inductive in that form; the invariant says instead that *there are* two rows of different timers, `q` and `e`, along which the
  pointers run from `TQ` and from `expired` (`Chain`), disjoint and together all timers that are marked, and that `q` is sorted. There are
  lemmas for what the C code does to a chain: a walk visits its row (`ChainNodes`), insertion before the first timer that is due later
  (`InsertFacts`), removal of the first node and of one in the middle (`ChainHead`, `ChainMiddle`), cutting in two (`CutFacts`). For
  `LateBound`, `Timely` says at each place of the loop how far `left` can be from what the loop has seen; the budget
  `age + block + k * MaxBlock <= N * MaxBlock`, with `k` timers still to be served, is what makes it inductive. That each
  handler is called at most once per round is why the bound is linear in the number of timers; `Rest(ready)`, what the callbacks still to
  be called can block for, does the same for the pass between two looks at the queue. `MaxLate` is `(2 * N + Callbacks - 1) * MaxBlock`.
* `RoutingProofs`: type correctness, `RouteHasTimer`, `IncompleteOnlyToPeers`. The conjunction of the three is inductive: a handler relies
  on the types of the copy that an earlier dump left behind, and a route without gateway is completed by the call that adds it because every other one
  is one to a neighbour. A handler is a composition of functions on the state, so each gets a lemma that it keeps the predicate
  `Good`. The loops over the copied table are recursive functions: that one exists is `LoopExists`, and what it keeps is `LoopInvariant`.
  `MadeForNode` is the argument that a packet to this node is never taken for one that loops.
* `RendezvousProofs`: type correctness, `RepliedOnce`, `SolvedIsOwners` and `AnswersFindQueries`. `SolvedIsOwners` needs that no name begins with another; without
  that hypothesis `SolvedByAPrefix` says what is left: the address is that of the owner of *some* name that the queried one
  begins with. Its invariant follows an address wherever it stands beside a name
  (packet, table, answer): a node of that name has had it. For `RepliedOnce`, a query waits in one place of one queue until it is answered.
  `AnswersFindQueries` needs that the addresses of the nodes differ; until the addresses change, a node has no fewer queries for a name in its queue
  than there are packets under way that an answer to it can come of.
* `SecondaryProofs`, links: type correctness and `LinkIsKnown`. The invariant follows the link from both ends: the address in a SAN in flight is in the
  `n_s_l_table` of its sender, the secondary address of a node is in that of the node at the other end, and a member has the primary
  address it started with.
* `SecondaryProofs`, spaces: `Spec /\ []RecoverableIsFree => []SecondaryIsMine` for starts with `StartsApart`. `Realms` is inductive beside `LInv`. The realm of a
  node are the addresses in its own space, its secondary one, its recovered ones, those it gave away and those it proposed in a packet under way. `AllTidy`:
  what a node proposes, takes as a secondary address or recovers next to itself is one of the halves of its space (`IsHalf`), two of which are the same or apart;
  the parts of its realm are apart, but a proposal may be of a space that it can still give. `RealmsApart`: two realms are disjoint. `NotForeign`: no member has its
  address in the realm of another, so a SAN reaches only the node that proposed. `Join` keeps it because a node that gives away what it proposed is in `faulty`. Only `Expire` adds
  to a realm: where `check_succesor` is right, `RecoverableIsFree` says that it adds what is in no other, and a half; where it is mistaken, the node is in `faulty` from then on.
* `ListLemmas`: least elements of sets of numbers, the sequence operators of the modules (`RemoveAt`, `SubSeq`, concatenation), the two
  lemmas about loops, and what `Those` of a list has (`ThoseFacts`).

Assumptions are those of the modules (`DimAssumption`, `TimesAssumption`, `TimerAssumption`, `RoutingAssumption`, ...): types of the constants, that they are
not zero, that there are finitely many timers and one at least that is armed before the loop, and that the values which stand for no address are none.

Each of the inductive invariants, or its conjuncts, held in a run of TLC on the instances above before it was proved.

Only model-checked:

* `RecoverableIsFree` and `NewNetworkIsNew` where nodes crash: the premises of the theorems about `HcbAddress`. Both hold in `join` and `pair`; with more nodes
  in range and more crashes they need not, because an entry keeps the mask of the first heartbeat that made it.
* `RecoverableIsFree` of `Secondary`, the premise of `SecondaryIsMine`: it depends on what the nodes that are not in the model do. It
  holds in `secondary`, where a successor of x is gone and its space comes back while addresses are proposed.
* `Reconfiguration`: types and disjoint spaces; the second holds for trees that are rows.
* all liveness: it is outside the prover's reach, as are ENABLED, and induction over what a recursive definition computes for every input.

## 6. Not modelled, and why

* Secondary addresses in a merge or a fragmentation (`sec_addr_flag`, `flag_neigh_by_second` in `mezcla.c` and `fragmentacion.c`): the
  handlers move the secondary address the way they move the primary one, with flags of their own. `Secondary` and
  `Reconfiguration` each have a state space that leaves no room for the other.
* `borrar_tabla_de_rutas` (`funciones.c:406`), which empties the route table when a network changes: `Routing` has a fixed address.
* The exact-second deadline of `check_timer` (`hcb_address.c:107`): waits end at any time in `HcbAddress`.
* The values of the hash (`hash_2_hc`), the text of DNS and netlink messages, checksums, header options: data that no property tells apart.
* `send_san`, `send_sap`, `process_san`, `process_sap`, `chk_sec_addr` of `hcb_address.c`, `answer_dns_query_a`, `hash_2_hc_X`, `timer_timeout_now`,
  `timer_left`: called by nobody.
* `ping6.c` (a blocking echo request), `if_addr.c`, `if_info.c`, `utils.c`, `routing.c` (ioctl calls and conversions), `lnx/kantop.c` (two hooks without
  state), opening sockets, the command line: input and output.
* `libnfnetlink.c`, `libnetfilter_queue.c`, `nlmsg.c`, `attr.c`, `callback.c`, `socket.c` and `libmnl.h`: bundled third-party code, a third of the lines of the repository.

Worth proving next: the type invariant of `Reconfiguration`; that `Merge` and `Fragmentation` move a subtree of disjoint spaces to disjoint spaces;
`RecoverableIsFree` with leaves that crash, from a bound on how old an entry can be (`StaleEntryBound` of `HeartBeat`).
