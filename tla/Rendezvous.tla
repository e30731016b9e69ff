----------------------------- MODULE Rendezvous -----------------------------
(***************************************************************************)
(* Rendezvous servers (rendezvous.c): the nodes register their names with  *)
(* the nodes that administer the addresses their names hash to, and ask    *)
(* there for the addresses of other names.                                 *)
(*                                                                         *)
(* Which node administers which address, and which address a node has, are *)
(* the business of the address assignment, of the merge and of the         *)
(* fragmentation: here they change at will, in the steps in which those    *)
(* parts call into this one.  A packet may take any time on its way, be    *)
(* overtaken, or be lost.  The cache of solve_name is never filled.  The   *)
(* names that are copied into memory of malloc are taken as terminated.    *)
(***************************************************************************)
EXTENDS Naturals, Sequences, SequencesExt, TLC

CONSTANTS
  Node,
  Name,        \* the universal addresses
  UnivAddr,    \* UnivAddr[n]: the name of n
  PrefixOf,    \* PrefixOf[x]: the names that x begins with, x among them
  Address,     \* the addresses of nodes
  SecAddr,     \* SecAddr[n]: {}, or the set of the secondary address of n
  Server,      \* the addresses that names hash to
  Hash,        \* Hash[x]: the NSERVER_RV servers of x
  Addr0,       \* Addr0[n]: the first address of n
  Serves0,     \* Serves0[n]: the servers in its first space
  Ask,         \* the pairs of a node and a name that it is asked for
  Starter,     \* the nodes that find another network and start a merge
  Default,     \* dir_default, 2001:db8::a
  Unsolved,    \* the address in an answer without MASK_SOLVED
  MaxQueries,  \* bound: how many names are asked for
  MaxChanges   \* bound: how often addresses change

ASSUME RendezvousAssumption ==
  /\ UnivAddr \in [Node -> Name]
  /\ PrefixOf \in [Name -> SUBSET Name] /\ \A x \in Name : x \in PrefixOf[x]
  /\ SecAddr \in [Node -> SUBSET Address]
  /\ Hash \in [Name -> SUBSET Server]
  /\ Addr0 \in [Node -> Address] /\ Serves0 \in [Node -> SUBSET Server]
  /\ Starter \subseteq Node /\ Ask \subseteq Node \X Name
  /\ Default \notin Address /\ Unsolved \notin Address
  /\ MaxQueries \in Nat /\ MaxChanges \in Nat

VARIABLES
  up,         \* the nodes that run
  prim_addr,  \* prim_addr[n]
  serves,     \* serves[n]: the servers in the space of n
  flag,       \* the nodes with flag_mezcla or flag_fragmentacion
  merging,    \* the nodes that started a merge: prim_addr[n] is their prim_addr_aux
  rv_t,       \* the nodes whose timer rv_t is in the queue
  rv_table,   \* rv_table[n]: the names registered with n
  dns,        \* dns[n]: the queries that wait for an answer
  net,        \* the packets on their way
  replies,    \* history: the answers to queries
  had,        \* history: had[x] are the addresses that the node of x had
  queries,    \* how many queries there were
  changes     \* how many changes of addresses

node == <<up, prim_addr, serves, flag, merging>>
code == <<rv_t, rv_table, dns>>
vars == <<node, code, net, replies, had, queries, changes>>

Entry == [name : Name, addr : Address]
Query == [name : Name, id : 1 .. MaxQueries]

\* `id' is not in a packet: it tells apart the packets of different queries.
Reg(x, a, s)    == [type |-> "RV_REG", name |-> x, addr |-> a, to |-> s]
Lookup(q, a, s) == [type |-> "RV_ADDR_LOOKUP", name |-> q.name, addr |-> a, to |-> s, id |-> q.id]
Solve(m, a) ==
  [type |-> "RV_ADDR_SOLVE", name |-> m.name, addr |-> a, to |-> m.addr, id |-> m.id]

Message ==
  [type : {"RV_REG"}, name : Name, addr : Address, to : Server]
    \cup [type : {"RV_ADDR_LOOKUP"}, name : Name, addr : Address \cup {Default}, to : Server,
          id : 1 .. MaxQueries]
    \cup [type : {"RV_ADDR_SOLVE"}, name : Name, addr : Address \cup {Unsolved},
          to : Address \cup {Default}, id : 1 .. MaxQueries]

\* prim_addr as the program has it: the default address during its own merge.
Own(n) == IF n \in merging THEN Default ELSE prim_addr[n]

\* All nodes have joined, and timer_rv_init has armed their timers.
Init ==
  /\ up = Node
  /\ prim_addr = Addr0
  /\ serves = Serves0
  /\ flag = {}
  /\ merging = {}
  /\ rv_t = Node
  /\ rv_table = [n \in Node |-> <<>>]
  /\ dns = [n \in Node |-> <<>>]
  /\ net = {}
  /\ replies = {}
  /\ had = [x \in Name |->
              UNION {{Addr0[n]} \cup SecAddr[n] : n \in {k \in Node : UnivAddr[k] = x}}]
  /\ queries = 0
  /\ changes = 0

-----------------------------------------------------------------------------
\* hash_2_hc and distribute_in_hc: the addresses that a name is spread to.
ServersOf(x) == Hash[x]

\* The packets that register_rv sends.  The call that sends the secondary
\* address lacks three arguments, and may send nothing.
Registrations(n, a, secs) ==
  {Reg(UnivAddr[n], b, s) : b \in {a} \cup secs, s \in ServersOf(UnivAddr[n])}

\* register_rv, called where both flags are clear.
RegisterRv(n) ==
  /\ \E secs \in SUBSET SecAddr[n] : net' = net \cup Registrations(n, Own(n), secs)
  /\ rv_t' = rv_t \cup {n}

\* Wrong variant: the flags are not looked at.
TimerRvAnyFlag(n) ==
  /\ n \in up /\ n \in rv_t
  /\ RegisterRv(n)
  /\ UNCHANGED <<node, rv_table, dns, replies, had, queries, changes>>

\* register_rv, the handler of rv_t: while a flag is set it does nothing, and
\* the timer stays out of the queue.
TimerRv(n) ==
  /\ n \in up /\ n \in rv_t
  /\ \/ /\ n \in flag
        /\ rv_t' = rv_t \ {n}
        /\ UNCHANGED net
     \/ /\ n \notin flag
        /\ RegisterRv(n)
  /\ UNCHANGED <<node, rv_table, dns, replies, had, queries, changes>>

\* Wrong variant: a name that is registered keeps its address.
RvTableAddOld(t, e) ==
  IF \E i \in DOMAIN t : t[i].name = e.name THEN t ELSE Append(t, e)

\* rv_table_add: a name that is registered gets the new address.
RvTableAdd(t, e) ==
  IF \E i \in DOMAIN t : t[i].name = e.name
  THEN [i \in DOMAIN t |-> IF t[i].name = e.name THEN e ELSE t[i]]
  ELSE Append(t, e)

\* rv_table_delete: the first entry with the address.
RvTableDelete(t, a) ==
  LET S == {i \in DOMAIN t : t[i].addr = a}
  IN  IF S = {} THEN t ELSE RemoveAt(t, CHOOSE i \in S : \A j \in S : i <= j)

\* Wrong variant: the names are not compared.
FoundFirst(t, x) == IF t = <<>> THEN Unsolved ELSE Head(t).addr

\* The entry that answer_rv_query takes: the first one whose name the query
\* begins with.
Found(t, x) ==
  LET S == {i \in DOMAIN t : t[i].name \in PrefixOf[x]}
  IN  IF S = {} THEN Unsolved ELSE t[CHOOSE i \in S : \A j \in S : i <= j].addr

\* A RV_REG or a RV_ADDR_LOOKUP comes to the node that serves its destination
\* (rv_route); the packet ends there.
ProcessReg(n, m) ==
  /\ n \in up /\ m \in net /\ m.type = "RV_REG" /\ m.to \in serves[n]
  /\ rv_table' = [rv_table EXCEPT ![n] = RvTableAdd(@, [name |-> m.name, addr |-> m.addr])]
  /\ net' = net \ {m}
  /\ UNCHANGED <<node, rv_t, dns, replies, had, queries, changes>>

AnswerRvQuery(n, m) ==
  /\ n \in up /\ m \in net /\ m.type = "RV_ADDR_LOOKUP" /\ m.to \in serves[n]
  /\ net' = (net \ {m}) \cup {Solve(m, Found(rv_table[n], m.name))}
  /\ UNCHANGED <<node, code, replies, had, queries, changes>>

-----------------------------------------------------------------------------
\* answer_dns_query and solve_name: the query waits, and one of the servers is
\* asked; which one is nearer depends on a mask that is not initialised.
AskDns(n, x) ==
  LET q == [name |-> x, id |-> queries + 1]
  IN  /\ n \in up /\ queries < MaxQueries
      /\ queries' = queries + 1
      /\ dns' = [dns EXCEPT ![n] = Append(@, q)]
      /\ \E s \in ServersOf(x) : net' = net \cup {Lookup(q, Own(n), s)}
      /\ UNCHANGED <<node, rv_t, rv_table, replies, had, changes>>

\* Wrong variant: the query stays in the queue.
DequeuedNone(q, i) == q

\* Wrong variant: all queries for the name are deleted.
DequeuedAll(q, i) == SelectSeq(q, LAMBDA r : r.name # q[i].name)

\* The query is deleted from the queue.
Dequeued(q, i) == RemoveAt(q, i)

\* The queries for the name that an answer m is about.
QueriesFor(q, m) == {i \in DOMAIN q : q[i].name = m.name}

\* The DNS or MDNS response to the query q that is made of an answer m.
Response(q, m) == [id |-> q.id, name |-> m.name, addr |-> m.addr]

\* An answer comes.  One that is solved answers the first query for the name;
\* the program reads through a null pointer where there is none.  One that is
\* not solved changes nothing: the query waits on.
ProcessSolve(n, m) ==
  LET S == QueriesFor(dns[n], m)
      i == CHOOSE j \in S : \A k \in S : j <= k
  IN  /\ n \in up /\ m \in net /\ m.type = "RV_ADDR_SOLVE" /\ m.to = Own(n)
      /\ net' = net \ {m}
      /\ \/ /\ m.addr = Unsolved
            /\ UNCHANGED <<node, dns, replies>>
         \/ /\ m.addr # Unsolved /\ S # {}
            /\ dns' = [dns EXCEPT ![n] = Dequeued(@, i)]
            /\ replies' = replies \cup {Response(dns[n][i], m)}
            /\ UNCHANGED node
         \/ /\ m.addr # Unsolved /\ S = {}
            /\ up' = up \ {n}
            /\ UNCHANGED <<prim_addr, serves, flag, merging, dns, replies>>
      /\ UNCHANGED <<rv_t, rv_table, had, queries, changes>>

Lose(m) ==
  /\ m \in net
  /\ net' = net \ {m}
  /\ UNCHANGED <<node, code, replies, had, queries, changes>>

-----------------------------------------------------------------------------
Change ==
  /\ changes < MaxChanges
  /\ changes' = changes + 1
  /\ UNCHANGED <<replies, queries>>

\* The servers that no other running node serves.
Free(n) == Server \ UNION {serves[m] : m \in up \ {n}}

\* The node takes the address a and the servers S.
Takes(n, a, S) ==
  /\ \A m \in up \ {n} : prim_addr[m] # a
  /\ \A m \in Node : a \notin SecAddr[m]
  /\ S \subseteq Free(n)
  /\ prim_addr' = [prim_addr EXCEPT ![n] = a]
  /\ serves' = [serves EXCEPT ![n] = S]
  /\ had' = [had EXCEPT ![UnivAddr[n]] = @ \cup {a} \cup SecAddr[n]]

Boot(n, a, S) ==
  /\ n \notin up
  /\ Takes(n, a, S)
  /\ up' = up \cup {n}
  /\ flag' = flag \ {n}
  /\ merging' = merging \ {n}
  /\ rv_t' = rv_t \cup {n}
  /\ rv_table' = [rv_table EXCEPT ![n] = <<>>]
  /\ dns' = [dns EXCEPT ![n] = <<>>]
  /\ UNCHANGED <<net, replies, queries, changes>>

Stop(n) ==
  /\ Change /\ n \in up
  /\ up' = up \ {n}
  /\ UNCHANGED <<prim_addr, serves, flag, merging, code, net, had>>

\* A neighbour with address a, which is registered, leaves neigh_table:
\* delete_neighbor.
DeleteNeighbor(n, a) ==
  /\ Change /\ n \in up
  /\ \E e \in Range(rv_table[n]) : e.addr = a
  /\ rv_table' = [rv_table EXCEPT ![n] = RvTableDelete(@, a)]
  /\ UNCHANGED <<node, rv_t, dns, net, had>>

\* A space is given away, or recovered.
Reassign(n, S) ==
  /\ Change /\ n \in up /\ S # serves[n]
  /\ Takes(n, prim_addr[n], S)
  /\ UNCHANGED <<up, flag, merging, code, net>>

\* A fragmentation or a merge comes to n: it sets a flag, clears the tables
\* (clear_rv_tables) and changes its address.
Reconfigure(n, a, S) ==
  /\ Change /\ n \in up /\ n \notin flag
  /\ Takes(n, a, S)
  /\ flag' = flag \cup {n}
  /\ rv_table' = [rv_table EXCEPT ![n] = <<>>]
  /\ dns' = [dns EXCEPT ![n] = <<>>]
  /\ UNCHANGED <<up, merging, rv_t, net>>

\* ... and is over: the flag is cleared and register_rv called.
Reconfigured(n) ==
  /\ n \in up /\ n \in flag \ merging
  /\ flag' = flag \ {n}
  /\ RegisterRv(n)
  /\ UNCHANGED <<up, prim_addr, serves, merging, rv_table, dns, replies, had, queries, changes>>

\* mezcla: the node that starts a merge takes the default address.
StartMerge(n) ==
  /\ Change /\ n \in up \cap Starter /\ n \notin flag
  /\ flag' = flag \cup {n}
  /\ merging' = merging \cup {n}
  /\ UNCHANGED <<up, prim_addr, serves, code, net, had>>

\* process_man1: it takes its own address again and clears the flag.
EndMerge(n) ==
  /\ n \in up \cap merging
  /\ flag' = flag \ {n}
  /\ merging' = merging \ {n}
  /\ UNCHANGED <<up, prim_addr, serves, code, net, replies, had, queries, changes>>

Next ==
  \/ \E n \in Node : TimerRv(n)
  \/ \E n \in Node, m \in net : ProcessReg(n, m)
  \/ \E n \in Node, m \in net : AnswerRvQuery(n, m)
  \/ \E n \in Node, m \in net : ProcessSolve(n, m)
  \/ \E q \in Ask : AskDns(q[1], q[2])
  \/ \E m \in net : Lose(m)
  \/ \E n \in Node, a \in Address, S \in SUBSET Server : Boot(n, a, S)
  \/ \E n \in Node : Stop(n)
  \/ \E n \in Node, a \in Address : DeleteNeighbor(n, a)
  \/ \E n \in Node, S \in SUBSET Server : Reassign(n, S)
  \/ \E n \in Node, a \in Address, S \in SUBSET Server : Reconfigure(n, a, S)
  \/ \E n \in Node : Reconfigured(n)
  \/ \E n \in Node : StartMerge(n)
  \/ \E n \in Node : EndMerge(n)

\* A registration from n to s that comes to its server.
Arrives(n, s) ==
  \E m \in net : m.name = UnivAddr[n] /\ m.to = s /\ \E k \in Node : ProcessReg(k, m)

(***************************************************************************)
(* Timers are served.  Packets are lost, but not all of them: a server     *)
(* that n registers with for ever hears of it for ever.                    *)
(***************************************************************************)
Fairness ==
  /\ \A n \in Node : WF_vars(TimerRv(n))
  /\ \A n \in Node, s \in Server : SF_vars(Arrives(n, s))

Spec == Init /\ [][Next]_vars /\ Fairness

-----------------------------------------------------------------------------
TypeInvariant ==
  /\ up \subseteq Node /\ flag \subseteq Node /\ rv_t \subseteq Node
  /\ merging \subseteq flag
  /\ prim_addr \in [Node -> Address]
  /\ serves \in [Node -> SUBSET Server]
  /\ rv_table \in [Node -> Seq(Entry)]
  /\ dns \in [Node -> Seq(Query)]
  /\ net \subseteq Message
  /\ replies \subseteq [id : 1 .. MaxQueries, name : Name, addr : Address]
  /\ had \in [Name -> SUBSET Address]
  /\ queries \in 0 .. MaxQueries /\ changes \in 0 .. MaxChanges

\* rendezvous.c:658, "i.e. the requested entry was found": the answer to a query
\* is an address that the node of the name has or had, whatever registrations,
\* deletions and changes of addresses came in between (as long as no name begins
\* with another: see PrefixOf).
SolvedIsOwners == \A r \in replies : r.addr \in had[r.name]

\* A query is answered at most once.
RepliedOnce ==
  /\ \A q, r \in replies : q.id = r.id => q = r
  /\ \A n \in Node, r \in replies : \A q \in Range(dns[n]) : q.id # r.id

\* antop_socket.c:333: an answer knows "who" to reply to.  While nobody changes
\* its address every solved answer finds a query for the name in the queue, and
\* no node dies of one.
AnswersFindQueries == changes = 0 => up = Node

\* The servers of n that run know an address of n.
Registered(n) ==
  \A k \in up : serves[k] \cap ServersOf(UnivAddr[n]) # {} =>
    \E e \in Range(rv_table[k]) :
      e.name = UnivAddr[n] /\ e.addr \in {prim_addr[n]} \cup SecAddr[n]

\* main.c:313, "Register periodically to the RV server": when the addresses
\* change no more, every server comes to know the address of every node that
\* is not in the middle of a merge or a fragmentation, and never starts a merge.
EventuallyRegistered == <>[](\A n \in up \ (flag \cup Starter) : Registered(n))
=============================================================================
