-------------------------- MODULE RendezvousProofs --------------------------
(***************************************************************************)
(* Theorems about Rendezvous, for any nodes, names, addresses and bounds.  *)
(*                                                                         *)
(* OInv follows an address from the node that registers it to the answer   *)
(* of a query: wherever it stands beside a name, in a packet, in a table   *)
(* or in an answer, a node of that name had it.  IdInv says that a query   *)
(* waits in one place of one queue until it is answered.  AInv holds until *)
(* the addresses change: a node has no fewer queries for a name in its     *)
(* queue than there are packets under way that an answer to it can come of.*)
(***************************************************************************)
EXTENDS Rendezvous, ListLemmas, FiniteSetTheorems, TLAPS

\* The addresses of the nodes whose names x begins with.
HadPrefix(x) == UNION {had[y] : y \in PrefixOf[x]}

OwnIsHad == \A n \in Node : {prim_addr[n]} \cup SecAddr[n] \subseteq had[UnivAddr[n]]

TableIsHad ==
  \A n \in Node : \A i \in DOMAIN rv_table[n] : rv_table[n][i].addr \in had[rv_table[n][i].name]

NetIsHad ==
  \A m \in net :
    /\ m.type = "RV_REG" => m.addr \in had[m.name]
    /\ m.type = "RV_ADDR_SOLVE" /\ m.addr # Unsolved => m.addr \in HadPrefix(m.name)

\* An answer is an address of a node whose name the query begins with.
SolvedByPrefix == \A r \in replies : r.addr \in HadPrefix(r.name)

OInv == TypeInvariant /\ OwnIsHad /\ TableIsHad /\ NetIsHad /\ SolvedByPrefix

IdsAreOld ==
  /\ \A n \in Node : \A i \in DOMAIN dns[n] : dns[n][i].id <= queries
  /\ \A r \in replies : r.id <= queries

WaitsOnce ==
  \A n, k \in Node : \A i \in DOMAIN dns[n], j \in DOMAIN dns[k] :
    dns[n][i].id = dns[k][j].id => n = k /\ i = j

IdInv == TypeInvariant /\ IdsAreOld /\ WaitsOnce /\ RepliedOnce

\* The packets of queries, and the queries of n for x that are under way.
Asking == {m \in net : m.type # "RV_REG"}
ReturnAddr(m) == IF m.type = "RV_ADDR_SOLVE" THEN m.to ELSE m.addr
UnderWay(n, x) == {m.id : m \in {k \in Asking : k.name = x /\ ReturnAddr(k) = Addr0[n]}}
Waiting(n, x) == {dns[n][i].id : i \in {j \in DOMAIN dns[n] : dns[n][j].name = x}}

Unchanged == up = Node /\ flag = {} /\ merging = {} /\ prim_addr = Addr0

OnePacket ==
  /\ \A m \in Asking : m.id <= queries
  /\ \A m, k \in Asking : m.id = k.id => m = k

EnoughWait ==
  \A n \in Node, x \in Name : Cardinality(UnderWay(n, x)) <= Cardinality(Waiting(n, x))

AInv == IdInv /\ (changes = 0 => Unchanged /\ OnePacket /\ EnoughWait)

-----------------------------------------------------------------------------
\* What a packet of each type holds.
LEMMA MessageFields ==
  ASSUME NEW m \in Message
  PROVE  /\ m.type \in {"RV_REG", "RV_ADDR_LOOKUP", "RV_ADDR_SOLVE"} /\ m.name \in Name
         /\ m.type = "RV_REG" => m.addr \in Address
         /\ m.type = "RV_ADDR_LOOKUP" => m.addr \in Address \cup {Default}
         /\ m.type = "RV_ADDR_SOLVE" => m.addr \in Address \cup {Unsolved}
         /\ m.type # "RV_REG" => m.id \in 1 .. MaxQueries
  BY DEF Message

\* What the nodes send are packets.
LEMMA SentAreMessages ==
  /\ \A x \in Name, a \in Address, s \in Server :
       Reg(x, a, s) \in Message /\ Reg(x, a, s).type = "RV_REG"
       /\ Reg(x, a, s).name = x /\ Reg(x, a, s).addr = a
  /\ \A q \in Query, a \in Address \cup {Default}, s \in Server : Lookup(q, a, s) \in Message
  /\ \A m \in Message, a \in Address \cup {Unsolved} :
       m.type = "RV_ADDR_LOOKUP" => Solve(m, a) \in Message
  BY DEF Message, Query, Reg, Lookup, Solve

\* What an entry of a table holds.
LEMMA EntryFields ==
  ASSUME NEW t \in Seq(Entry), NEW i \in DOMAIN t
  PROVE  t[i] \in Entry /\ t[i].name \in Name /\ t[i].addr \in Address
  <1>1. t[i] \in Entry
    OBVIOUS
  <1> QED BY <1>1 DEF Entry

\* An entry that is new or has a new address, in the table of names.
LEMMA RvTableAddFacts ==
  ASSUME NEW t \in Seq(Entry), NEW e \in Entry
  PROVE  /\ RvTableAdd(t, e) \in Seq(Entry)
         /\ \A i \in DOMAIN RvTableAdd(t, e) :
              RvTableAdd(t, e)[i] = e \/ \E j \in DOMAIN t : RvTableAdd(t, e)[i] = t[j]
  <1>1. CASE \E i \in DOMAIN t : t[i].name = e.name
    <2> DEFINE u == [i \in DOMAIN t |-> IF t[i].name = e.name THEN e ELSE t[i]]
    <2>1. RvTableAdd(t, e) = u
      BY <1>1 DEF RvTableAdd
    <2>2. u \in Seq(Entry) /\ DOMAIN u = DOMAIN t
      OBVIOUS
    <2> QED BY <2>1, <2>2
  <1>2. CASE ~ \E i \in DOMAIN t : t[i].name = e.name
    <2>1. RvTableAdd(t, e) = Append(t, e)
      BY <1>2 DEF RvTableAdd
    <2> QED BY <2>1, AppendFacts
  <1> QED BY <1>1, <1>2

\* The first of some positions of a list.
LEMMA FirstOfList ==
  ASSUME NEW T, NEW q \in Seq(T), NEW S \in SUBSET DOMAIN q, S # {}
  PROVE  LET i == CHOOSE k \in S : \A j \in S : k <= j IN i \in S /\ i \in DOMAIN q
  <1>1. S \subseteq Nat
    OBVIOUS
  <1> QED BY <1>1, FirstIndex

\* A list that one entry was removed from.
LEMMA RemoveAtKeeps ==
  ASSUME NEW T, NEW q \in Seq(T), NEW i \in DOMAIN q
  PROVE  /\ RemoveAt(q, i) \in Seq(T)
         /\ \A k \in DOMAIN RemoveAt(q, i) : \E j \in DOMAIN q \ {i} :
              RemoveAt(q, i)[k] = q[j] /\ j = IF k < i THEN k ELSE k + 1
         /\ \A j \in DOMAIN q \ {i} : \E k \in DOMAIN RemoveAt(q, i) : RemoveAt(q, i)[k] = q[j]
  <1> DEFINE r == RemoveAt(q, i)
  <1>1. /\ r \in Seq(T) /\ DOMAIN r = 1 .. Len(q) - 1
        /\ \A j \in 1 .. Len(q) - 1 : r[j] = IF j < i THEN q[j] ELSE q[j + 1]
    BY RemoveAtFacts
  <1>2. DOMAIN q = 1 .. Len(q) /\ i \in 1 .. Len(q) /\ Len(q) \in Nat
    OBVIOUS
  <1> HIDE DEF r
  <1>3. ASSUME NEW k \in DOMAIN r
        PROVE  \E j \in DOMAIN q \ {i} : r[k] = q[j] /\ j = IF k < i THEN k ELSE k + 1
    <2>1. CASE k < i
      BY <1>1, <1>2, <2>1
    <2>2. CASE ~ (k < i)
      <3>1. k + 1 \in DOMAIN q \ {i} /\ r[k] = q[k + 1]
        BY <1>1, <1>2, <2>2
      <3> QED BY <2>2, <3>1
    <2> QED BY <2>1, <2>2
  <1>4. ASSUME NEW j \in DOMAIN q \ {i} PROVE \E k \in DOMAIN r : r[k] = q[j]
    <2>1. CASE j < i
      BY <1>1, <1>2, <2>1
    <2>2. CASE ~ (j < i)
      <3>1. j - 1 \in DOMAIN r /\ ~ (j - 1 < i) /\ (j - 1) + 1 = j
        BY <1>1, <1>2, <2>2
      <3>2. r[j - 1] = q[j]
        BY <1>1, <3>1
      <3> QED BY <3>1, <3>2
    <2> QED BY <2>1, <2>2
  <1> QED BY <1>1, <1>3, <1>4 DEF r

LEMMA RvTableDeleteFacts ==
  ASSUME NEW t \in Seq(Entry), NEW a
  PROVE  /\ RvTableDelete(t, a) \in Seq(Entry)
         /\ \A i \in DOMAIN RvTableDelete(t, a) :
              \E j \in DOMAIN t : RvTableDelete(t, a)[i] = t[j]
  <1> DEFINE S == {i \in DOMAIN t : t[i].addr = a}
             f == CHOOSE i \in S : \A j \in S : i <= j
  <1>1. CASE S = {}
    BY <1>1 DEF RvTableDelete
  <1>2. CASE S # {}
    <2>1. f \in DOMAIN t
      BY <1>2, FirstOfList
    <2>2. RvTableDelete(t, a) = RemoveAt(t, f)
      BY <1>2 DEF RvTableDelete
    <2> HIDE DEF f
    <2> QED BY <2>1, <2>2, RemoveAtKeeps
  <1> QED BY <1>1, <1>2

\* answer_rv_query: an entry of the table, if one has the name.
LEMMA FoundFacts ==
  ASSUME NEW t \in Seq(Entry), NEW x \in Name
  PROVE  \/ Found(t, x) = Unsolved
         \/ \E i \in DOMAIN t : t[i].name \in PrefixOf[x] /\ Found(t, x) = t[i].addr
  <1> DEFINE S == {i \in DOMAIN t : t[i].name \in PrefixOf[x]}
             f == CHOOSE i \in S : \A j \in S : i <= j
  <1>1. CASE S = {}
    BY <1>1 DEF Found
  <1>2. CASE S # {}
    <2>1. f \in S
      BY <1>2, FirstOfList
    <2>2. Found(t, x) = t[f].addr
      BY <1>2 DEF Found
    <2> HIDE DEF f
    <2> QED BY <2>1, <2>2
  <1> QED BY <1>1, <1>2

-----------------------------------------------------------------------------
\* register_rv sends the name of the node and addresses it has.
LEMMA RegistrationsFacts ==
  ASSUME TypeInvariant, NEW n \in Node, n \notin merging, NEW secs \in SUBSET SecAddr[n],
         NEW m \in Registrations(n, Own(n), secs)
  PROVE  /\ m \in Message /\ m.type = "RV_REG" /\ m.name = UnivAddr[n]
         /\ m.addr \in {prim_addr[n]} \cup SecAddr[n]
  <1>1. PICK b \in {prim_addr[n]} \cup secs, s \in Hash[UnivAddr[n]] : m = Reg(UnivAddr[n], b, s)
    BY DEF Registrations, ServersOf, Own
  <1>2. UnivAddr[n] \in Name /\ b \in Address /\ s \in Server
    BY RendezvousAssumption DEF TypeInvariant
  <1> QED BY <1>1, <1>2, SentAreMessages

\* A node that takes an address adds it to those it had.
LEMMA TakesFacts ==
  ASSUME TypeInvariant, NEW n \in Node, NEW a \in Address, NEW S \in SUBSET Server, Takes(n, a, S)
  PROVE  /\ prim_addr' \in [Node -> Address] /\ serves' \in [Node -> SUBSET Server]
         /\ had' \in [Name -> SUBSET Address]
         /\ prim_addr'[n] = a /\ \A k \in Node \ {n} : prim_addr'[k] = prim_addr[k]
         /\ \A x \in Name : had[x] \subseteq had'[x]
         /\ {a} \cup SecAddr[n] \subseteq had'[UnivAddr[n]]
  BY RendezvousAssumption DEF Takes, TypeInvariant

LEMMA InitType == Init => TypeInvariant
  <1> SUFFICES ASSUME Init PROVE TypeInvariant
    OBVIOUS
  <1>1. had \in [Name -> SUBSET Address]
    BY RendezvousAssumption DEF Init
  <1> QED BY <1>1, RendezvousAssumption DEF Init, TypeInvariant

LEMMA StepType == TypeInvariant /\ [Next]_vars => TypeInvariant'
  <1> SUFFICES ASSUME TypeInvariant, [Next]_vars PROVE TypeInvariant'
    OBVIOUS
  <1> USE RendezvousAssumption
  <1>1. ASSUME NEW n \in Node, TimerRv(n) PROVE TypeInvariant'
    <2>1. CASE n \in flag /\ rv_t' = rv_t \ {n} /\ UNCHANGED net
      BY <1>1, <2>1 DEF TimerRv, TypeInvariant, node
    <2>2. CASE n \notin flag /\ RegisterRv(n)
      <3>1. n \notin merging
        BY <2>2 DEF TypeInvariant
      <3>2. net' \subseteq Message /\ rv_t' \subseteq Node
        BY <2>2, <3>1, RegistrationsFacts DEF RegisterRv, TypeInvariant
      <3> QED BY <1>1, <3>2 DEF TimerRv, TypeInvariant, node
    <2> QED BY <1>1, <2>1, <2>2 DEF TimerRv
  <1>2. ASSUME NEW n \in Node, NEW m \in net, ProcessReg(n, m) PROVE TypeInvariant'
    <2>1. [name |-> m.name, addr |-> m.addr] \in Entry
      BY <1>2, MessageFields DEF ProcessReg, TypeInvariant, Entry
    <2>2. rv_table' \in [Node -> Seq(Entry)]
      BY <1>2, <2>1, RvTableAddFacts DEF ProcessReg, TypeInvariant
    <2> QED BY <1>2, <2>2 DEF ProcessReg, TypeInvariant, node
  <1>3. ASSUME NEW n \in Node, NEW m \in net, AnswerRvQuery(n, m) PROVE TypeInvariant'
    <2>1. m \in Message /\ m.type = "RV_ADDR_LOOKUP" /\ m.name \in Name
      BY <1>3, MessageFields DEF AnswerRvQuery, TypeInvariant
    <2>2. Found(rv_table[n], m.name) \in Address \cup {Unsolved}
      <3>1. rv_table[n] \in Seq(Entry)
        BY DEF TypeInvariant
      <3>2. \A i \in DOMAIN rv_table[n] : rv_table[n][i].addr \in Address
        BY <3>1, EntryFields
      <3> QED BY <2>1, <3>1, <3>2, FoundFacts
    <2>3. net' \subseteq Message
      BY <1>3, <2>1, <2>2, SentAreMessages DEF AnswerRvQuery, TypeInvariant
    <2> QED BY <1>3, <2>3 DEF AnswerRvQuery, TypeInvariant, node, code
  <1>4. ASSUME NEW n \in Node, NEW m \in net, ProcessSolve(n, m) PROVE TypeInvariant'
    <2> DEFINE S == QueriesFor(dns[n], m)
               i == CHOOSE j \in S : \A k \in S : j <= k
    <2>1. m \in Message /\ m.type = "RV_ADDR_SOLVE" /\ net' = net \ {m}
      BY <1>4 DEF ProcessSolve, TypeInvariant
    <2>2. m.name \in Name /\ (m.addr # Unsolved => m.addr \in Address)
      BY <2>1, MessageFields
    <2>3. dns[n] \in Seq(Query)
      BY DEF TypeInvariant
    <2>4. CASE m.addr # Unsolved /\ S # {} /\ dns' = [dns EXCEPT ![n] = Dequeued(@, i)]
               /\ replies' = replies \cup {Response(dns[n][i], m)} /\ UNCHANGED node
      <3>1. i \in DOMAIN dns[n]
        BY <2>3, <2>4, FirstOfList DEF QueriesFor
      <3> HIDE DEF i
      <3>2. dns[n][i] \in Query
        BY <2>3, <3>1
      <3>3. dns' \in [Node -> Seq(Query)]
        BY <2>3, <2>4, <3>1, RemoveAtFacts DEF Dequeued, TypeInvariant
      <3>4. Response(dns[n][i], m) \in [id : 1 .. MaxQueries, name : Name, addr : Address]
        BY <2>2, <2>4, <3>2 DEF Response, Query
      <3>5. UNCHANGED <<rv_t, rv_table, had, queries, changes>>
        BY <1>4 DEF ProcessSolve
      <3> QED BY <2>1, <2>4, <3>3, <3>4, <3>5 DEF TypeInvariant, node
    <2>5. CASE UNCHANGED <<node, dns, replies>>
      BY <1>4, <2>1, <2>5 DEF ProcessSolve, TypeInvariant, node
    <2>6. CASE up' = up \ {n} /\ UNCHANGED <<prim_addr, serves, flag, merging, dns, replies>>
      BY <1>4, <2>1, <2>6 DEF ProcessSolve, TypeInvariant
    <2> QED BY <1>4, <2>4, <2>5, <2>6, Zenon DEF ProcessSolve
  <1>5. ASSUME NEW q \in Ask, AskDns(q[1], q[2]) PROVE TypeInvariant'
    <2> DEFINE r == [name |-> q[2], id |-> queries + 1]
    <2>1. q[1] \in Node /\ q[2] \in Name
      OBVIOUS
    <2>2. queries + 1 \in 1 .. MaxQueries /\ queries' = queries + 1
      BY <1>5 DEF AskDns, TypeInvariant
    <2>3. r \in Query
      BY <2>1, <2>2 DEF Query
    <2>4. dns' \in [Node -> Seq(Query)]
      BY <1>5, <2>1, <2>3 DEF AskDns, TypeInvariant
    <2>5. Own(q[1]) \in Address \cup {Default}
      BY <2>1 DEF Own, TypeInvariant
    <2>6. net' \subseteq Message
      BY <1>5, <2>1, <2>3, <2>5, SentAreMessages DEF AskDns, ServersOf, TypeInvariant
    <2> QED BY <1>5, <2>2, <2>4, <2>6 DEF AskDns, TypeInvariant, node
  <1>6. ASSUME NEW m \in net, Lose(m) PROVE TypeInvariant'
    BY <1>6 DEF Lose, TypeInvariant, node, code
  <1>7. ASSUME NEW n \in Node, NEW a \in Address, NEW S \in SUBSET Server, Boot(n, a, S)
        PROVE  TypeInvariant'
    BY <1>7, TakesFacts DEF Boot, TypeInvariant
  <1>8. ASSUME NEW n \in Node, Stop(n) PROVE TypeInvariant'
    BY <1>8 DEF Stop, Change, TypeInvariant, code
  <1>9. ASSUME NEW n \in Node, NEW a \in Address, DeleteNeighbor(n, a) PROVE TypeInvariant'
    <2>1. rv_table' \in [Node -> Seq(Entry)]
      BY <1>9, RvTableDeleteFacts DEF DeleteNeighbor, TypeInvariant
    <2> QED BY <1>9, <2>1 DEF DeleteNeighbor, Change, TypeInvariant, node
  <1>10. ASSUME NEW n \in Node, NEW S \in SUBSET Server, Reassign(n, S) PROVE TypeInvariant'
    <2>1. prim_addr[n] \in Address /\ Takes(n, prim_addr[n], S)
      BY <1>10 DEF Reassign, TypeInvariant
    <2> QED BY <1>10, <2>1, TakesFacts DEF Reassign, Change, TypeInvariant, code
  <1>11. ASSUME NEW n \in Node, NEW a \in Address, NEW S \in SUBSET Server, Reconfigure(n, a, S)
         PROVE  TypeInvariant'
    BY <1>11, TakesFacts DEF Reconfigure, Change, TypeInvariant
  <1>12. ASSUME NEW n \in Node, Reconfigured(n) PROVE TypeInvariant'
    <2>1. net' \subseteq Message /\ rv_t' \subseteq Node
      BY <1>12, RegistrationsFacts DEF Reconfigured, RegisterRv, TypeInvariant
    <2> QED BY <1>12, <2>1 DEF Reconfigured, TypeInvariant
  <1>13. ASSUME NEW n \in Node, StartMerge(n) PROVE TypeInvariant'
    BY <1>13 DEF StartMerge, Change, TypeInvariant, code
  <1>14. ASSUME NEW n \in Node, EndMerge(n) PROVE TypeInvariant'
    BY <1>14 DEF EndMerge, TypeInvariant, code
  <1>15. CASE UNCHANGED vars
    BY <1>15 DEF vars, node, code, TypeInvariant
  <1> QED BY <1>1, <1>2, <1>3, <1>4, <1>5, <1>6, <1>7, <1>8, <1>9, <1>10, <1>11, <1>12, <1>13,
             <1>14, <1>15 DEF Next

(***************************************************************************)
(* The variables of Rendezvous keep their types: above all, a packet with  *)
(* the default address is never a registration.                            *)
(***************************************************************************)
THEOREM TypeCorrect == Spec => []TypeInvariant
  BY InitType, StepType, PTL DEF Spec

-----------------------------------------------------------------------------
\* No node loses an address that it had, in any step.
HadGrows == \A x \in Name : had[x] \subseteq had'[x]

LEMMA PrefixGrows ==
  ASSUME HadGrows, NEW x \in Name
  PROVE  HadPrefix(x) \subseteq HadPrefix(x)'
  BY RendezvousAssumption DEF HadGrows, HadPrefix

\* A step that adds nothing to the tables, the packets and the answers.
LEMMA NothingNewIsHad ==
  ASSUME OInv, TypeInvariant', HadGrows, OwnIsHad', net' \subseteq net, replies' = replies,
         \A n \in Node : \A i \in DOMAIN rv_table'[n] : \E j \in DOMAIN rv_table[n] :
           rv_table'[n][i] = rv_table[n][j]
  PROVE  OInv'
  <1>1. TableIsHad'
    <2> SUFFICES ASSUME NEW n \in Node, NEW i \in DOMAIN rv_table'[n]
                 PROVE  rv_table'[n][i].addr \in had'[rv_table'[n][i].name]
      BY DEF TableIsHad
    <2>1. PICK j \in DOMAIN rv_table[n] : rv_table'[n][i] = rv_table[n][j]
      OBVIOUS
    <2>2. rv_table[n][j].name \in Name
      BY EntryFields DEF OInv, TypeInvariant
    <2>3. rv_table[n][j].addr \in had[rv_table[n][j].name]
      BY DEF OInv, TableIsHad
    <2> QED BY <2>1, <2>2, <2>3 DEF HadGrows
  <1>2. NetIsHad'
    <2> SUFFICES ASSUME NEW m \in net'
                 PROVE  /\ m.type = "RV_REG" => m.addr \in had'[m.name]
                        /\ m.type = "RV_ADDR_SOLVE" /\ m.addr # Unsolved
                             => m.addr \in HadPrefix(m.name)'
      BY DEF NetIsHad
    <2>1. m \in net /\ m.name \in Name
      BY MessageFields DEF OInv, TypeInvariant
    <2> QED BY <2>1, PrefixGrows DEF OInv, NetIsHad, HadGrows
  <1>3. SolvedByPrefix'
    <2> SUFFICES ASSUME NEW r \in replies PROVE r.addr \in HadPrefix(r.name)'
      BY DEF SolvedByPrefix
    <2>1. r.name \in Name
      BY DEF OInv, TypeInvariant
    <2> QED BY <2>1, PrefixGrows DEF OInv, SolvedByPrefix
  <1> QED BY <1>1, <1>2, <1>3 DEF OInv

LEMMA TakesIsHad ==
  ASSUME OInv, NEW n \in Node, NEW a \in Address, NEW S \in SUBSET Server, Takes(n, a, S)
  PROVE  HadGrows /\ OwnIsHad'
  <1>1. TypeInvariant /\ OwnIsHad
    BY DEF OInv
  <1>2. HadGrows
    BY <1>1, TakesFacts DEF HadGrows
  <1>3. ASSUME NEW k \in Node PROVE {prim_addr'[k]} \cup SecAddr[k] \subseteq had'[UnivAddr[k]]
    <2>1. CASE k = n
      BY <1>1, <2>1, TakesFacts
    <2>2. CASE k # n
      <3>1. prim_addr'[k] = prim_addr[k] /\ UnivAddr[k] \in Name
        BY <1>1, <2>2, TakesFacts, RendezvousAssumption
      <3> QED BY <1>1, <1>2, <3>1 DEF OwnIsHad, HadGrows
    <2> QED BY <2>1, <2>2
  <1> QED BY <1>2, <1>3 DEF OwnIsHad

\* Registrations are of addresses that the node has.
LEMMA RegisterIsHad ==
  ASSUME OInv, TypeInvariant', NEW n \in Node, n \notin merging, RegisterRv(n),
         UNCHANGED <<prim_addr, had, rv_table, replies>>
  PROVE  OInv'
  <1>1. PICK secs \in SUBSET SecAddr[n] : net' = net \cup Registrations(n, Own(n), secs)
    BY DEF RegisterRv
  <1>2. \A m \in Registrations(n, Own(n), secs) :
          m.type = "RV_REG" /\ m.addr \in had[m.name]
    BY RegistrationsFacts DEF OInv, OwnIsHad
  <1>3. \A x : HadPrefix(x)' = HadPrefix(x)
    BY DEF HadPrefix
  <1>4. NetIsHad'
    BY <1>1, <1>2, <1>3 DEF OInv, NetIsHad
  <1> QED BY <1>3, <1>4 DEF OInv, OwnIsHad, TableIsHad, SolvedByPrefix

LEMMA InitOInv == Init => OInv
  <1> SUFFICES ASSUME Init PROVE OInv
    OBVIOUS
  <1>1. TypeInvariant
    BY InitType
  <1>2. OwnIsHad
    <2> SUFFICES ASSUME NEW n \in Node
                 PROVE  {prim_addr[n]} \cup SecAddr[n] \subseteq had[UnivAddr[n]]
      BY DEF OwnIsHad
    <2>1. UnivAddr[n] \in Name
      BY RendezvousAssumption
    <2>2. had[UnivAddr[n]] =
            UNION {{Addr0[k]} \cup SecAddr[k] : k \in {j \in Node : UnivAddr[j] = UnivAddr[n]}}
      BY <2>1 DEF Init
    <2> QED BY <2>2 DEF Init
  <1>3. TableIsHad
    BY DEF Init, TableIsHad
  <1> QED BY <1>1, <1>2, <1>3 DEF Init, OInv, NetIsHad, SolvedByPrefix

LEMMA StepOInv == OInv /\ [Next]_vars => OInv'
  <1> SUFFICES ASSUME OInv, [Next]_vars PROVE OInv'
    OBVIOUS
  <1>t. TypeInvariant /\ TypeInvariant'
    BY StepType DEF OInv
  <1>h. ASSUME UNCHANGED had PROVE HadGrows /\ \A x : HadPrefix(x)' = HadPrefix(x)
    BY <1>h DEF HadGrows, HadPrefix
  <1>o. ASSUME UNCHANGED <<prim_addr, had>> PROVE OwnIsHad'
    BY <1>o DEF OInv, OwnIsHad
  <1>n. ASSUME UNCHANGED <<prim_addr, had, rv_table, replies>>, net' \subseteq net PROVE OInv'
    <2>1. HadGrows /\ OwnIsHad'
      BY <1>h, <1>o, <1>n
    <2> QED BY <1>t, <1>n, <2>1, NothingNewIsHad
  <1>1. ASSUME NEW n \in Node, TimerRv(n) PROVE OInv'
    <2>1. CASE n \in flag /\ UNCHANGED net
      BY <1>1, <1>n, <2>1 DEF TimerRv, node
    <2>2. CASE n \notin flag /\ RegisterRv(n)
      <3>1. n \notin merging
        BY <1>t, <2>2 DEF TypeInvariant
      <3>2. UNCHANGED <<prim_addr, had, rv_table, replies>>
        BY <1>1 DEF TimerRv, node
      <3> QED BY <1>t, <2>2, <3>1, <3>2, RegisterIsHad
    <2> QED BY <1>1, <2>1, <2>2 DEF TimerRv
  <1>2. ASSUME NEW n \in Node, NEW m \in net, ProcessReg(n, m) PROVE OInv'
    <2> DEFINE e == [name |-> m.name, addr |-> m.addr]
               t == RvTableAdd(rv_table[n], e)
    <2>1. m.type = "RV_REG" /\ net' = net \ {m} /\ rv_table' = [rv_table EXCEPT ![n] = t]
          /\ UNCHANGED <<prim_addr, had, replies>>
      BY <1>2 DEF ProcessReg, node
    <2>2. e \in Entry /\ e.addr \in had[e.name]
      BY <1>t, <2>1, MessageFields DEF OInv, NetIsHad, TypeInvariant, Entry
    <2>3. rv_table[n] \in Seq(Entry)
      BY <1>t DEF TypeInvariant
    <2>4. \A i \in DOMAIN t : t[i] = e \/ \E j \in DOMAIN rv_table[n] : t[i] = rv_table[n][j]
      BY <2>2, <2>3, RvTableAddFacts
    <2> HIDE DEF e, t
    <2>5. TableIsHad'
      <3> SUFFICES ASSUME NEW k \in Node, NEW i \in DOMAIN rv_table'[k]
                   PROVE  rv_table'[k][i].addr \in had'[rv_table'[k][i].name]
        BY DEF TableIsHad
      <3>1. CASE k = n
        <4>1. rv_table'[k] = t
          BY <1>t, <2>1, <3>1 DEF TypeInvariant
        <4> QED BY <2>1, <2>2, <2>4, <4>1 DEF OInv, TableIsHad
      <3>2. CASE k # n
        <4>1. rv_table'[k] = rv_table[k]
          BY <1>t, <2>1, <3>2 DEF TypeInvariant
        <4> QED BY <2>1, <4>1 DEF OInv, TableIsHad
      <3> QED BY <3>1, <3>2
    <2>6. NetIsHad' /\ SolvedByPrefix'
      BY <1>h, <2>1 DEF OInv, NetIsHad, SolvedByPrefix
    <2> QED BY <1>t, <1>o, <2>1, <2>5, <2>6 DEF OInv
  <1>3. ASSUME NEW n \in Node, NEW m \in net, AnswerRvQuery(n, m) PROVE OInv'
    <2> DEFINE a == Found(rv_table[n], m.name)
    <2>1. m.type = "RV_ADDR_LOOKUP" /\ net' = (net \ {m}) \cup {Solve(m, a)}
          /\ UNCHANGED <<prim_addr, had, rv_table, replies>>
      BY <1>3 DEF AnswerRvQuery, node, code
    <2>2. m.name \in Name /\ rv_table[n] \in Seq(Entry)
      BY <1>t, MessageFields DEF TypeInvariant
    <2>3. a = Unsolved \/ a \in HadPrefix(m.name)
      <3>1. CASE \E i \in DOMAIN rv_table[n] :
                   rv_table[n][i].name \in PrefixOf[m.name] /\ a = rv_table[n][i].addr
        BY <3>1 DEF OInv, TableIsHad, HadPrefix
      <3> QED BY <2>2, <3>1, FoundFacts
    <2>4. Solve(m, a).type = "RV_ADDR_SOLVE" /\ Solve(m, a).name = m.name /\ Solve(m, a).addr = a
      BY DEF Solve
    <2> HIDE DEF a
    <2>5. NetIsHad'
      BY <1>h, <2>1, <2>3, <2>4 DEF OInv, NetIsHad
    <2>6. TableIsHad' /\ SolvedByPrefix'
      BY <1>h, <2>1 DEF OInv, TableIsHad, SolvedByPrefix
    <2> QED BY <1>t, <1>o, <2>1, <2>5, <2>6 DEF OInv
  <1>4. ASSUME NEW n \in Node, NEW m \in net, ProcessSolve(n, m) PROVE OInv'
    <2>1. m.type = "RV_ADDR_SOLVE" /\ net' = net \ {m} /\ UNCHANGED <<prim_addr, had, rv_table>>
      BY <1>4 DEF ProcessSolve, node
    <2>2. CASE UNCHANGED replies
      BY <1>n, <2>1, <2>2
    <2>3. ASSUME NEW q, m.addr # Unsolved, replies' = replies \cup {Response(q, m)}
          PROVE  OInv'
      <3>1. Response(q, m).addr \in HadPrefix(Response(q, m).name)
        BY <2>1, <2>3 DEF Response, OInv, NetIsHad
      <3>2. SolvedByPrefix'
        BY <1>h, <2>1, <2>3, <3>1 DEF OInv, SolvedByPrefix
      <3>3. TableIsHad' /\ NetIsHad'
        BY <1>h, <2>1 DEF OInv, TableIsHad, NetIsHad
      <3> QED BY <1>t, <1>o, <2>1, <3>2, <3>3 DEF OInv
    <2> QED BY <1>4, <2>2, <2>3 DEF ProcessSolve
  <1>5. ASSUME NEW q \in Ask, AskDns(q[1], q[2]) PROVE OInv'
    <2>1. UNCHANGED <<prim_addr, had, rv_table, replies>>
      BY <1>5 DEF AskDns, node
    <2>2. PICK r, a, s : net' = net \cup {Lookup(r, a, s)}
      BY <1>5 DEF AskDns
    <2>3. NetIsHad'
      BY <1>h, <2>1, <2>2 DEF Lookup, OInv, NetIsHad
    <2>4. TableIsHad' /\ SolvedByPrefix'
      BY <1>h, <2>1 DEF OInv, TableIsHad, SolvedByPrefix
    <2> QED BY <1>t, <1>o, <2>1, <2>3, <2>4 DEF OInv
  <1>6. ASSUME NEW m \in net, Lose(m) PROVE OInv'
    BY <1>6, <1>n DEF Lose, node, code
  <1>7. ASSUME NEW n \in Node, NEW a \in Address, NEW S \in SUBSET Server, Boot(n, a, S)
        PROVE  OInv'
    <2>1. HadGrows /\ OwnIsHad' /\ net' = net /\ replies' = replies
      BY <1>7, TakesIsHad DEF Boot
    <2>2. \A k \in Node : \A i \in DOMAIN rv_table'[k] : i \in DOMAIN rv_table[k]
            /\ rv_table'[k][i] = rv_table[k][i]
      BY <1>t, <1>7 DEF Boot, TypeInvariant
    <2> QED BY <1>t, <2>1, <2>2, NothingNewIsHad
  <1>8. ASSUME NEW n \in Node, Stop(n) PROVE OInv'
    BY <1>8, <1>n DEF Stop, Change, code
  <1>9. ASSUME NEW n \in Node, NEW a \in Address, DeleteNeighbor(n, a) PROVE OInv'
    <2>1. UNCHANGED <<prim_addr, had, net, replies>>
      BY <1>9 DEF DeleteNeighbor, Change, node
    <2>2. ASSUME NEW k \in Node, NEW i \in DOMAIN rv_table'[k]
          PROVE  \E j \in DOMAIN rv_table[k] : rv_table'[k][i] = rv_table[k][j]
      <3>1. CASE k = n
        <4>1. rv_table'[k] = RvTableDelete(rv_table[k], a) /\ rv_table[k] \in Seq(Entry)
          BY <1>t, <1>9, <3>1 DEF DeleteNeighbor, TypeInvariant
        <4> QED BY <4>1, RvTableDeleteFacts
      <3>2. CASE k # n
        BY <1>t, <1>9, <3>2 DEF DeleteNeighbor, TypeInvariant
      <3> QED BY <3>1, <3>2
    <2> QED BY <1>t, <1>h, <1>o, <2>1, <2>2, NothingNewIsHad
  <1>10. ASSUME NEW n \in Node, NEW S \in SUBSET Server, Reassign(n, S) PROVE OInv'
    <2>1. prim_addr[n] \in Address /\ Takes(n, prim_addr[n], S)
          /\ UNCHANGED <<rv_table, net, replies>>
      BY <1>t, <1>10 DEF Reassign, Change, TypeInvariant, code
    <2>2. HadGrows /\ OwnIsHad'
      BY <2>1, TakesIsHad
    <2> QED BY <1>t, <2>1, <2>2, NothingNewIsHad
  <1>11. ASSUME NEW n \in Node, NEW a \in Address, NEW S \in SUBSET Server, Reconfigure(n, a, S)
         PROVE  OInv'
    <2>1. HadGrows /\ OwnIsHad' /\ net' = net /\ replies' = replies
      BY <1>11, TakesIsHad DEF Reconfigure, Change
    <2>2. \A k \in Node : \A i \in DOMAIN rv_table'[k] : i \in DOMAIN rv_table[k]
            /\ rv_table'[k][i] = rv_table[k][i]
      BY <1>t, <1>11 DEF Reconfigure, TypeInvariant
    <2> QED BY <1>t, <2>1, <2>2, NothingNewIsHad
  <1>12. ASSUME NEW n \in Node, Reconfigured(n) PROVE OInv'
    <2>1. n \notin merging /\ RegisterRv(n) /\ UNCHANGED <<prim_addr, had, rv_table, replies>>
      BY <1>12 DEF Reconfigured
    <2> QED BY <1>t, <2>1, RegisterIsHad
  <1>13. ASSUME NEW n \in Node, StartMerge(n) PROVE OInv'
    BY <1>13, <1>n DEF StartMerge, Change, code
  <1>14. ASSUME NEW n \in Node, EndMerge(n) PROVE OInv'
    BY <1>14, <1>n DEF EndMerge, code
  <1>15. CASE UNCHANGED vars
    BY <1>15, <1>n DEF vars, node, code
  <1> QED BY <1>1, <1>2, <1>3, <1>4, <1>5, <1>6, <1>7, <1>8, <1>9, <1>10, <1>11, <1>12, <1>13,
             <1>14, <1>15 DEF Next

(***************************************************************************)
(* answer_rv_query and rv_table: whatever is lost, late, overtaken,        *)
(* deleted or cleared on the way, the answer to a query is an address that *)
(* a node had whose name the query begins with.                            *)
(***************************************************************************)
THEOREM SolvedByAPrefix == Spec => []SolvedByPrefix
  <1>1. OInv => SolvedByPrefix
    BY DEF OInv
  <1> QED BY <1>1, InitOInv, StepOInv, PTL DEF Spec

(***************************************************************************)
(* With names of which none begins with another, as the configuration of   *)
(* the nodes is meant, it is an address of the node that was asked for.    *)
(***************************************************************************)
THEOREM SolvedIsTheOwners ==
  ASSUME \A x \in Name : PrefixOf[x] = {x}
  PROVE  Spec => []SolvedIsOwners
  <1>1. OInv => SolvedIsOwners
    BY DEF OInv, SolvedByPrefix, HadPrefix, SolvedIsOwners, TypeInvariant
  <1> QED BY <1>1, InitOInv, StepOInv, PTL DEF Spec

-----------------------------------------------------------------------------
\* The queues of queries, of which none got a new one or lost its order.
Shorter(n) ==
  \A i \in DOMAIN dns'[n] : i \in DOMAIN dns[n] /\ dns'[n][i] = dns[n][i]

LEMMA QueryFields ==
  ASSUME TypeInvariant, NEW n \in Node, NEW i \in DOMAIN dns[n]
  PROVE  dns[n] \in Seq(Query) /\ dns[n][i] \in Query /\ dns[n][i].name \in Name /\ dns[n][i].id \in Nat
  <1>1. dns[n] \in Seq(Query)
    BY DEF TypeInvariant
  <1>2. dns[n][i] \in Query
    BY <1>1
  <1> QED BY <1>1, <1>2, RendezvousAssumption DEF Query

\* A step that adds no query and no answer.
LEMMA ShorterKeepsIds ==
  ASSUME IdInv, TypeInvariant', \A n \in Node : Shorter(n), UNCHANGED <<replies, queries>>
  PROVE  IdInv'
  <1>1. IdsAreOld'
    BY DEF IdInv, IdsAreOld, Shorter
  <1>2. WaitsOnce'
    BY DEF IdInv, WaitsOnce, Shorter
  <1>3. RepliedOnce'
    BY DEF IdInv, RepliedOnce, Shorter, Range
  <1> QED BY <1>1, <1>2, <1>3 DEF IdInv

\* A query that is answered: it is in the queue no more, and nowhere else.
LEMMA AnsweredLeaves ==
  ASSUME IdInv, TypeInvariant', NEW n \in Node, NEW m, NEW i \in DOMAIN dns[n],
         dns' = [dns EXCEPT ![n] = Dequeued(@, i)],
         replies' = replies \cup {Response(dns[n][i], m)}, queries' = queries
  PROVE  IdInv'
  <1> DEFINE q == dns[n][i]
  <1>1. TypeInvariant /\ dns[n] \in Seq(Query) /\ q.id \in Nat
    BY QueryFields DEF IdInv
  <1>2. dns'[n] = RemoveAt(dns[n], i) /\ \A k \in Node \ {n} : dns'[k] = dns[k]
    BY <1>1 DEF TypeInvariant, Dequeued
  <1>3. \A j \in DOMAIN dns'[n] : \E l \in DOMAIN dns[n] \ {i} :
          dns'[n][j] = dns[n][l] /\ l = IF j < i THEN j ELSE j + 1
    <2> DEFINE d == dns[n]
               e == dns'[n]
    <2>1. d \in Seq(Query) /\ i \in DOMAIN d /\ e = RemoveAt(d, i)
      BY <1>1, <1>2
    <2> HIDE DEF d, e
    <2>2. \A j \in DOMAIN e : \E l \in DOMAIN d \ {i} :
            e[j] = d[l] /\ l = IF j < i THEN j ELSE j + 1
      BY <2>1, RemoveAtKeeps
    <2> QED BY <2>2 DEF d, e
  <1>4. \A k \in Node : \A j \in DOMAIN dns'[k] : \E l \in DOMAIN dns[k] :
          dns'[k][j] = dns[k][l] /\ <<k, l>> # <<n, i>>
    BY <1>2, <1>3
  <1>5. \A k \in Node : \A j \in DOMAIN dns'[k] : dns'[k][j].id # q.id
    BY <1>4 DEF IdInv, WaitsOnce
  <1>6. Response(q, m).id = q.id
    BY DEF Response
  <1>7. IdsAreOld'
    <2>1. q.id <= queries
      BY DEF IdInv, IdsAreOld
    <2> QED BY <1>4, <1>6, <2>1 DEF IdInv, IdsAreOld
  <1>8. WaitsOnce'
    <2> SUFFICES ASSUME NEW k \in Node, NEW h \in Node, NEW j \in DOMAIN dns'[k],
                        NEW l \in DOMAIN dns'[h], dns'[k][j].id = dns'[h][l].id
                 PROVE  k = h /\ j = l
      BY DEF WaitsOnce
    <2>1. k = h
      BY <1>4 DEF IdInv, WaitsOnce
    <2>2. CASE k # n
      BY <1>2, <2>1, <2>2 DEF IdInv, WaitsOnce
    <2>3. CASE k = n
      <3>1. PICK a \in DOMAIN dns[n] \ {i} :
              dns'[n][j] = dns[n][a] /\ a = IF j < i THEN j ELSE j + 1
        BY <1>3, <2>3
      <3>2. PICK b \in DOMAIN dns[n] \ {i} :
              dns'[n][l] = dns[n][b] /\ b = IF l < i THEN l ELSE l + 1
        BY <1>3, <2>1, <2>3
      <3>3. a = b
        BY <2>1, <2>3, <3>1, <3>2 DEF IdInv, WaitsOnce
      <3>4. j \in Nat /\ l \in Nat /\ i \in Nat
        <4>1. dns'[n] \in Seq(Query)
          BY DEF TypeInvariant
        <4> QED BY <1>1, <2>1, <2>3, <4>1
      <3> QED BY <2>1, <3>1, <3>2, <3>3, <3>4
    <2> QED BY <2>2, <2>3
  <1>9. RepliedOnce'
    <2>1. \A r \in replies : r.id # q.id
      BY DEF IdInv, RepliedOnce, Range
    <2>2. \A r, u \in replies' : r.id = u.id => r = u
      BY <1>6, <2>1 DEF IdInv, RepliedOnce
    <2>3. \A k \in Node, r \in replies' : \A j \in DOMAIN dns'[k] : dns'[k][j].id # r.id
      BY <1>4, <1>5, <1>6 DEF IdInv, RepliedOnce, Range
    <2> QED BY <2>2, <2>3 DEF RepliedOnce, Range
  <1> QED BY <1>7, <1>8, <1>9 DEF IdInv

\* A new query is at the end of its queue and has an id that no other has.
LEMMA AskedIsNew ==
  ASSUME IdInv, TypeInvariant', NEW q \in Ask, AskDns(q[1], q[2])
  PROVE  IdInv'
  <1> DEFINE n == q[1]
             r == [name |-> q[2], id |-> queries + 1]
  <1>1. TypeInvariant /\ n \in Node /\ dns[n] \in Seq(Query) /\ queries \in Nat
    BY RendezvousAssumption DEF IdInv, TypeInvariant
  <1>2. r \in Query /\ r.id = queries + 1 /\ queries' = queries + 1 /\ replies' = replies
    <2>1. q[2] \in Name /\ queries + 1 \in 1 .. MaxQueries
      BY <1>1, RendezvousAssumption DEF AskDns, TypeInvariant
    <2> QED BY <2>1 DEF AskDns, Query
  <1>3. dns'[n] = Append(dns[n], r) /\ \A k \in Node \ {n} : dns'[k] = dns[k]
    BY <1>1 DEF AskDns, TypeInvariant
  <1> HIDE DEF r
  <1>4. \A i \in DOMAIN dns'[n] : IF i \in DOMAIN dns[n] THEN dns'[n][i] = dns[n][i]
                                  ELSE i = Len(dns[n]) + 1 /\ dns'[n][i] = r
    BY <1>1, <1>2, <1>3, AppendFacts
  <1>5. \A k \in Node : \A i \in DOMAIN dns'[k] :
          IF i \in DOMAIN dns[k] THEN dns'[k][i] = dns[k][i] /\ dns'[k][i].id <= queries
          ELSE k = n /\ i = Len(dns[n]) + 1 /\ dns'[k][i].id = queries + 1
    BY <1>2, <1>3, <1>4 DEF IdInv, IdsAreOld
  <1>6. \A k \in Node : \A i \in DOMAIN dns[k] : dns[k][i].id \in Nat
    BY <1>1, QueryFields
  <1>7. IdsAreOld'
    <2>1. \A u \in replies : u.id \in Nat /\ u.id <= queries
      BY <1>1, RendezvousAssumption DEF IdInv, IdsAreOld, TypeInvariant
    <2> QED BY <1>1, <1>2, <1>5, <1>6, <2>1 DEF IdsAreOld
  <1>8. WaitsOnce'
    <2>1. \A k \in Node : \A i \in DOMAIN dns'[k] :
            i \in DOMAIN dns[k] => dns'[k][i].id # queries + 1
      BY <1>1, <1>5, <1>6
    <2> QED BY <1>5, <2>1 DEF IdInv, WaitsOnce
  <1>9. RepliedOnce'
    <2>1. \A u \in replies : u.id # queries + 1
      BY <1>1, RendezvousAssumption DEF IdInv, IdsAreOld, TypeInvariant
    <2> QED BY <1>2, <1>5, <2>1 DEF IdInv, RepliedOnce, Range
  <1> QED BY <1>7, <1>8, <1>9 DEF IdInv

\* A packet with an answer takes the first query of its name, or none.
LEMMA SolveCases ==
  ASSUME TypeInvariant, NEW n \in Node, NEW m \in net, ProcessSolve(n, m)
  PROVE  LET S == QueriesFor(dns[n], m)
         IN  \/ UNCHANGED <<node, dns, replies>>
             \/ \E i \in S : /\ i \in DOMAIN dns[n] /\ dns[n][i].name = m.name
                             /\ m.addr # Unsolved
                             /\ dns' = [dns EXCEPT ![n] = Dequeued(@, i)]
                             /\ replies' = replies \cup {Response(dns[n][i], m)}
                             /\ UNCHANGED node
             \/ S = {} /\ up' = up \ {n} /\ UNCHANGED <<dns, replies>>
  <1> DEFINE S == QueriesFor(dns[n], m)
             i == CHOOSE j \in S : \A k \in S : j <= k
  <1>1. ASSUME S # {} PROVE i \in S /\ i \in DOMAIN dns[n] /\ dns[n][i].name = m.name
    <2>1. dns[n] \in Seq(Query)
      BY DEF TypeInvariant
    <2>2. i \in S
      BY <1>1, <2>1, FirstOfList DEF QueriesFor
    <2> QED BY <2>2 DEF QueriesFor
  <1>2. \/ UNCHANGED <<node, dns, replies>>
        \/ /\ m.addr # Unsolved /\ S # {}
           /\ dns' = [dns EXCEPT ![n] = Dequeued(@, i)]
           /\ replies' = replies \cup {Response(dns[n][i], m)} /\ UNCHANGED node
        \/ S = {} /\ up' = up \ {n} /\ UNCHANGED <<dns, replies>>
    BY Zenon DEF ProcessSolve
  <1> HIDE DEF i
  <1> QED BY <1>1, <1>2

LEMMA InitIdInv == Init => IdInv
  BY InitType DEF Init, IdInv, IdsAreOld, WaitsOnce, RepliedOnce, Range

LEMMA StepIdInv == IdInv /\ [Next]_vars => IdInv'
  <1> SUFFICES ASSUME IdInv, [Next]_vars PROVE IdInv'
    OBVIOUS
  <1>t. TypeInvariant /\ TypeInvariant'
    BY StepType DEF IdInv
  <1>n. ASSUME UNCHANGED <<dns, replies, queries>> PROVE IdInv'
    BY <1>t, <1>n, ShorterKeepsIds DEF Shorter
  <1>c. ASSUME NEW n \in Node, dns' = [dns EXCEPT ![n] = <<>>], UNCHANGED <<replies, queries>>
        PROVE  IdInv'
    <2>1. \A k \in Node : Shorter(k)
      BY <1>t, <1>c DEF Shorter, TypeInvariant
    <2> QED BY <1>t, <1>c, <2>1, ShorterKeepsIds
  <1>1. ASSUME NEW n \in Node, TimerRv(n) PROVE IdInv'
    BY <1>1, <1>n DEF TimerRv
  <1>2. ASSUME NEW n \in Node, NEW m \in net, ProcessReg(n, m) PROVE IdInv'
    BY <1>2, <1>n DEF ProcessReg
  <1>3. ASSUME NEW n \in Node, NEW m \in net, AnswerRvQuery(n, m) PROVE IdInv'
    BY <1>3, <1>n DEF AnswerRvQuery, code
  <1>4. ASSUME NEW n \in Node, NEW m \in net, ProcessSolve(n, m) PROVE IdInv'
    <2>1. queries' = queries
      BY <1>4 DEF ProcessSolve
    <2> QED BY <1>t, <1>n, <1>4, <2>1, SolveCases, AnsweredLeaves
  <1>5. ASSUME NEW q \in Ask, AskDns(q[1], q[2]) PROVE IdInv'
    BY <1>t, <1>5, AskedIsNew
  <1>6. ASSUME NEW m \in net, Lose(m) PROVE IdInv'
    BY <1>6, <1>n DEF Lose, code
  <1>7. ASSUME NEW n \in Node, NEW a \in Address, NEW S \in SUBSET Server, Boot(n, a, S)
        PROVE  IdInv'
    BY <1>7, <1>c DEF Boot
  <1>8. ASSUME NEW n \in Node, Stop(n) PROVE IdInv'
    BY <1>8, <1>n DEF Stop, Change, code
  <1>9. ASSUME NEW n \in Node, NEW a \in Address, DeleteNeighbor(n, a) PROVE IdInv'
    BY <1>9, <1>n DEF DeleteNeighbor, Change
  <1>10. ASSUME NEW n \in Node, NEW S \in SUBSET Server, Reassign(n, S) PROVE IdInv'
    BY <1>10, <1>n DEF Reassign, Change, code
  <1>11. ASSUME NEW n \in Node, NEW a \in Address, NEW S \in SUBSET Server, Reconfigure(n, a, S)
         PROVE  IdInv'
    BY <1>11, <1>c DEF Reconfigure, Change
  <1>12. ASSUME NEW n \in Node, Reconfigured(n) PROVE IdInv'
    BY <1>12, <1>n DEF Reconfigured
  <1>13. ASSUME NEW n \in Node, StartMerge(n) PROVE IdInv'
    BY <1>13, <1>n DEF StartMerge, Change, code
  <1>14. ASSUME NEW n \in Node, EndMerge(n) PROVE IdInv'
    BY <1>14, <1>n DEF EndMerge, code
  <1>15. CASE UNCHANGED vars
    BY <1>15, <1>n DEF vars, code
  <1> QED BY <1>1, <1>2, <1>3, <1>4, <1>5, <1>6, <1>7, <1>8, <1>9, <1>10, <1>11, <1>12, <1>13,
             <1>14, <1>15 DEF Next

(***************************************************************************)
(* dns_message_t and dequeue_dns_query: a query is answered at most once,  *)
(* although the answer that comes may be the one to another query for the  *)
(* same name, late, or lost.                                               *)
(***************************************************************************)
THEOREM EachRepliedOnce == Spec => []RepliedOnce
  <1>1. IdInv => RepliedOnce
    BY DEF IdInv
  <1> QED BY <1>1, InitIdInv, StepIdInv, PTL DEF Spec

-----------------------------------------------------------------------------
\* Two sets that both get an element, of which the second did not have it.
LEMMA OneMoreEach ==
  ASSUME NEW U, NEW V, NEW W, NEW X, NEW d, IsFiniteSet(U), IsFiniteSet(W), IsFiniteSet(X),
         V \subseteq U \cup {d}, W \cup {d} \subseteq X, d \notin W, Cardinality(U) <= Cardinality(W)
  PROVE  Cardinality(V) <= Cardinality(X)
  <1>1. IsFiniteSet(U \cup {d}) /\ Cardinality(U \cup {d}) <= Cardinality(U) + 1
    <2>1. Cardinality(U) \in Nat
      BY FS_CardinalityType
    <2>2. IsFiniteSet(U \cup {d}) /\ Cardinality(U \cup {d})
            = IF d \in U THEN Cardinality(U) ELSE Cardinality(U) + 1
      BY FS_AddElement
    <2> QED BY <2>1, <2>2
  <1>2. Cardinality(W \cup {d}) = Cardinality(W) + 1
    BY FS_AddElement
  <1>3. Cardinality(V) <= Cardinality(U \cup {d}) /\ Cardinality(V) \in Nat
    BY <1>1, FS_Subset, FS_CardinalityType
  <1>4. Cardinality(W \cup {d}) <= Cardinality(X)
    BY FS_Subset
  <1>5. Cardinality(U) \in Nat /\ Cardinality(W) \in Nat /\ Cardinality(X) \in Nat
        /\ Cardinality(U \cup {d}) \in Nat
    BY <1>1, FS_CardinalityType
  <1> QED BY <1>1, <1>2, <1>3, <1>4, <1>5

\* Two sets that both lose an element, the first one that it had.
LEMMA OneLessEach ==
  ASSUME NEW U, NEW V, NEW W, NEW X, NEW d \in U, NEW e \in W, IsFiniteSet(U), IsFiniteSet(W),
         IsFiniteSet(X), V \subseteq U \ {d}, W \ {e} \subseteq X, Cardinality(U) <= Cardinality(W)
  PROVE  Cardinality(V) <= Cardinality(X)
  <1>1. IsFiniteSet(U \ {d}) /\ Cardinality(U \ {d}) = Cardinality(U) - 1
    BY FS_RemoveElement
  <1>2. IsFiniteSet(W \ {e}) /\ Cardinality(W \ {e}) = Cardinality(W) - 1
    BY FS_RemoveElement
  <1>3. Cardinality(V) <= Cardinality(U \ {d}) /\ Cardinality(V) \in Nat
    BY <1>1, FS_Subset, FS_CardinalityType
  <1>4. Cardinality(W \ {e}) <= Cardinality(X)
    BY FS_Subset
  <1>5. Cardinality(U) \in Nat /\ Cardinality(W) \in Nat /\ Cardinality(X) \in Nat
    BY FS_CardinalityType
  <1> QED BY <1>1, <1>2, <1>3, <1>4, <1>5

\* A set that got no more elements and one that lost none.
LEMMA NoMoreNoLess ==
  ASSUME NEW U, NEW V, NEW W, NEW X, IsFiniteSet(U), IsFiniteSet(W), IsFiniteSet(X),
         V \subseteq U, W \subseteq X, Cardinality(U) <= Cardinality(W)
  PROVE  Cardinality(V) <= Cardinality(X)
  <1>1. Cardinality(V) <= Cardinality(U) /\ IsFiniteSet(V)
    BY FS_Subset
  <1>2. Cardinality(W) <= Cardinality(X)
    BY FS_Subset
  <1>3. Cardinality(U) \in Nat /\ Cardinality(W) \in Nat /\ Cardinality(X) \in Nat
        /\ Cardinality(V) \in Nat
    BY <1>1, FS_CardinalityType
  <1> QED BY <1>1, <1>2, <1>3

\* The queries for a name in a queue, and those under way, are finitely many.
LEMMA FiniteQueue ==
  ASSUME NEW d \in Seq(Query), NEW x
  PROVE  IsFiniteSet({d[i].id : i \in {j \in DOMAIN d : d[j].name = x}})
  <1>1. \A i \in DOMAIN d : d[i].id \in 1 .. MaxQueries
    <2>1. \A i \in DOMAIN d : d[i] \in Query
      OBVIOUS
    <2> QED BY <2>1 DEF Query
  <1>2. IsFiniteSet(1 .. MaxQueries)
    BY RendezvousAssumption, FS_Interval
  <1>3. {d[i].id : i \in {j \in DOMAIN d : d[j].name = x}} \subseteq 1 .. MaxQueries
    BY <1>1
  <1> QED BY <1>2, <1>3, FS_Subset

LEMMA FiniteIds ==
  ASSUME TypeInvariant, NEW n \in Node, NEW x
  PROVE  IsFiniteSet(UnderWay(n, x)) /\ IsFiniteSet(Waiting(n, x))
  <1>1. IsFiniteSet(1 .. MaxQueries)
    BY RendezvousAssumption, FS_Interval
  <1>2. UnderWay(n, x) \subseteq 1 .. MaxQueries
    <2>1. \A m \in Asking : m.id \in 1 .. MaxQueries
      BY MessageFields DEF Asking, TypeInvariant
    <2> QED BY <2>1 DEF UnderWay
  <1>3. dns[n] \in Seq(Query)
    BY DEF TypeInvariant
  <1>4. IsFiniteSet(Waiting(n, x))
    BY <1>3, FiniteQueue DEF Waiting
  <1> QED BY <1>1, <1>2, <1>4, FS_Subset

\* A packet of a query that n sent, and the queries for its name.
LEMMA InUnderWay ==
  ASSUME NEW n, NEW m \in Asking, ReturnAddr(m) = Addr0[n]
  PROVE  m.id \in UnderWay(n, m.name)
  BY DEF UnderWay

\* AInv, where it says something.
Counted == Unchanged /\ OnePacket /\ EnoughWait

\* A step that adds no packet of a query and takes no query away.
LEMMA QuietCounted ==
  ASSUME IdInv, TypeInvariant', Counted, Unchanged', Asking' \subseteq Asking,
         UNCHANGED <<dns, queries>>
  PROVE  Counted'
  <1>1. OnePacket'
    BY DEF Counted, OnePacket
  <1>2. ASSUME NEW n \in Node, NEW x \in Name
        PROVE  Cardinality(UnderWay(n, x)') <= Cardinality(Waiting(n, x)')
    <2>1. UnderWay(n, x)' \subseteq UnderWay(n, x) /\ Waiting(n, x)' = Waiting(n, x)
      BY DEF UnderWay, Waiting
    <2>2. IsFiniteSet(UnderWay(n, x)) /\ IsFiniteSet(Waiting(n, x))
      BY FiniteIds DEF IdInv
    <2>3. Cardinality(UnderWay(n, x)) <= Cardinality(Waiting(n, x))
      BY DEF Counted, EnoughWait
    <2> HIDE DEF UnderWay, Waiting
    <2> QED BY <2>1, <2>2, <2>3, NoMoreNoLess
  <1> QED BY <1>1, <1>2 DEF Counted, EnoughWait

\* A lookup becomes an answer to the same query, with the same way to go.
LEMMA AnswerCounted ==
  ASSUME IdInv, TypeInvariant', Counted, NEW n \in Node, NEW m \in net, AnswerRvQuery(n, m)
  PROVE  Counted'
  <1> DEFINE k == Solve(m, Found(rv_table[n], m.name))
  <1>1. m.type = "RV_ADDR_LOOKUP" /\ net' = (net \ {m}) \cup {k}
        /\ UNCHANGED <<up, flag, merging, prim_addr, dns, queries>>
    BY DEF AnswerRvQuery, node, code
  <1>2. k.type = "RV_ADDR_SOLVE" /\ k.id = m.id /\ k.name = m.name /\ ReturnAddr(k) = ReturnAddr(m)
    BY <1>1 DEF Solve, ReturnAddr
  <1> HIDE DEF k
  <1>3. m \in Asking /\ Asking' = (Asking \ {m}) \cup {k}
    BY <1>1, <1>2 DEF Asking
  <1>4. OnePacket'
    BY <1>1, <1>2, <1>3 DEF Counted, OnePacket
  <1>5. ASSUME NEW h \in Node, NEW x \in Name
        PROVE  Cardinality(UnderWay(h, x)') <= Cardinality(Waiting(h, x)')
    <2>1. UnderWay(h, x)' \subseteq UnderWay(h, x) /\ Waiting(h, x)' = Waiting(h, x)
      BY <1>1, <1>2, <1>3 DEF UnderWay, Waiting
    <2>2. IsFiniteSet(UnderWay(h, x)) /\ IsFiniteSet(Waiting(h, x))
      BY FiniteIds DEF IdInv
    <2>3. Cardinality(UnderWay(h, x)) <= Cardinality(Waiting(h, x))
      BY DEF Counted, EnoughWait
    <2> HIDE DEF UnderWay, Waiting
    <2> QED BY <2>1, <2>2, <2>3, NoMoreNoLess
  <1> QED BY <1>1, <1>4, <1>5 DEF Counted, Unchanged, EnoughWait

\* A query and its lookup come together.
LEMMA AskCounted ==
  ASSUME \A a, b \in Node : Addr0[a] = Addr0[b] => a = b,
         IdInv, TypeInvariant', Counted, NEW q \in Ask, AskDns(q[1], q[2])
  PROVE  Counted'
  <1> DEFINE n == q[1]
             r == [name |-> q[2], id |-> queries + 1]
  <1>1. TypeInvariant /\ n \in Node /\ q[2] \in Name /\ dns[n] \in Seq(Query) /\ queries \in Nat
    BY RendezvousAssumption DEF IdInv, TypeInvariant
  <1>2. r \in Query /\ queries' = queries + 1
    <2>1. queries + 1 \in 1 .. MaxQueries
      BY <1>1, RendezvousAssumption DEF AskDns, TypeInvariant
    <2> QED BY <1>1, <2>1 DEF AskDns, Query
  <1>3. dns'[n] = Append(dns[n], r) /\ \A k \in Node \ {n} : dns'[k] = dns[k]
    BY <1>1 DEF AskDns, TypeInvariant
  <1>4. Own(n) = Addr0[n]
    BY DEF Own, Counted, Unchanged
  <1>5. PICK s \in ServersOf(q[2]) : net' = net \cup {Lookup(r, Addr0[n], s)}
    BY <1>4 DEF AskDns
  <1> DEFINE l == Lookup(r, Addr0[n], s)
  <1>6. l.type = "RV_ADDR_LOOKUP" /\ l.name = q[2] /\ l.id = queries + 1 /\ ReturnAddr(l) = Addr0[n]
    BY DEF Lookup, ReturnAddr
  <1>7. r.name = q[2] /\ r.id = queries + 1
    OBVIOUS
  <1> HIDE DEF l, r
  <1>8. Asking' = Asking \cup {l}
    BY <1>5, <1>6 DEF Asking, l
  <1>9. \A m \in Asking : m.id \in Nat /\ m.id <= queries
    BY <1>1, MessageFields, RendezvousAssumption DEF Counted, OnePacket, Asking, TypeInvariant
  <1>10. OnePacket'
    BY <1>1, <1>2, <1>6, <1>8, <1>9 DEF Counted, OnePacket
  <1>11. ASSUME NEW h \in Node, NEW x \in Name
         PROVE  Cardinality(UnderWay(h, x)') <= Cardinality(Waiting(h, x)')
    <2>1. /\ IsFiniteSet(UnderWay(h, x)) /\ IsFiniteSet(Waiting(h, x)) /\ IsFiniteSet(Waiting(h, x)')
          /\ Cardinality(UnderWay(h, x)) <= Cardinality(Waiting(h, x))
      <3>1. IsFiniteSet(Waiting(h, x)')
        <4>1. dns'[h] \in Seq(Query)
          BY DEF TypeInvariant
        <4> QED BY <4>1, FiniteQueue DEF Waiting
      <3> QED BY <1>1, <3>1, FiniteIds DEF Counted, EnoughWait
    <2>2. \A i \in DOMAIN dns[h] : i \in DOMAIN dns'[h] /\ dns'[h][i] = dns[h][i]
      <3>1. CASE h = n
        <4> DEFINE d == dns[n]
                   e == dns'[n]
        <4>1. d \in Seq(Query) /\ e = Append(d, r)
          BY <1>1, <1>3
        <4> HIDE DEF d, e
        <4>2. \A i \in DOMAIN d : i \in DOMAIN e /\ e[i] = d[i]
          BY <1>2, <4>1, AppendFacts
        <4> QED BY <3>1, <4>2 DEF d, e
      <3>2. CASE h # n
        BY <1>3, <3>2
      <3> QED BY <3>1, <3>2
    <2>3. Waiting(h, x) \subseteq Waiting(h, x)'
      BY <2>2 DEF Waiting
    <2>4. CASE h = n /\ x = q[2]
      <3>1. UnderWay(h, x)' \subseteq UnderWay(h, x) \cup {queries + 1}
        BY <1>6, <1>8 DEF UnderWay
      <3>2. queries + 1 \in Waiting(h, x)'
        <4>1. Len(dns[n]) + 1 \in DOMAIN dns'[n] /\ dns'[n][Len(dns[n]) + 1] = r
          BY <1>1, <1>2, <1>3
        <4> QED BY <1>7, <2>4, <4>1 DEF Waiting
      <3>3. queries + 1 \notin Waiting(h, x)
        <4>1. \A i \in DOMAIN dns[h] : dns[h][i].id \in Nat /\ dns[h][i].id <= queries
          BY <1>1, QueryFields DEF IdInv, IdsAreOld
        <4> QED BY <1>1, <4>1 DEF Waiting
      <3> QED BY <2>1, <2>3, <3>1, <3>2, <3>3, OneMoreEach
    <2>5. CASE ~ (h = n /\ x = q[2])
      <3>1. ReturnAddr(l) # Addr0[h] \/ l.name # x
        BY <1>1, <1>6, <2>5
      <3>2. UnderWay(h, x)' \subseteq UnderWay(h, x)
        BY <1>8, <3>1 DEF UnderWay
      <3> QED BY <2>1, <2>3, <3>2, NoMoreNoLess
    <2> QED BY <2>4, <2>5
  <1>12. Unchanged'
    BY DEF AskDns, node, Counted, Unchanged
  <1> QED BY <1>10, <1>11, <1>12 DEF Counted, EnoughWait

\* An answer takes with it one query for its name: there is one, by the count.
LEMMA SolveCounted ==
  ASSUME IdInv, TypeInvariant', Counted, NEW n \in Node, NEW m \in net, ProcessSolve(n, m)
  PROVE  Counted'
  <1>1. TypeInvariant /\ m.type = "RV_ADDR_SOLVE" /\ net' = net \ {m} /\ m.to = Own(n)
        /\ queries' = queries
    BY DEF ProcessSolve, IdInv
  <1>2. m \in Asking /\ ReturnAddr(m) = Addr0[n] /\ m.name \in Name
    BY <1>1, MessageFields DEF Own, Counted, Unchanged, Asking, ReturnAddr, TypeInvariant
  <1>3. Asking' = Asking \ {m}
    BY <1>1, <1>2 DEF Asking
  <1>4. m.id \in UnderWay(n, m.name)
    BY <1>2, InUnderWay
  <1>5. CASE UNCHANGED <<node, dns, replies>>
    <2>1. Unchanged'
      BY <1>5 DEF node, Counted, Unchanged
    <2> QED BY <1>1, <1>3, <1>5, <2>1, QuietCounted
  <1>6. ASSUME NEW i \in DOMAIN dns[n], dns[n][i].name = m.name,
               dns' = [dns EXCEPT ![n] = Dequeued(@, i)], UNCHANGED node
        PROVE  Counted'
    <2>1. Unchanged'
      BY <1>6 DEF node, Counted, Unchanged
    <2>2. OnePacket'
      BY <1>1, <1>3 DEF Counted, OnePacket
    <2>3. ASSUME NEW h \in Node, NEW x \in Name
          PROVE  Cardinality(UnderWay(h, x)') <= Cardinality(Waiting(h, x)')
      <3>1. /\ IsFiniteSet(UnderWay(h, x)) /\ IsFiniteSet(Waiting(h, x)) /\ IsFiniteSet(Waiting(h, x)')
            /\ Cardinality(UnderWay(h, x)) <= Cardinality(Waiting(h, x))
        <4>1. dns'[h] \in Seq(Query)
          BY DEF TypeInvariant
        <4>2. IsFiniteSet(Waiting(h, x)')
          BY <4>1, FiniteQueue DEF Waiting
        <4> QED BY <1>1, <4>2, FiniteIds DEF Counted, EnoughWait
      <3>2. \A j \in DOMAIN dns[h] : <<h, j>> # <<n, i>> =>
              \E k \in DOMAIN dns'[h] : dns'[h][k] = dns[h][j]
        <4>1. CASE h = n
          <5> DEFINE d == dns[n]
                     e == dns'[n]
          <5>1. d \in Seq(Query) /\ i \in DOMAIN d /\ e = RemoveAt(d, i)
            BY <1>1, <1>6 DEF TypeInvariant, Dequeued
          <5> HIDE DEF d, e
          <5>2. \A j \in DOMAIN d \ {i} : \E k \in DOMAIN e : e[k] = d[j]
            BY <5>1, RemoveAtKeeps
          <5> QED BY <4>1, <5>2 DEF d, e
        <4>2. CASE h # n
          BY <1>1, <1>6, <4>2 DEF TypeInvariant
        <4> QED BY <4>1, <4>2
      <3>3. UnderWay(h, x)' \subseteq UnderWay(h, x)
        BY <1>3 DEF UnderWay
      <3>4. CASE h = n /\ x = m.name
        <4>1. UnderWay(h, x)' \subseteq UnderWay(h, x) \ {m.id}
          <5>1. \A k \in Asking \ {m} : k.id # m.id
            BY <1>2 DEF Counted, OnePacket
          <5> QED BY <1>3, <5>1 DEF UnderWay
        <4>2. dns[n][i].id \in Waiting(h, x)
          BY <1>6, <3>4 DEF Waiting
        <4>3. Waiting(h, x) \ {dns[n][i].id} \subseteq Waiting(h, x)'
          BY <3>2, <3>4 DEF Waiting
        <4> QED BY <1>4, <3>1, <3>4, <4>1, <4>2, <4>3, OneLessEach
      <3>5. CASE ~ (h = n /\ x = m.name)
        <4>1. Waiting(h, x) \subseteq Waiting(h, x)'
          BY <1>6, <3>2, <3>5 DEF Waiting
        <4> QED BY <3>1, <3>3, <4>1, NoMoreNoLess
      <3> QED BY <3>4, <3>5
    <2> QED BY <2>1, <2>2, <2>3 DEF Counted, EnoughWait
  <1>7. QueriesFor(dns[n], m) # {}
    <2> SUFFICES ASSUME QueriesFor(dns[n], m) = {} PROVE FALSE
      OBVIOUS
    <2>1. Waiting(n, m.name) = {}
      BY DEF QueriesFor, Waiting
    <2>2. Cardinality(UnderWay(n, m.name)) <= 0
      BY <1>2, <2>1, FS_EmptySet DEF Counted, EnoughWait
    <2>3. IsFiniteSet(UnderWay(n, m.name))
      BY <1>1, FiniteIds
    <2>4. Cardinality(UnderWay(n, m.name)) \in Nat
      BY <2>3, FS_CardinalityType
    <2>5. Cardinality(UnderWay(n, m.name)) = 0
      BY <2>2, <2>4
    <2> QED BY <1>4, <2>3, <2>5, FS_EmptySet
  <1> QED BY <1>1, <1>5, <1>6, <1>7, SolveCases

LEMMA InitAInv == Init => AInv
  <1> SUFFICES ASSUME Init PROVE AInv
    OBVIOUS
  <1>1. IdInv
    BY InitIdInv
  <1>2. Asking = {}
    BY DEF Init, Asking
  <1>3. ASSUME NEW n \in Node, NEW x \in Name
        PROVE  Cardinality(UnderWay(n, x)) <= Cardinality(Waiting(n, x))
    <2>1. UnderWay(n, x) = {} /\ Waiting(n, x) = {}
      BY <1>2 DEF Init, UnderWay, Waiting
    <2> QED BY <2>1, FS_EmptySet
  <1> QED BY <1>1, <1>2, <1>3 DEF Init, AInv, Unchanged, OnePacket, EnoughWait

LEMMA StepAInv ==
  ASSUME \A a, b \in Node : Addr0[a] = Addr0[b] => a = b
  PROVE  AInv /\ [Next]_vars => AInv'
  <1> SUFFICES ASSUME AInv, [Next]_vars PROVE AInv'
    OBVIOUS
  <1>t. TypeInvariant /\ TypeInvariant' /\ IdInv /\ IdInv'
    BY StepIdInv DEF AInv, IdInv
  <1> SUFFICES ASSUME changes' = 0 PROVE Counted'
    BY <1>t DEF AInv, Counted
  <1>c. changes \in Nat /\ changes' \in Nat
    BY <1>t DEF TypeInvariant
  <1>d. ~ Change
    BY <1>c DEF Change
  <1>0. ASSUME changes' = changes PROVE Counted
    BY <1>0 DEF AInv, Counted
  <1>n. ASSUME UNCHANGED <<up, flag, merging, prim_addr, dns, queries, changes>>,
               \A m \in net' : m \in net \/ m.type = "RV_REG"
        PROVE  Counted'
    <2>1. Counted
      BY <1>0, <1>n
    <2>2. Unchanged' /\ Asking' \subseteq Asking
      BY <1>n, <2>1 DEF Counted, Unchanged, Asking
    <2> QED BY <1>t, <1>n, <2>1, <2>2, QuietCounted
  <1>1. ASSUME NEW n \in Node, TimerRv(n) PROVE Counted'
    <2>1. UNCHANGED <<up, flag, merging, prim_addr, dns, queries, changes>>
      BY <1>1 DEF TimerRv, node
    <2>2. n \notin flag => n \notin merging
      BY <1>t DEF TypeInvariant
    <2>3. \A m \in net' : m \in net \/ m.type = "RV_REG"
      BY <1>t, <1>1, <2>2, RegistrationsFacts DEF TimerRv, RegisterRv
    <2> QED BY <1>n, <2>1, <2>3
  <1>2. ASSUME NEW n \in Node, NEW m \in net, ProcessReg(n, m) PROVE Counted'
    BY <1>2, <1>n DEF ProcessReg, node
  <1>3. ASSUME NEW n \in Node, NEW m \in net, AnswerRvQuery(n, m) PROVE Counted'
    BY <1>t, <1>0, <1>3, AnswerCounted DEF AnswerRvQuery
  <1>4. ASSUME NEW n \in Node, NEW m \in net, ProcessSolve(n, m) PROVE Counted'
    BY <1>t, <1>0, <1>4, SolveCounted DEF ProcessSolve
  <1>5. ASSUME NEW q \in Ask, AskDns(q[1], q[2]) PROVE Counted'
    BY <1>t, <1>0, <1>5, AskCounted DEF AskDns
  <1>6. ASSUME NEW m \in net, Lose(m) PROVE Counted'
    BY <1>6, <1>n DEF Lose, node, code
  <1>7. ASSUME NEW n \in Node, NEW a \in Address, NEW S \in SUBSET Server, Boot(n, a, S)
        PROVE  Counted'
    BY <1>0, <1>7 DEF Boot, Counted, Unchanged
  <1>8. ASSUME NEW n \in Node, Stop(n) PROVE Counted'
    BY <1>d, <1>8 DEF Stop
  <1>9. ASSUME NEW n \in Node, NEW a \in Address, DeleteNeighbor(n, a) PROVE Counted'
    BY <1>d, <1>9 DEF DeleteNeighbor
  <1>10. ASSUME NEW n \in Node, NEW S \in SUBSET Server, Reassign(n, S) PROVE Counted'
    BY <1>d, <1>10 DEF Reassign
  <1>11. ASSUME NEW n \in Node, NEW a \in Address, NEW S \in SUBSET Server, Reconfigure(n, a, S)
         PROVE  Counted'
    BY <1>d, <1>11 DEF Reconfigure
  <1>12. ASSUME NEW n \in Node, Reconfigured(n) PROVE Counted'
    BY <1>0, <1>12 DEF Reconfigured, Counted, Unchanged
  <1>13. ASSUME NEW n \in Node, StartMerge(n) PROVE Counted'
    BY <1>d, <1>13 DEF StartMerge
  <1>14. ASSUME NEW n \in Node, EndMerge(n) PROVE Counted'
    BY <1>0, <1>14 DEF EndMerge, Counted, Unchanged
  <1>15. CASE UNCHANGED vars
    BY <1>15, <1>n DEF vars, node, code
  <1> QED BY <1>1, <1>2, <1>3, <1>4, <1>5, <1>6, <1>7, <1>8, <1>9, <1>10, <1>11, <1>12, <1>13,
             <1>14, <1>15 DEF Next

(***************************************************************************)
(* dequeue_dns_query returns null where no query waits, and the caller     *)
(* reads through it.  As long as no node changes its address this cannot   *)
(* happen, however many queries for the same name are under way, and       *)
(* although an answer takes the first query for its name and not its own.  *)
(* The nodes start with different addresses.                               *)
(***************************************************************************)
THEOREM AnswersFindTheirQueries ==
  ASSUME \A a, b \in Node : Addr0[a] = Addr0[b] => a = b
  PROVE  Spec => []AnswersFindQueries
  <1>1. AInv => AnswersFindQueries
    BY DEF AInv, Unchanged, AnswersFindQueries
  <1> QED BY <1>1, InitAInv, StepAInv, PTL DEF Spec
=============================================================================
