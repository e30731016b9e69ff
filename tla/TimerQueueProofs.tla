-------------------------- MODULE TimerQueueProofs --------------------------
(***************************************************************************)
(* The pointers of the timer queue are lists, for any number of timers and *)
(* any durations: a chain of m different timers begins at a pointer and    *)
(* ends with Null.  From that follow the soundness of the lists, the bound *)
(* on the lateness of a timer, and that the queue implements Alarms.       *)
(***************************************************************************)
EXTENDS TimerQueue, ListLemmas, FiniteSetTheorems, FunctionTheorems, TLAPS

\* The pointer to the i-th node of a list of m.
Elem(q, m, i) == IF i \in 1 .. m THEN q[i] ELSE Null

\* A row of m different timers.
Row(q, m) ==
  /\ m \in Nat /\ q \in [1 .. m -> Timer]
  /\ \A i \in 1 .. m, j \in 1 .. m : q[i] = q[j] => i = j

\* The pointers from head on run along the row.
Chain(q, m, head, nxt) ==
  /\ Row(q, m)
  /\ head = Elem(q, m, 1)
  /\ \A i \in 1 .. m : nxt[q[i]] = Elem(q, m, i + 1)

Members(q, m) == {q[i] : i \in 1 .. m}

Sorted(q, m, due) == \A i \in 1 .. m, j \in 1 .. m : i <= j => due[q[i]] <= due[q[j]]

Pointers == [Timer -> Timer \cup {Null}]

Dues == [Timer -> Int]

-----------------------------------------------------------------------------
\* A chain is not longer than there are timers.
LEMMA TimersCounted == N \in Nat /\ IsFiniteSet(Timer)
  BY TimerAssumption, FS_CardinalityType DEF N

LEMMA ChainShort ==
  ASSUME NEW q, NEW m, NEW head, NEW nxt, Chain(q, m, head, nxt)
  PROVE  m \in Nat /\ m <= N
  <1>1. m \in Nat /\ q \in [1 .. m -> Timer]
        /\ \A i \in 1 .. m, j \in 1 .. m : q[i] = q[j] => i = j
    BY DEF Chain, Row
  <1>2. q \in Injection(1 .. m, Timer)
    BY <1>1, Fun_IsInj
  <1>3. Cardinality(1 .. m) <= Cardinality(Timer)
    BY <1>2, TimersCounted, FS_Injection
  <1>4. Cardinality(1 .. m) = m
    <2>1. 1 \in Int /\ m \in Int
      BY <1>1
    <2>2. Cardinality(1 .. m) = IF 1 > m THEN 0 ELSE m - 1 + 1
      BY <2>1, FS_Interval
    <2> QED BY <1>1, <2>2
  <1> QED BY <1>1, <1>3, <1>4 DEF N

\* The nodes that a walk along the pointers finds.
LEMMA ChainNodes ==
  ASSUME NEW q, NEW m, NEW head, NEW nxt, Chain(q, m, head, nxt)
  PROVE  \A i \in 1 .. N + 1 : Nodes(head, nxt)[i] = Elem(q, m, i)
  <1> DEFINE Walk(f) == f = [i \in 1 .. N + 1 |->
                 IF i = 1 THEN head
                 ELSE IF f[i-1] = Null THEN Null ELSE nxt[f[i-1]]]
             node == CHOOSE f : Walk(f)
             g == [i \in 1 .. N + 1 |-> Elem(q, m, i)]
  <1>1. m \in Nat /\ m <= N /\ N \in Nat
    BY ChainShort, TimersCounted
  <1>2. /\ head = Elem(q, m, 1)
        /\ \A i \in 1 .. m : nxt[q[i]] = Elem(q, m, i + 1) /\ q[i] \in Timer
    BY DEF Chain, Row
  <1>3. ASSUME NEW i \in 1 .. N + 1, i # 1
        PROVE  /\ i - 1 \in 1 .. N + 1 /\ i - 1 \in 0 .. N
               /\ Elem(q, m, i) = IF Elem(q, m, i - 1) = Null THEN Null
                                  ELSE nxt[Elem(q, m, i - 1)]
    <2>1. i - 1 \in 1 .. N + 1 /\ i - 1 \in 0 .. N /\ i - 1 + 1 = i
      BY <1>1, <1>3
    <2>2. CASE i - 1 \in 1 .. m
      <3>1. Elem(q, m, i - 1) = q[i - 1] /\ q[i - 1] # Null
        BY <1>2, <2>2, TimerAssumption DEF Elem
      <3>2. nxt[q[i - 1]] = Elem(q, m, i)
        BY <1>2, <2>1, <2>2
      <3> QED BY <2>1, <3>1, <3>2
    <2>3. CASE i - 1 \notin 1 .. m
      <3>1. i \notin 1 .. m
        BY <1>1, <2>1, <2>3
      <3> QED BY <2>1, <2>3, <3>1 DEF Elem
    <2> QED BY <2>2, <2>3
  <1>4. \E f : Walk(f)
    <2>1. \A i \in 1 .. N + 1 :
            g[i] = IF i = 1 THEN head ELSE IF g[i-1] = Null THEN Null ELSE nxt[g[i-1]]
      BY <1>2, <1>3
    <2>2. Walk(g)
      BY <2>1
    <2> QED BY <2>2
  <1>5. Walk(node)
    BY <1>4
  <1>6. Nodes(head, nxt) = node
    BY DEF Nodes
  <1> HIDE DEF node
  <1>7. \A i \in 1 .. N + 1 :
          node[i] = IF i = 1 THEN head ELSE IF node[i-1] = Null THEN Null ELSE nxt[node[i-1]]
    BY <1>5
  <1> DEFINE Same(i) == node[i] = Elem(q, m, i)
             I == {i \in 0 .. N : Same(i + 1)}
  <1>8. 0 \in I
    BY <1>1, <1>2, <1>7
  <1>9. ASSUME NEW i \in 1 .. N, i - 1 \in I PROVE i \in I
    <2>1. i + 1 \in 1 .. N + 1 /\ i + 1 # 1 /\ i + 1 - 1 = i /\ i - 1 + 1 = i /\ i \in 0 .. N
      BY <1>1
    <2>2. node[i] = Elem(q, m, i)
      BY <1>9, <2>1
    <2>3. node[i + 1] = Elem(q, m, i + 1)
      <3> DEFINE k == i + 1
      <3>1. k \in 1 .. N + 1 /\ k # 1 /\ k - 1 = i
        BY <2>1
      <3> HIDE DEF k
      <3>2. node[k] = IF node[k - 1] = Null THEN Null ELSE nxt[node[k - 1]]
        BY <1>7, <3>1
      <3>3. Elem(q, m, k) = IF Elem(q, m, k - 1) = Null THEN Null ELSE nxt[Elem(q, m, k - 1)]
        BY <1>3, <3>1
      <3>4. node[k] = Elem(q, m, k)
        BY <2>2, <3>1, <3>2, <3>3
      <3> QED BY <3>4 DEF k
    <2> QED BY <2>1, <2>3
  <1>10. \A k \in 0 .. N : k \in I
    <2> SUFFICES ASSUME NEW k \in 0 .. N PROVE k \in I
      OBVIOUS
    <2> DEFINE J == I \cap 0 .. k
    <2>1. k \in Nat /\ J \subseteq 0 .. k
      BY <1>1
    <2>2. 0 \in J
      BY <1>8, <2>1
    <2>3. \A i \in 1 .. k : i - 1 \in J => i \in J
      <3>1. \A i \in 1 .. k : i \in 1 .. N
        BY <1>1
      <3> HIDE DEF I
      <3> QED BY <1>9, <2>1, <3>1
    <2>4. k \in J
      <3> HIDE DEF J
      <3> QED BY <2>1, <2>2, <2>3, LoopInvariant
    <2> QED BY <2>4
  <1>11. ASSUME NEW i \in 1 .. N + 1 PROVE node[i] = Elem(q, m, i)
    <2>1. i - 1 \in 0 .. N /\ i - 1 + 1 = i
      BY <1>1
    <2> QED BY <1>10, <2>1
  <1> QED BY <1>6, <1>11

LEMMA ChainOnList ==
  ASSUME NEW q, NEW m, NEW head, NEW nxt, Chain(q, m, head, nxt)
  PROVE  OnList(head, nxt) = Members(q, m) /\ Nodes(head, nxt)[N + 1] = Null
  <1> DEFINE node == Nodes(head, nxt)
  <1>1. m \in Nat /\ m <= N /\ N \in Nat
    BY ChainShort, TimersCounted
  <1>2. \A i \in 1 .. N + 1 : node[i] = Elem(q, m, i)
    BY ChainNodes
  <1>3. OnList(head, nxt) = {node[i] : i \in 1 .. N + 1} \ {Null}
    BY DEF OnList
  <1> HIDE DEF node
  <1>4. node[N + 1] = Null
    <2>1. N + 1 \in 1 .. N + 1 /\ N + 1 \notin 1 .. m
      BY <1>1
    <2> QED BY <1>2, <2>1 DEF Elem
  <1>5. \A i \in 1 .. m : i \in 1 .. N + 1 /\ q[i] # Null /\ q[i] \in Timer
    BY <1>1, TimerAssumption DEF Chain, Row
  <1>6. \A x : x \in OnList(head, nxt) <=> x \in Members(q, m)
    BY <1>2, <1>3, <1>5 DEF Elem, Members
  <1> QED BY <1>4, <1>6 DEF node

-----------------------------------------------------------------------------
\* A chain with one more node before position a.
Inserted(q, m, a, t) ==
  [i \in 1 .. m + 1 |-> IF i < a THEN q[i] ELSE IF i = a THEN t ELSE q[i - 1]]

LEMMA InsertedFacts ==
  ASSUME NEW q, NEW m, Row(q, m), NEW t, t \in Timer, t \notin Members(q, m),
         NEW a, a \in Int, 1 <= a, a <= m + 1
  PROVE  /\ Row(Inserted(q, m, a, t), m + 1)
         /\ \A i \in 1 .. m + 1 : i < a => i \in 1 .. m /\ Inserted(q, m, a, t)[i] = q[i]
         /\ \A i \in 1 .. m + 1 :
              i > a => i - 1 \in 1 .. m /\ Inserted(q, m, a, t)[i] = q[i - 1]
         /\ Inserted(q, m, a, t)[a] = t
         /\ Members(Inserted(q, m, a, t), m + 1) = Members(q, m) \cup {t}
  <1> DEFINE p == Inserted(q, m, a, t)
  <1>0. /\ m \in Nat /\ q \in [1 .. m -> Timer]
        /\ \A i \in 1 .. m, j \in 1 .. m : q[i] = q[j] => i = j
    BY DEF Row
  <1>1. \A i \in 1 .. m + 1 : i < a \/ i = a \/ i > a
    BY <1>0
  <1>2. ASSUME NEW i \in 1 .. m + 1, i < a PROVE i \in 1 .. m /\ p[i] = q[i]
    BY <1>0, <1>2 DEF Inserted
  <1>3. ASSUME NEW i \in 1 .. m + 1, i > a PROVE i - 1 \in 1 .. m /\ p[i] = q[i - 1]
    BY <1>0, <1>3 DEF Inserted
  <1>4. a \in 1 .. m + 1 /\ p[a] = t
    BY <1>0 DEF Inserted
  <1>5. p = [i \in 1 .. m + 1 |-> p[i]]
    BY <1>0 DEF Inserted
  <1> HIDE DEF p
  <1>6. \A i \in 1 .. m : q[i] \in Timer /\ q[i] # t
    BY <1>0 DEF Members
  <1>7. \A i \in 1 .. m + 1 : p[i] \in Timer
    BY <1>0, <1>1, <1>2, <1>3, <1>4, <1>6
  <1>8. p \in [1 .. m + 1 -> Timer]
    BY <1>0, <1>5, <1>7
  <1>9. ASSUME NEW i \in 1 .. m + 1, NEW j \in 1 .. m + 1, p[i] = p[j] PROVE i = j
    <2>1. CASE i < a
      <3>1. i \in 1 .. m /\ p[i] = q[i]
        BY <1>0, <1>2, <2>1
      <3>2. CASE j < a
        BY <1>0, <1>2, <1>9, <3>1, <3>2
      <3>3. CASE j = a
        BY <1>0, <1>4, <1>6, <1>9, <3>1, <3>3
      <3>4. CASE j > a
        <4>1. j - 1 \in 1 .. m /\ p[j] = q[j - 1]
          BY <1>0, <1>3, <3>4
        <4>2. i = j - 1
          BY <1>0, <1>9, <3>1, <4>1
        <4> QED BY <1>0, <2>1, <3>4, <4>2
      <3> QED BY <1>0, <1>1, <3>2, <3>3, <3>4
    <2>2. CASE i = a
      <3>1. CASE j < a
        BY <1>0, <1>2, <1>4, <1>6, <1>9, <2>2, <3>1
      <3>2. CASE j > a
        BY <1>0, <1>3, <1>4, <1>6, <1>9, <2>2, <3>2
      <3> QED BY <1>0, <1>1, <2>2, <3>1, <3>2
    <2>3. CASE i > a
      <3>1. i - 1 \in 1 .. m /\ p[i] = q[i - 1]
        BY <1>0, <1>3, <2>3
      <3>2. CASE j < a
        <4>1. j \in 1 .. m /\ p[j] = q[j]
          BY <1>0, <1>2, <3>2
        <4>2. j = i - 1
          BY <1>0, <1>9, <3>1, <4>1
        <4> QED BY <1>0, <2>3, <3>2, <4>2
      <3>3. CASE j = a
        BY <1>0, <1>4, <1>6, <1>9, <3>1, <3>3
      <3>4. CASE j > a
        <4>1. j - 1 \in 1 .. m /\ p[j] = q[j - 1]
          BY <1>0, <1>3, <3>4
        <4>2. i - 1 = j - 1
          BY <1>0, <1>9, <3>1, <4>1
        <4> QED BY <1>0, <4>2
      <3> QED BY <1>0, <1>1, <3>2, <3>3, <3>4
    <2> QED BY <1>0, <1>1, <2>1, <2>2, <2>3
  <1>10. ASSUME NEW x PROVE x \in Members(p, m + 1) <=> x \in Members(q, m) \cup {t}
    <2>1. ASSUME NEW i \in 1 .. m + 1 PROVE p[i] \in Members(q, m) \cup {t}
      BY <1>0, <1>1, <1>2, <1>3, <1>4 DEF Members
    <2>2. ASSUME NEW i \in 1 .. m PROVE q[i] \in Members(p, m + 1)
      <3>1. CASE i < a
        BY <1>0, <1>2, <3>1 DEF Members
      <3>2. CASE ~ (i < a)
        <4>1. i + 1 \in 1 .. m + 1 /\ i + 1 > a /\ i + 1 - 1 = i
          BY <1>0, <3>2
        <4>2. p[i + 1] = q[i]
          BY <1>0, <1>3, <4>1
        <4> QED BY <1>0, <4>1, <4>2 DEF Members
      <3> QED BY <1>0, <3>1, <3>2
    <2>3. t \in Members(p, m + 1)
      BY <1>0, <1>4 DEF Members
    <2> QED BY <1>0, <2>1, <2>2, <2>3 DEF Members
  <1>11. Row(p, m + 1)
    BY <1>0, <1>8, <1>9 DEF Row
  <1> QED BY <1>2, <1>3, <1>4, <1>10, <1>11 DEF p

\* timer_add_msec puts the timer before the first one that is due later.
LEMMA InsertFacts ==
  ASSUME NEW t \in Timer, NEW head, NEW nxt \in Pointers, NEW q, NEW m,
         Chain(q, m, head, nxt), t \notin Members(q, m),
         left \in Dues, Sorted(q, m, left), Insert(t, head, nxt)
  PROVE  \E p : /\ Chain(p, m + 1, TQ', next')
                /\ Members(p, m + 1) = Members(q, m) \cup {t}
                /\ Sorted(p, m + 1, [left EXCEPT ![t] = Duration[t]])
                /\ next' \in Pointers
                /\ \A x \in Timer : x \notin Members(q, m) \cup {t} => next'[x] = nxt[x]
  <1> DEFINE node == Nodes(head, nxt)
             S  == {i \in 1 .. N + 1 : node[i] = Null \/ DueLater(node[i], Duration[t])}
             at == Least(S)
             p  == Inserted(q, m, at, t)
             due == [left EXCEPT ![t] = Duration[t]]
  <1>1. /\ TQ' = IF at = 1 THEN t ELSE head
        /\ next' = IF at = 1 THEN [nxt EXCEPT ![t] = node[at]]
                   ELSE [nxt EXCEPT ![t] = node[at], ![node[at - 1]] = t]
    BY DEF Insert
  <1>2. /\ m \in Nat /\ m <= N /\ N \in Nat /\ q \in [1 .. m -> Timer]
        /\ \A i \in 1 .. m, j \in 1 .. m : q[i] = q[j] => i = j
        /\ head = Elem(q, m, 1) /\ \A i \in 1 .. m : nxt[q[i]] = Elem(q, m, i + 1)
    BY ChainShort, TimersCounted DEF Chain, Row
  <1>3. \A i \in 1 .. N + 1 : node[i] = Elem(q, m, i)
    BY ChainNodes
  <1> HIDE DEF node
  <1>4. \A i \in 1 .. m : q[i] \in Timer /\ q[i] # Null /\ q[i] # t /\ left[q[i]] \in Int
    BY <1>2, TimerAssumption DEF Members, Dues
  <1>5. Duration[t] \in Nat /\ Duration[t] \in Int /\ t # Null
    BY TimerAssumption
  <1>6. m + 1 \in S
    <2>1. m + 1 \in 1 .. N + 1 /\ m + 1 \notin 1 .. m
      BY <1>2
    <2> QED BY <1>3, <2>1 DEF Elem
  <1>7. at \in S /\ \A i \in S : at <= i
    <2>1. S \subseteq Nat /\ S # {}
      BY <1>6
    <2> HIDE DEF S
    <2> QED BY <2>1, FirstIndex DEF Least
  <1>8. at \in 1 .. m + 1 /\ at \in Int /\ 1 <= at /\ at <= m + 1
    <2>1. at \in Int /\ 1 <= at /\ at <= m + 1
      BY <1>6, <1>7
    <2> HIDE DEF at
    <2> QED BY <1>2, <2>1
  <1>9. at \in 1 .. m => left[q[at]] > Duration[t]
    <2>1. node[at] = Elem(q, m, at) /\ (node[at] = Null \/ DueLater(node[at], Duration[t]))
      BY <1>3, <1>7
    <2> HIDE DEF at
    <2> QED BY <1>4, <2>1 DEF Elem, DueLater
  <1>10. ASSUME NEW i \in 1 .. m, i < at PROVE left[q[i]] <= Duration[t]
    <2>1. i \notin S /\ i \in 1 .. N + 1
      <3> HIDE DEF S, at
      <3> QED BY <1>2, <1>7, <1>8, <1>10
    <2>2. node[i] = q[i]
      BY <1>3, <2>1 DEF Elem
    <2>3. ~ (left[q[i]] > Duration[t])
      BY <2>1, <2>2 DEF DueLater
    <2> QED BY <1>4, <1>5, <2>3
  <1>11. node[at] = Elem(q, m, at)
    BY <1>3, <1>7
  <1>12. at # 1 => at - 1 \in 1 .. m /\ node[at - 1] = q[at - 1]
    <2>1. at # 1 => at - 1 \in 1 .. m /\ at - 1 \in 1 .. N + 1
      BY <1>2, <1>8
    <2> QED BY <1>3, <2>1 DEF Elem
  <1> HIDE DEF S, at
  <1>13. /\ next' \in Pointers
         /\ next'[t] = Elem(q, m, at)
         /\ at # 1 => next'[q[at - 1]] = t
         /\ \A x \in Timer : x # t /\ (at = 1 \/ x # q[at - 1]) => next'[x] = nxt[x]
    <2>1. Elem(q, m, at) \in Timer \cup {Null}
      BY <1>4 DEF Elem
    <2>2. CASE at = 1
      <3>1. next' = [nxt EXCEPT ![t] = Elem(q, m, at)]
        BY <1>1, <1>11, <2>2
      <3> QED BY <2>1, <2>2, <3>1 DEF Pointers
    <2>3. CASE at # 1
      <3> DEFINE r == q[at - 1]
                 y == Elem(q, m, at)
      <3>1. next' = [nxt EXCEPT ![t] = y, ![r] = t]
        BY <1>1, <1>11, <1>12, <2>3
      <3>2. r \in Timer /\ r # t /\ y \in Timer \cup {Null}
        BY <1>4, <1>12, <2>1, <2>3
      <3> HIDE DEF r, y
      <3>3. /\ next' \in Pointers /\ next'[t] = y /\ next'[r] = t
            /\ \A x \in Timer : x # t /\ x # r => next'[x] = nxt[x]
        BY <3>1, <3>2 DEF Pointers
      <3> QED BY <2>3, <3>3 DEF r, y
    <2> QED BY <2>2, <2>3
  <1>14. /\ Row(p, m + 1)
         /\ \A i \in 1 .. m + 1 : i < at => i \in 1 .. m /\ p[i] = q[i]
         /\ \A i \in 1 .. m + 1 : i > at => i - 1 \in 1 .. m /\ p[i] = q[i - 1]
         /\ p[at] = t
         /\ Members(p, m + 1) = Members(q, m) \cup {t}
    <2>1. Row(q, m)
      BY DEF Chain
    <2> QED BY <1>8, <2>1, InsertedFacts
  <1> HIDE DEF p
  <1>15. TQ' = Elem(p, m + 1, 1)
    <2>1. 1 \in 1 .. m + 1
      BY <1>2
    <2>2. CASE at = 1
      BY <1>1, <1>14, <2>1, <2>2 DEF Elem
    <2>3. CASE at # 1
      <3>1. 1 < at /\ 1 \in 1 .. m
        BY <1>2, <1>8, <1>12, <2>3
      <3> QED BY <1>1, <1>2, <1>14, <2>1, <2>3, <3>1 DEF Elem
    <2> QED BY <2>2, <2>3
  <1>16. ASSUME NEW i \in 1 .. m + 1 PROVE next'[p[i]] = Elem(p, m + 1, i + 1)
    <2>1. CASE i < at
      <3>1. i \in 1 .. m /\ p[i] = q[i]
        BY <1>14, <2>1
      <3>2. CASE i = at - 1
        <4>1. at # 1 /\ i + 1 = at /\ i + 1 \in 1 .. m + 1
          BY <1>8, <3>1, <3>2
        <4>2. next'[p[i]] = t
          BY <1>13, <3>1, <3>2, <4>1
        <4> QED BY <1>14, <4>1, <4>2 DEF Elem
      <3>3. CASE i # at - 1
        <4>1. i + 1 < at /\ i + 1 \in 1 .. m + 1
          BY <1>2, <1>8, <2>1, <3>1, <3>3
        <4>2. i + 1 \in 1 .. m /\ p[i + 1] = q[i + 1]
          BY <1>14, <4>1
        <4>3. at = 1 \/ q[i] # q[at - 1]
          BY <1>2, <1>12, <3>1, <3>3
        <4>4. next'[q[i]] = nxt[q[i]]
          BY <1>4, <1>13, <3>1, <4>3
        <4> QED BY <1>2, <3>1, <4>1, <4>2, <4>4 DEF Elem
      <3> QED BY <3>2, <3>3
    <2>2. CASE i = at
      <3>1. next'[p[i]] = Elem(q, m, at)
        BY <1>13, <1>14, <2>2
      <3>2. CASE at \in 1 .. m
        <4>1. i + 1 \in 1 .. m + 1 /\ i + 1 > at /\ i + 1 - 1 = at
          BY <1>2, <2>2, <3>2
        <4>2. p[i + 1] = q[at]
          BY <1>14, <4>1
        <4> QED BY <3>1, <3>2, <4>1, <4>2 DEF Elem
      <3>3. CASE at \notin 1 .. m
        <4>1. i + 1 \notin 1 .. m + 1
          BY <1>2, <1>8, <2>2, <3>3
        <4> QED BY <3>1, <3>3, <4>1 DEF Elem
      <3> QED BY <3>2, <3>3
    <2>3. CASE i > at
      <3>1. i - 1 \in 1 .. m /\ p[i] = q[i - 1] /\ i - 1 + 1 = i
        BY <1>14, <2>3
      <3>2. at = 1 \/ q[i - 1] # q[at - 1]
        <4>1. ASSUME at # 1, q[i - 1] = q[at - 1] PROVE FALSE
          <5>1. i - 1 = at - 1
            BY <1>2, <1>12, <3>1, <4>1
          <5> QED BY <1>8, <2>3, <5>1
        <4> QED BY <4>1
      <3>3. next'[p[i]] = nxt[q[i - 1]]
        BY <1>4, <1>13, <3>1, <3>2
      <3>4. nxt[q[i - 1]] = Elem(q, m, i)
        <4> DEFINE j == i - 1
        <4>1. j \in 1 .. m /\ j + 1 = i
          BY <3>1
        <4> HIDE DEF j
        <4>2. nxt[q[j]] = Elem(q, m, i)
          BY <1>2, <4>1
        <4> QED BY <4>2 DEF j
      <3>5. CASE i \in 1 .. m
        <4>1. i + 1 \in 1 .. m + 1 /\ i + 1 > at /\ i + 1 - 1 = i
          BY <1>2, <1>8, <2>3, <3>5
        <4>2. p[i + 1] = q[i]
          BY <1>14, <4>1
        <4> QED BY <3>3, <3>4, <3>5, <4>1, <4>2 DEF Elem
      <3>6. CASE i \notin 1 .. m
        <4>1. i + 1 \notin 1 .. m + 1
          BY <1>2, <3>6
        <4> QED BY <3>3, <3>4, <3>6, <4>1 DEF Elem
      <3> QED BY <3>5, <3>6
    <2> QED BY <1>8, <2>1, <2>2, <2>3
  <1>17. Chain(p, m + 1, TQ', next')
    BY <1>14, <1>15, <1>16 DEF Chain
  <1>18. due[t] = Duration[t] /\ \A i \in 1 .. m : due[q[i]] = left[q[i]]
    BY <1>4 DEF Dues
  <1> HIDE DEF due
  <1>19. ASSUME NEW i \in 1 .. m + 1, NEW j \in 1 .. m + 1, i <= j
         PROVE  due[p[i]] <= due[p[j]]
    <2>1. \A k \in 1 .. m, l \in 1 .. m : k <= l => left[q[k]] <= left[q[l]]
      BY DEF Sorted
    <2>2. CASE j < at
      <3>1. i < at
        BY <1>8, <1>19, <2>2
      <3>2. i \in 1 .. m /\ j \in 1 .. m /\ p[i] = q[i] /\ p[j] = q[j]
        BY <1>14, <2>2, <3>1
      <3> QED BY <1>18, <1>19, <2>1, <3>2
    <2>3. CASE j = at
      <3>1. CASE i = at
        BY <1>5, <1>14, <1>18, <2>3, <3>1
      <3>2. CASE i # at
        <4>1. i < at
          BY <1>8, <1>19, <2>3, <3>2
        <4> QED BY <1>10, <1>14, <1>18, <2>3, <4>1
      <3> QED BY <3>1, <3>2
    <2>4. CASE j > at
      <3>1. j - 1 \in 1 .. m /\ p[j] = q[j - 1] /\ at <= j - 1
        BY <1>8, <1>14, <2>4
      <3>2. CASE i < at
        <4>1. i \in 1 .. m /\ p[i] = q[i] /\ i <= j - 1
          BY <1>8, <1>14, <3>1, <3>2
        <4> QED BY <1>18, <2>1, <3>1, <4>1
      <3>3. CASE i = at
        <4>1. at \in 1 .. m
          BY <1>2, <1>8, <3>1
        <4>2. left[q[at]] <= left[q[j - 1]] /\ left[q[at]] > Duration[t]
          BY <1>9, <2>1, <3>1, <4>1
        <4>3. left[q[at]] \in Int /\ left[q[j - 1]] \in Int
          BY <1>4, <3>1, <4>1
        <4>4. Duration[t] <= left[q[j - 1]]
          BY <1>5, <4>2, <4>3
        <4> QED BY <1>14, <1>18, <3>1, <3>3, <4>4
      <3>4. CASE i > at
        <4>1. i - 1 \in 1 .. m /\ p[i] = q[i - 1] /\ i - 1 <= j - 1
          BY <1>8, <1>14, <1>19, <3>4
        <4> QED BY <1>18, <2>1, <3>1, <4>1
      <3> QED BY <1>8, <3>2, <3>3, <3>4
    <2> QED BY <1>8, <2>2, <2>3, <2>4
  <1>20. Sorted(p, m + 1, due)
    BY <1>19 DEF Sorted
  <1>21. \A x \in Timer : x \notin Members(q, m) \cup {t} => next'[x] = nxt[x]
    BY <1>12, <1>13 DEF Members
  <1> QED BY <1>13, <1>14, <1>17, <1>20, <1>21 DEF due

-----------------------------------------------------------------------------
\* A chain without its node at position a.
Removed(q, m, a) == [i \in 1 .. m - 1 |-> IF i < a THEN q[i] ELSE q[i + 1]]

LEMMA RemovedFacts ==
  ASSUME NEW q, NEW m, Row(q, m), NEW a, a \in Int, 1 <= a, a <= m
  PROVE  /\ Row(Removed(q, m, a), m - 1)
         /\ \A i \in 1 .. m - 1 : i < a => i \in 1 .. m /\ Removed(q, m, a)[i] = q[i]
         /\ \A i \in 1 .. m - 1 :
              i >= a => i + 1 \in 1 .. m /\ Removed(q, m, a)[i] = q[i + 1]
         /\ Members(Removed(q, m, a), m - 1) = Members(q, m) \ {q[a]}
         /\ \A due : Sorted(q, m, due) => Sorted(Removed(q, m, a), m - 1, due)
  <1> DEFINE p == Removed(q, m, a)
  <1>1. /\ m \in Nat /\ q \in [1 .. m -> Timer]
        /\ \A i \in 1 .. m, j \in 1 .. m : q[i] = q[j] => i = j
    BY DEF Row
  <1>2. ASSUME NEW i \in 1 .. m - 1, i < a PROVE i \in 1 .. m /\ p[i] = q[i]
    BY <1>1, <1>2 DEF Removed
  <1>3. ASSUME NEW i \in 1 .. m - 1, i >= a PROVE i + 1 \in 1 .. m /\ p[i] = q[i + 1]
    BY <1>1, <1>3 DEF Removed
  <1>4. \A i \in 1 .. m - 1 : i < a \/ i >= a
    BY <1>1
  <1>5. p = [i \in 1 .. m - 1 |-> p[i]]
    BY DEF Removed
  <1> HIDE DEF p
  <1>6. p \in [1 .. m - 1 -> Timer]
    <2>1. \A i \in 1 .. m - 1 : p[i] \in Timer
      BY <1>1, <1>2, <1>3, <1>4
    <2> QED BY <1>5, <2>1
  <1>7. ASSUME NEW i \in 1 .. m - 1, NEW j \in 1 .. m - 1, p[i] = p[j] PROVE i = j
    <2>1. CASE i < a /\ j < a
      BY <1>1, <1>2, <1>7, <2>1
    <2>2. CASE i < a /\ j >= a
      <3>1. i = j + 1
        BY <1>1, <1>2, <1>3, <1>7, <2>2
      <3> QED BY <1>1, <2>2, <3>1
    <2>3. CASE i >= a /\ j < a
      <3>1. i + 1 = j
        BY <1>1, <1>2, <1>3, <1>7, <2>3
      <3> QED BY <1>1, <2>3, <3>1
    <2>4. CASE i >= a /\ j >= a
      <3>1. i + 1 = j + 1
        BY <1>1, <1>3, <1>7, <2>4
      <3> QED BY <1>1, <3>1
    <2> QED BY <1>4, <2>1, <2>2, <2>3, <2>4
  <1>8. Row(p, m - 1)
    <2>1. m - 1 \in Nat
      BY <1>1
    <2> QED BY <1>6, <1>7, <2>1 DEF Row
  <1>9. ASSUME NEW x PROVE x \in Members(p, m - 1) <=> x \in Members(q, m) \ {q[a]}
    <2>1. ASSUME NEW i \in 1 .. m - 1 PROVE p[i] \in Members(q, m) \ {q[a]}
      <3>1. CASE i < a
        <4>1. i \in 1 .. m /\ i # a /\ a \in 1 .. m /\ p[i] = q[i]
          BY <1>1, <1>2, <3>1
        <4> QED BY <1>1, <4>1 DEF Members
      <3>2. CASE i >= a
        <4>1. i + 1 \in 1 .. m /\ i + 1 # a /\ a \in 1 .. m /\ p[i] = q[i + 1]
          BY <1>1, <1>3, <3>2
        <4>2. q[i + 1] # q[a]
          BY <1>1, <4>1
        <4> QED BY <4>1, <4>2 DEF Members
      <3> QED BY <1>4, <3>1, <3>2
    <2>2. ASSUME NEW i \in 1 .. m, i # a PROVE q[i] \in Members(p, m - 1)
      <3>1. CASE i < a
        <4>1. i \in 1 .. m - 1
          BY <1>1, <3>1
        <4>2. p[i] = q[i]
          BY <1>2, <3>1, <4>1
        <4> QED BY <4>1, <4>2 DEF Members
      <3>2. CASE ~ (i < a)
        <4>1. i - 1 \in 1 .. m - 1 /\ i - 1 >= a /\ i - 1 + 1 = i
          BY <1>1, <2>2, <3>2
        <4>2. p[i - 1] = q[i]
          BY <1>3, <4>1
        <4> QED BY <4>1, <4>2 DEF Members
      <3> QED BY <3>1, <3>2
    <2>3. x \in Members(p, m - 1) => x \in Members(q, m) \ {q[a]}
      BY <2>1 DEF Members
    <2>4. x \in Members(q, m) \ {q[a]} => x \in Members(p, m - 1)
      <3> SUFFICES ASSUME x \in Members(q, m), x # q[a] PROVE x \in Members(p, m - 1)
        OBVIOUS
      <3>1. PICK i \in 1 .. m : x = q[i]
        BY DEF Members
      <3>2. i # a
        BY <3>1
      <3> QED BY <2>2, <3>1, <3>2
    <2> QED BY <2>3, <2>4
  <1>10. ASSUME NEW due, Sorted(q, m, due) PROVE Sorted(p, m - 1, due)
    <2>1. \A i \in 1 .. m, j \in 1 .. m : i <= j => due[q[i]] <= due[q[j]]
      BY <1>10 DEF Sorted
    <2>2. ASSUME NEW i \in 1 .. m - 1, NEW j \in 1 .. m - 1, i <= j
          PROVE  due[p[i]] <= due[p[j]]
      <3>1. CASE i < a /\ j < a
        BY <1>2, <2>1, <2>2, <3>1
      <3>2. CASE i < a /\ j >= a
        <4>1. i \in 1 .. m /\ j + 1 \in 1 .. m /\ i <= j + 1
          BY <1>1, <1>2, <1>3, <3>2
        <4> QED BY <1>2, <1>3, <2>1, <3>2, <4>1
      <3>3. CASE i >= a
        <4>1. j >= a /\ i + 1 \in 1 .. m /\ j + 1 \in 1 .. m /\ i + 1 <= j + 1
          BY <1>1, <2>2, <3>3
        <4> QED BY <1>3, <2>1, <3>3, <4>1
      <3> QED BY <1>4, <3>1, <3>2, <3>3
    <2> QED BY <2>2 DEF Sorted
  <1> QED BY <1>2, <1>3, <1>8, <1>9, <1>10 DEF p

\* Pointers of other timers are no part of a chain.
LEMMA ChainFrame ==
  ASSUME NEW q, NEW m, NEW head, NEW nxt, Chain(q, m, head, nxt),
         NEW ptr, \A x \in Timer : x \in Members(q, m) => ptr[x] = nxt[x]
  PROVE  Chain(q, m, head, ptr)
  <1>1. \A i \in 1 .. m : q[i] \in Timer /\ q[i] \in Members(q, m)
    BY DEF Chain, Row, Members
  <1> QED BY <1>1 DEF Chain

\* A chain without its first node.
LEMMA ChainHead ==
  ASSUME NEW q, NEW m, NEW head, NEW nxt, Chain(q, m, head, nxt), head \in Timer,
         NEW ptr, \A x \in Timer : x \in Members(q, m) /\ x # head => ptr[x] = nxt[x]
  PROVE  /\ m >= 1 /\ m \in Nat /\ q[1] = head
         /\ Chain(Removed(q, m, 1), m - 1, nxt[head], ptr)
  <1> DEFINE p == Removed(q, m, 1)
  <1>1. /\ m \in Nat /\ Row(q, m) /\ q \in [1 .. m -> Timer] /\ head = Elem(q, m, 1)
        /\ \A i \in 1 .. m, j \in 1 .. m : q[i] = q[j] => i = j
    BY DEF Chain, Row
  <1>2. \A i \in 1 .. m : nxt[q[i]] = Elem(q, m, i + 1)
    BY DEF Chain
  <1>3. 1 \in 1 .. m /\ q[1] = head /\ m >= 1
    BY <1>1, TimerAssumption DEF Elem
  <1>4. /\ Row(p, m - 1)
        /\ \A i \in 1 .. m - 1 : i >= 1 => i + 1 \in 1 .. m /\ p[i] = q[i + 1]
    BY <1>1, <1>3, RemovedFacts
  <1> HIDE DEF p
  <1>5. \A i \in 1 .. m - 1 : i + 1 \in 1 .. m /\ p[i] = q[i + 1]
    BY <1>1, <1>4
  <1>6. nxt[head] = Elem(p, m - 1, 1)
    <2>1. nxt[head] = Elem(q, m, 2)
      BY <1>2, <1>3
    <2>2. CASE 2 \in 1 .. m
      BY <1>1, <1>5, <2>1, <2>2 DEF Elem
    <2>3. CASE 2 \notin 1 .. m
      BY <1>1, <2>1, <2>3 DEF Elem
    <2> QED BY <2>2, <2>3
  <1>7. ASSUME NEW i \in 1 .. m - 1 PROVE ptr[p[i]] = Elem(p, m - 1, i + 1)
    <2> DEFINE j == i + 1
    <2>1. j \in 1 .. m /\ p[i] = q[j] /\ j # 1 /\ j \in Int
      BY <1>1, <1>5
    <2>2. q[j] # q[1] /\ q[j] \in Timer /\ q[j] \in Members(q, m)
      <3> HIDE DEF j
      <3> QED BY <1>1, <1>3, <2>1 DEF Members
    <2>3. ptr[p[i]] = Elem(q, m, j + 1)
      <3> HIDE DEF j
      <3> QED BY <1>2, <1>3, <2>1, <2>2
    <2>4. CASE j \in 1 .. m - 1
      BY <1>1, <1>5, <2>3, <2>4 DEF Elem
    <2>5. CASE j \notin 1 .. m - 1
      <3>1. j + 1 \notin 1 .. m
        BY <1>1, <2>1, <2>5
      <3> QED BY <2>3, <2>5, <3>1 DEF Elem
    <2> QED BY <2>4, <2>5
  <1>8. Chain(p, m - 1, nxt[head], ptr)
    BY <1>4, <1>6, <1>7 DEF Chain
  <1> QED BY <1>1, <1>3, <1>8 DEF p

\* A chain without a node in the middle.
LEMMA ChainMiddle ==
  ASSUME NEW q, NEW m, NEW head, NEW nxt \in Pointers, Chain(q, m, head, nxt),
         NEW a, a \in Int, 1 < a, a <= m
  PROVE  Chain(Removed(q, m, a), m - 1, head,
               [nxt EXCEPT ![q[a - 1]] = nxt[q[a]], ![q[a]] = Null])
  <1> DEFINE p == Removed(q, m, a)
             r == q[a - 1]
             s == q[a]
             y == nxt[s]
             ptr == [nxt EXCEPT ![r] = y, ![s] = Null]
  <1>1. /\ m \in Nat /\ Row(q, m) /\ q \in [1 .. m -> Timer] /\ head = Elem(q, m, 1)
        /\ \A i \in 1 .. m, j \in 1 .. m : q[i] = q[j] => i = j
    BY DEF Chain, Row
  <1>2. \A i \in 1 .. m : nxt[q[i]] = Elem(q, m, i + 1)
    BY DEF Chain
  <1>3. 1 <= a /\ a \in 1 .. m /\ a - 1 \in 1 .. m /\ a - 1 + 1 = a
    BY <1>1
  <1>4. /\ Row(p, m - 1)
        /\ \A i \in 1 .. m - 1 : i < a => i \in 1 .. m /\ p[i] = q[i]
        /\ \A i \in 1 .. m - 1 : i >= a => i + 1 \in 1 .. m /\ p[i] = q[i + 1]
    BY <1>1, <1>3, RemovedFacts
  <1> HIDE DEF p
  <1>5. r # s /\ r \in Timer /\ s \in Timer /\ y = Elem(q, m, a + 1)
    BY <1>1, <1>2, <1>3
  <1>6. /\ ptr[r] = y
        /\ \A x \in Timer : x # r /\ x # s => ptr[x] = nxt[x]
    <2> HIDE DEF r, s, y
    <2> QED BY <1>5 DEF Pointers
  <1> HIDE DEF ptr, y
  <1>7. head = Elem(p, m - 1, 1)
    <2>1. 1 \in 1 .. m - 1 /\ 1 \in 1 .. m /\ 1 < a
      BY <1>1, <1>3
    <2>2. p[1] = q[1]
      BY <1>4, <2>1
    <2> QED BY <1>1, <2>1, <2>2 DEF Elem
  <1>8. ASSUME NEW i \in 1 .. m - 1 PROVE ptr[p[i]] = Elem(p, m - 1, i + 1)
    <2>1. CASE i < a - 1
      <3>1. i \in 1 .. m /\ i + 1 \in 1 .. m - 1 /\ i < a /\ i + 1 < a /\ i + 1 \in 1 .. m
        BY <1>1, <1>3, <2>1
      <3>2. p[i] = q[i] /\ p[i + 1] = q[i + 1]
        BY <1>4, <3>1
      <3>3. q[i] # r /\ q[i] # s /\ q[i] \in Timer
        BY <1>1, <1>3, <2>1, <3>1
      <3>4. ptr[p[i]] = Elem(q, m, i + 1)
        BY <1>2, <1>6, <3>1, <3>2, <3>3
      <3> QED BY <3>1, <3>2, <3>4 DEF Elem
    <2>2. CASE i = a - 1
      <3>1. i < a /\ p[i] = r /\ i + 1 = a
        BY <1>3, <1>4, <2>2
      <3>2. ptr[p[i]] = Elem(q, m, a + 1)
        BY <1>5, <1>6, <3>1
      <3>3. CASE a \in 1 .. m - 1
        <4>1. a >= a /\ a + 1 \in 1 .. m
          BY <1>1, <1>3, <3>3
        <4>2. p[a] = q[a + 1]
          BY <1>4, <3>3, <4>1
        <4> QED BY <3>1, <3>2, <3>3, <4>1, <4>2 DEF Elem
      <3>4. CASE a \notin 1 .. m - 1
        <4>1. a + 1 \notin 1 .. m
          BY <1>1, <1>3, <3>4
        <4> QED BY <3>1, <3>2, <3>4, <4>1 DEF Elem
      <3> QED BY <3>3, <3>4
    <2>3. CASE i >= a
      <3> DEFINE j == i + 1
      <3>1. j \in 1 .. m /\ p[i] = q[j] /\ j # a /\ j # a - 1 /\ j \in Int /\ j >= a
        BY <1>1, <1>3, <1>4, <2>3
      <3>2. q[j] # r /\ q[j] # s /\ q[j] \in Timer
        <4> HIDE DEF j
        <4> QED BY <1>1, <1>3, <3>1
      <3>3. ptr[p[i]] = Elem(q, m, j + 1)
        <4> HIDE DEF j
        <4> QED BY <1>2, <1>6, <3>1, <3>2
      <3> HIDE DEF j
      <3>4. CASE j \in 1 .. m - 1
        <4>1. p[j] = q[j + 1] /\ j + 1 \in 1 .. m
          BY <1>4, <3>1, <3>4
        <4>2. ptr[p[i]] = Elem(p, m - 1, j)
          BY <3>3, <3>4, <4>1 DEF Elem
        <4> QED BY <4>2 DEF j
      <3>5. CASE j \notin 1 .. m - 1
        <4>1. j + 1 \notin 1 .. m
          BY <1>1, <3>1, <3>5
        <4>2. ptr[p[i]] = Elem(p, m - 1, j)
          BY <3>3, <3>5, <4>1 DEF Elem
        <4> QED BY <4>2 DEF j
      <3> QED BY <3>4, <3>5
    <2> QED BY <1>1, <1>3, <2>1, <2>2, <2>3
  <1>9. Chain(p, m - 1, head, ptr)
    BY <1>4, <1>7, <1>8 DEF Chain
  <1> QED BY <1>9 DEF p, ptr, y

-----------------------------------------------------------------------------
\* timer_add_msec of a timer that may be on the queue already.
LEMMA ArmFacts ==
  ASSUME NEW t \in Timer, NEW q, NEW m, Chain(q, m, TQ, next), next \in Pointers,
         left \in Dues, Sorted(q, m, left),
         used[t] <=> t \in Members(q, m), Arm(t)
  PROVE  \E p, n : /\ Chain(p, n, TQ', next')
                   /\ \A x : x \in Members(p, n) <=> x \in Members(q, m) \/ x = t
                   /\ Sorted(p, n, left')
                   /\ next' \in Pointers
  <1> DEFINE Fresh(r, k, head, ptr) ==
                /\ Chain(r, k, head, ptr) /\ ptr \in Pointers
                /\ Members(r, k) = Members(q, m) \ {t}
                /\ Sorted(r, k, left) /\ Insert(t, head, ptr)
  <1>1. left' = [left EXCEPT ![t] = Duration[t]]
    BY DEF Arm
  <1>2. ASSUME NEW r, NEW k, NEW head, NEW ptr, Fresh(r, k, head, ptr)
        PROVE  \E p, n : /\ Chain(p, n, TQ', next')
                         /\ \A x : x \in Members(p, n) <=> x \in Members(q, m) \/ x = t
                         /\ Sorted(p, n, left')
                         /\ next' \in Pointers
    <2>1. t \notin Members(r, k)
      BY <1>2
    <2>2. PICK p : /\ Chain(p, k + 1, TQ', next')
                   /\ Members(p, k + 1) = Members(r, k) \cup {t}
                   /\ Sorted(p, k + 1, [left EXCEPT ![t] = Duration[t]])
                   /\ next' \in Pointers
                   /\ \A x \in Timer : x \notin Members(r, k) \cup {t} => next'[x] = ptr[x]
      <3>1. /\ Chain(r, k, head, ptr) /\ ptr \in Pointers
            /\ Sorted(r, k, left) /\ Insert(t, head, ptr)
        BY <1>2
      <3> HIDE DEF Fresh
      <3> QED BY <2>1, <3>1, InsertFacts
    <2>3. \A x : x \in Members(p, k + 1) <=> x \in Members(q, m) \/ x = t
      BY <1>2, <2>2
    <2> QED BY <1>1, <2>2, <2>3
  <1>3. CASE used[t] /\ TQ = t
    <2> DEFINE ptr == [next EXCEPT ![t] = Null]
    <2>1. ptr \in Pointers /\ \A x \in Timer : x # t => ptr[x] = next[x]
      BY DEF Pointers
    <2>2. Insert(t, next[t], ptr)
      BY <1>3 DEF Arm
    <2> HIDE DEF ptr
    <2>3. m >= 1 /\ m \in Nat /\ q[1] = t /\ Chain(Removed(q, m, 1), m - 1, next[t], ptr)
      BY <1>3, <2>1, ChainHead
    <2>4. Row(q, m)
      BY DEF Chain
    <2>5. /\ Members(Removed(q, m, 1), m - 1) = Members(q, m) \ {q[1]}
          /\ \A due : Sorted(q, m, due) => Sorted(Removed(q, m, 1), m - 1, due)
      <3>1. 1 \in Int /\ 1 <= 1 /\ 1 <= m
        BY <2>3
      <3> QED BY <2>4, <3>1, RemovedFacts
    <2>6. Fresh(Removed(q, m, 1), m - 1, next[t], ptr)
      BY <2>1, <2>2, <2>3, <2>5
    <2> HIDE DEF Fresh
    <2> QED BY <1>2, <2>6
  <1>4. CASE used[t] /\ TQ # t /\ t \in OnList(TQ, next)
    <2> DEFINE prev == CHOOSE p \in OnList(TQ, next) : next[p] = t
               ptr == [next EXCEPT ![prev] = next[t], ![t] = Null]
    <2>1. Insert(t, TQ, ptr)
      BY <1>4 DEF Arm
    <2>2. /\ m \in Nat /\ TQ = Elem(q, m, 1) /\ Row(q, m) /\ t # Null
          /\ \A i \in 1 .. m : q[i] \in Timer
          /\ \A i \in 1 .. m, j \in 1 .. m : q[i] = q[j] => i = j
          /\ \A i \in 1 .. m : next[q[i]] = Elem(q, m, i + 1)
      BY TimerAssumption DEF Chain, Row
    <2>3. OnList(TQ, next) = Members(q, m)
      BY ChainOnList
    <2>4. PICK a \in 1 .. m : q[a] = t
      BY <1>4 DEF Members
    <2>5. a \in Int /\ 1 < a /\ a <= m /\ 1 <= a
      <3>1. a # 1
        BY <1>4, <2>2, <2>4 DEF Elem
      <3> QED BY <2>2, <2>4, <3>1
    <2>6. a - 1 \in 1 .. m /\ a - 1 + 1 = a
      BY <2>2, <2>5
    <2>7. prev = q[a - 1]
      <3>1. q[a - 1] \in Members(q, m) /\ next[q[a - 1]] = t
        <4>1. next[q[a - 1]] = Elem(q, m, a)
          <5> DEFINE j == a - 1
          <5>1. j \in 1 .. m /\ j + 1 = a
            BY <2>6
          <5> HIDE DEF j
          <5>2. next[q[j]] = Elem(q, m, a)
            BY <2>2, <5>1
          <5> QED BY <5>2 DEF j
        <4> QED BY <2>4, <2>6, <4>1 DEF Elem, Members
      <3>2. prev \in Members(q, m) /\ next[prev] = t
        BY <2>3, <3>1
      <3> HIDE DEF prev
      <3>3. PICK i \in 1 .. m : prev = q[i]
        BY <3>2 DEF Members
      <3>4. i + 1 \in 1 .. m /\ q[i + 1] = t
        BY <2>2, <3>2, <3>3 DEF Elem
      <3>5. i + 1 = a
        BY <2>2, <2>4, <3>4
      <3> QED BY <2>2, <3>3, <3>5
    <2> HIDE DEF prev
    <2>8. Chain(Removed(q, m, a), m - 1, TQ,
                [next EXCEPT ![q[a - 1]] = next[q[a]], ![q[a]] = Null])
      BY <2>5, ChainMiddle
    <2>9. Chain(Removed(q, m, a), m - 1, TQ, ptr)
      BY <2>4, <2>7, <2>8
    <2>10. ptr \in Pointers
      <3>1. next[t] \in Timer \cup {Null} /\ prev \in Timer
        BY <2>2, <2>6, <2>7 DEF Pointers
      <3> QED BY <3>1 DEF Pointers
    <2>11. /\ Members(Removed(q, m, a), m - 1) = Members(q, m) \ {q[a]}
           /\ \A due : Sorted(q, m, due) => Sorted(Removed(q, m, a), m - 1, due)
      BY <2>2, <2>5, RemovedFacts
    <2> HIDE DEF ptr
    <2>12. Fresh(Removed(q, m, a), m - 1, TQ, ptr)
      BY <2>1, <2>4, <2>9, <2>10, <2>11
    <2> HIDE DEF Fresh
    <2> QED BY <1>2, <2>12
  <1>5. CASE ~ used[t] \/ (TQ # t /\ t \notin OnList(TQ, next))
    <2>1. OnList(TQ, next) = Members(q, m)
      BY ChainOnList
    <2>2. t \notin Members(q, m)
      BY <1>5, <2>1
    <2>3. Insert(t, TQ, next)
      BY <1>5 DEF Arm
    <2>4. Fresh(q, m, TQ, next)
      BY <2>2, <2>3
    <2> HIDE DEF Fresh
    <2> QED BY <1>2, <2>4
  <1> QED BY <1>3, <1>4, <1>5

-----------------------------------------------------------------------------
\* The first c nodes of a chain, and the others.
FirstNodes(q, c) == [i \in 1 .. c |-> q[i]]
LastNodes(q, m, c) == [i \in 1 .. m - c |-> q[i + c]]

LEMMA CutInTwo ==
  ASSUME NEW q, NEW m, Row(q, m), NEW c, c \in Int, 0 <= c, c <= m
  PROVE  /\ Row(FirstNodes(q, c), c) /\ Row(LastNodes(q, m, c), m - c)
         /\ \A i \in 1 .. c : i \in 1 .. m /\ FirstNodes(q, c)[i] = q[i]
         /\ \A i \in 1 .. m - c : i + c \in 1 .. m /\ LastNodes(q, m, c)[i] = q[i + c]
         /\ \A x : x \in Members(q, m) <=> \/ x \in Members(FirstNodes(q, c), c)
                                         \/ x \in Members(LastNodes(q, m, c), m - c)
         /\ \A x : x \in Members(FirstNodes(q, c), c) =>
                     x \notin Members(LastNodes(q, m, c), m - c)
  <1> DEFINE f == FirstNodes(q, c)
             g == LastNodes(q, m, c)
  <1>1. /\ m \in Nat /\ c \in Nat /\ m - c \in Nat /\ q \in [1 .. m -> Timer]
        /\ \A i \in 1 .. m, j \in 1 .. m : q[i] = q[j] => i = j
    BY DEF Row
  <1>2. \A i \in 1 .. c : i \in 1 .. m
    BY <1>1
  <1>3. \A i \in 1 .. m - c : i + c \in 1 .. m
    BY <1>1
  <1>4. f \in [1 .. c -> Timer] /\ \A i \in 1 .. c : f[i] = q[i]
    BY <1>1, <1>2 DEF FirstNodes
  <1>5. g \in [1 .. m - c -> Timer] /\ \A i \in 1 .. m - c : g[i] = q[i + c]
    BY <1>1, <1>3 DEF LastNodes
  <1> HIDE DEF f, g
  <1>6. Row(f, c)
    BY <1>1, <1>2, <1>4 DEF Row
  <1>7. Row(g, m - c)
    <2>1. ASSUME NEW i \in 1 .. m - c, NEW j \in 1 .. m - c, g[i] = g[j] PROVE i = j
      <3>1. i + c = j + c
        BY <1>1, <1>3, <1>5, <2>1
      <3> QED BY <1>1, <3>1
    <2> QED BY <1>1, <1>5, <2>1 DEF Row
  <1>8. ASSUME NEW i \in 1 .. m PROVE q[i] \in Members(f, c) \/ q[i] \in Members(g, m - c)
    <2>1. CASE i <= c
      <3>1. i \in 1 .. c
        BY <1>1, <2>1
      <3> QED BY <1>4, <3>1 DEF Members
    <2>2. CASE ~ (i <= c)
      <3>1. i - c \in 1 .. m - c /\ i - c + c = i
        BY <1>1, <2>2
      <3>2. g[i - c] = q[i]
        BY <1>5, <3>1
      <3> QED BY <3>1, <3>2 DEF Members
    <2> QED BY <2>1, <2>2
  <1>9. \A x : x \in Members(q, m) <=> x \in Members(f, c) \/ x \in Members(g, m - c)
    BY <1>2, <1>3, <1>4, <1>5, <1>8 DEF Members
  <1>10. ASSUME NEW x, x \in Members(f, c), x \in Members(g, m - c) PROVE FALSE
    <2>1. PICK i \in 1 .. c : x = f[i]
      BY <1>10 DEF Members
    <2>2. PICK j \in 1 .. m - c : x = g[j]
      BY <1>10 DEF Members
    <2>3. i \in 1 .. m /\ j + c \in 1 .. m /\ q[i] = q[j + c]
      BY <1>2, <1>3, <1>4, <1>5, <2>1, <2>2
    <2>4. i = j + c
      BY <1>1, <2>3
    <2> QED BY <1>1, <2>4
  <1>11. \A x : x \in Members(f, c) => x \notin Members(g, m - c)
    BY <1>10
  <1> QED BY <1>2, <1>3, <1>4, <1>5, <1>6, <1>7, <1>9, <1>11 DEF f, g

\* timer_timeout cuts the queue in two: what is due, and what is not.
LEMMA CutFacts ==
  ASSUME NEW q, NEW m, Chain(q, m, TQ, next), next \in Pointers,
         left \in Dues, Sorted(q, m, left), AgeQueue
  PROVE  \E f, c, g, k :
           /\ Chain(f, c, expired', next') /\ Chain(g, k, TQ', next') /\ next' \in Pointers
           /\ \A x : x \in Members(q, m) <=> x \in Members(f, c) \/ x \in Members(g, k)
           /\ \A x : x \in Members(f, c) => x \notin Members(g, k) /\ left[x] <= 0
           /\ \A x : x \in Members(g, k) => left[x] >= 1
           /\ Sorted(g, k, left)
  <1> DEFINE node == Nodes(TQ, next)
             S  == {i \in 1 .. N + 1 : node[i] = Null \/ left[node[i]] > 0}
             at == Least(S)
             c == at - 1
             k == m - c
             f == FirstNodes(q, c)
             g == LastNodes(q, m, c)
             r == q[c]
  <1>1. /\ TQ' = node[at]
        /\ expired' = IF at = 1 THEN Null ELSE TQ
        /\ next' = IF at = 1 THEN next ELSE [next EXCEPT ![node[at - 1]] = Null]
    BY DEF AgeQueue
  <1>2. /\ m \in Nat /\ m <= N /\ N \in Nat /\ q \in [1 .. m -> Timer] /\ Row(q, m)
        /\ \A i \in 1 .. m, j \in 1 .. m : q[i] = q[j] => i = j
        /\ TQ = Elem(q, m, 1) /\ \A i \in 1 .. m : next[q[i]] = Elem(q, m, i + 1)
    BY ChainShort, TimersCounted DEF Chain, Row
  <1>3. \A i \in 1 .. N + 1 : node[i] = Elem(q, m, i)
    BY ChainNodes
  <1> HIDE DEF node
  <1>4. \A i \in 1 .. m : q[i] \in Timer /\ q[i] # Null /\ left[q[i]] \in Int
    BY <1>2, TimerAssumption DEF Dues
  <1>5. m + 1 \in S
    <2>1. m + 1 \in 1 .. N + 1 /\ m + 1 \notin 1 .. m
      BY <1>2
    <2> QED BY <1>3, <2>1 DEF Elem
  <1>6. at \in S /\ \A i \in S : at <= i
    <2>1. S \subseteq Nat /\ S # {}
      BY <1>5
    <2> HIDE DEF S
    <2> QED BY <2>1, FirstIndex DEF Least
  <1>7. at \in Int /\ 1 <= at /\ at <= m + 1
    BY <1>5, <1>6
  <1>8. node[at] = Elem(q, m, at) /\ (node[at] = Null \/ left[node[at]] > 0)
    BY <1>3, <1>6
  <1> HIDE DEF at
  <1>9. ASSUME NEW i \in 1 .. m, i < at PROVE left[q[i]] <= 0
    <2>1. i \in 1 .. N + 1 /\ i \notin S
      <3> HIDE DEF S
      <3> QED BY <1>2, <1>6, <1>7, <1>9
    <2>2. node[i] = q[i]
      BY <1>3, <2>1 DEF Elem
    <2>3. ~ (left[q[i]] > 0)
      BY <2>1, <2>2
    <2> QED BY <1>4, <2>3
  <1> HIDE DEF S
  <1>10. c \in Int /\ 0 <= c /\ c <= m /\ at = c + 1 /\ k \in Nat
    BY <1>2, <1>7
  <1>11. at # 1 => c \in 1 .. m /\ node[at - 1] = r /\ r \in Timer
    <2>1. at # 1 => c \in 1 .. m /\ c \in 1 .. N + 1
      BY <1>2, <1>7
    <2>2. at # 1 => node[c] = q[c]
      BY <1>3, <2>1 DEF Elem
    <2> QED BY <1>4, <2>1, <2>2
  <1> HIDE DEF c
  <1>12. /\ Row(f, c) /\ Row(g, k)
         /\ \A i \in 1 .. c : i \in 1 .. m /\ f[i] = q[i]
         /\ \A i \in 1 .. k : i + c \in 1 .. m /\ g[i] = q[i + c]
         /\ \A x : x \in Members(q, m) <=> x \in Members(f, c) \/ x \in Members(g, k)
         /\ \A x : x \in Members(f, c) => x \notin Members(g, k)
    BY <1>2, <1>10, CutInTwo
  <1> HIDE DEF f, g
  <1>13. /\ next' \in Pointers
         /\ at # 1 => next'[r] = Null
         /\ \A x \in Timer : at = 1 \/ x # r => next'[x] = next[x]
    <2> HIDE DEF r
    <2>1. CASE at = 1
      BY <1>1, <2>1
    <2>2. CASE at # 1
      <3>1. next' = [next EXCEPT ![r] = Null] /\ r \in Timer
        BY <1>1, <1>11, <2>2
      <3> QED BY <2>2, <3>1 DEF Pointers
    <2> QED BY <2>1, <2>2
  <1>14. Chain(f, c, expired', next')
    <2>1. expired' = Elem(f, c, 1)
      <3>1. CASE at = 1
        <4>1. 1 \notin 1 .. c
          BY <1>10, <3>1
        <4> QED BY <1>1, <3>1, <4>1 DEF Elem
      <3>2. CASE at # 1
        <4>1. 1 \in 1 .. c /\ 1 \in 1 .. m
          BY <1>2, <1>10, <1>7, <3>2
        <4>2. f[1] = q[1]
          BY <1>12, <4>1
        <4> QED BY <1>1, <1>2, <3>2, <4>1, <4>2 DEF Elem
      <3> QED BY <3>1, <3>2
    <2>2. ASSUME NEW i \in 1 .. c PROVE next'[f[i]] = Elem(f, c, i + 1)
      <3>1. i \in 1 .. m /\ f[i] = q[i] /\ at # 1 /\ c \in 1 .. m
        BY <1>10, <1>11, <1>12
      <3>2. CASE i = c
        <4>1. next'[f[i]] = Null
          BY <1>13, <3>1, <3>2
        <4>2. i + 1 \notin 1 .. c
          BY <1>10, <3>2
        <4> QED BY <4>1, <4>2 DEF Elem
      <3>3. CASE i # c
        <4>1. i + 1 \in 1 .. c
          BY <1>10, <3>3
        <4>2. i + 1 \in 1 .. m /\ f[i + 1] = q[i + 1]
          BY <1>12, <4>1
        <4>3. q[i] # r /\ q[i] \in Timer
          BY <1>2, <1>4, <3>1, <3>3
        <4>4. next'[f[i]] = next[q[i]]
          BY <1>13, <3>1, <4>3
        <4> QED BY <1>2, <3>1, <4>1, <4>2, <4>4 DEF Elem
      <3> QED BY <3>2, <3>3
    <2> QED BY <1>12, <2>1, <2>2 DEF Chain
  <1>15. Chain(g, k, TQ', next')
    <2>1. TQ' = Elem(g, k, 1)
      <3>1. CASE at \in 1 .. m
        <4>1. 1 \in 1 .. k
          BY <1>2, <1>10, <3>1
        <4>2. g[1] = q[1 + c] /\ 1 + c = at
          BY <1>10, <1>12, <4>1
        <4> QED BY <1>1, <1>8, <3>1, <4>1, <4>2 DEF Elem
      <3>2. CASE at \notin 1 .. m
        <4>1. 1 \notin 1 .. k
          BY <1>2, <1>7, <1>10, <3>2
        <4> QED BY <1>1, <1>8, <3>2, <4>1 DEF Elem
      <3> QED BY <3>1, <3>2
    <2>2. ASSUME NEW i \in 1 .. k PROVE next'[g[i]] = Elem(g, k, i + 1)
      <3> DEFINE j == i + c
      <3>1. j \in 1 .. m /\ g[i] = q[j] /\ j # c /\ j \in Int /\ i = j - c
        BY <1>10, <1>12
      <3>2. i + 1 \in 1 .. k => g[i + 1] = q[j + 1] /\ j + 1 \in 1 .. m
        <4>1. i + 1 + c = j + 1
          BY <1>10
        <4> QED BY <1>12, <4>1
      <3>3. i + 1 \notin 1 .. k => j + 1 \notin 1 .. m
        BY <1>2, <1>10, <3>1
      <3> HIDE DEF j
      <3>4. q[j] \in Timer /\ (at = 1 \/ q[j] # r)
        BY <1>2, <1>4, <1>11, <3>1
      <3>5. next'[g[i]] = Elem(q, m, j + 1)
        BY <1>2, <1>13, <3>1, <3>4
      <3> QED BY <3>2, <3>3, <3>5 DEF Elem
    <2> QED BY <1>12, <2>1, <2>2 DEF Chain
  <1>16. \A x : x \in Members(f, c) => left[x] <= 0
    <2>1. \A i \in 1 .. c : left[f[i]] <= 0
      <3>1. \A i \in 1 .. c : i < at /\ i \in 1 .. m
        BY <1>2, <1>10
      <3> QED BY <1>9, <1>12, <3>1
    <2> QED BY <2>1 DEF Members
  <1>17. Sorted(g, k, left)
    <2>1. \A i \in 1 .. m, j \in 1 .. m : i <= j => left[q[i]] <= left[q[j]]
      BY DEF Sorted
    <2>2. ASSUME NEW i \in 1 .. k, NEW j \in 1 .. k, i <= j PROVE left[g[i]] <= left[g[j]]
      <3>1. i + c \in 1 .. m /\ j + c \in 1 .. m /\ i + c <= j + c
        BY <1>10, <1>12, <2>2
      <3> QED BY <1>12, <2>1, <3>1
    <2> QED BY <2>2 DEF Sorted
  <1>18. \A x : x \in Members(g, k) => left[x] >= 1
    <2>1. ASSUME NEW i \in 1 .. k PROVE left[g[i]] >= 1
      <3>1. at \in 1 .. m /\ i + c \in 1 .. m /\ at <= i + c
        BY <1>2, <1>10, <1>12
      <3>2. left[q[at]] > 0
        BY <1>4, <1>8, <3>1 DEF Elem
      <3>3. left[q[at]] <= left[q[i + c]]
        BY <3>1 DEF Sorted
      <3>4. left[q[at]] \in Int /\ left[q[i + c]] \in Int
        BY <1>4, <3>1
      <3>5. left[q[i + c]] >= 1
        BY <3>2, <3>3, <3>4
      <3> QED BY <1>12, <3>5
    <2> QED BY <2>1 DEF Members
  <1> QED BY <1>12, <1>13, <1>14, <1>15, <1>16, <1>17, <1>18

-----------------------------------------------------------------------------
\* What the handlers of all timers can block for together.
Lag == N * MaxBlock

\* What the callbacks of one pass can block for together, and what is to come of it
\* after the present one when k of them have not returned.
Pass == Callbacks * MaxBlock
Rest(k) == (k - 1) * MaxBlock

Typed ==
  /\ pc \in {"boot", "loop", "handlers", "select", "callbacks"}
  /\ next \in Pointers /\ used \in [Timer -> BOOLEAN] /\ left \in Dues
  /\ age \in Int /\ wake \in Int /\ block \in Int
  /\ 0 <= block /\ block <= MaxBlock
  /\ ready \in 0 .. Callbacks /\ (ready = 0 <=> pc # "callbacks")

\* The queue is the row q of m timers, and e of k timers is what was cut off.
Lists(q, m, e, k) ==
  /\ Chain(q, m, TQ, next) /\ Chain(e, k, expired, next)
  /\ \A t \in Timer : t \in Members(q, m) => t \notin Members(e, k)
  /\ Sorted(q, m, left)
  /\ \A t \in Timer : used[t] <=> t \in Members(q, m) \/ t \in Members(e, k)
  /\ pc # "handlers" => expired = Null

\* How far the time of each timer can be from what the main loop has seen of it.
Timely(q, m, e, k) ==
  /\ \A t \in Timer : left[t] <= Duration[t]
  /\ \A t \in Timer : ~ used[t] => left[t] = 0
  /\ \A t \in Timer : t \in Members(e, k) => left[t] <= 0
  /\ pc # "select" => wake = 0
  /\ pc # "handlers" => age = 0
  /\ pc = "boot" => block = 0 /\ \A t \in Timer : t \in Members(q, m) => left[t] >= 1
  /\ pc = "loop" =>
       \A t \in Timer : t \in Members(q, m) => left[t] >= -Lag - Pass
  /\ pc = "callbacks" =>
       \A t \in Timer : t \in Members(q, m) => left[t] >= block + Rest(ready) - Lag - Pass
  /\ pc = "handlers" =>
       /\ 0 <= age /\ age + block + k * MaxBlock <= Lag
       /\ \A t \in Timer : t \in Members(q, m) => left[t] + age >= 1
       /\ \A t \in Timer : t \in Members(e, k) => left[t] + age >= -Lag - Pass
  /\ pc = "select" =>
       /\ block = 0
       /\ wake = Forever => \A t \in Timer : t \notin Members(q, m)
       /\ wake # Forever => /\ 0 <= wake /\ wake <= MaxDuration + Lag
                            /\ \A t \in Timer : t \in Members(q, m) => left[t] >= wake - Lag

IInv == Typed /\ \E q, m, e, k : Lists(q, m, e, k) /\ Timely(q, m, e, k)

-----------------------------------------------------------------------------
LEMMA LagFacts ==
  /\ Lag \in Nat /\ MaxBlock \in Nat /\ MaxBlock <= Lag
  /\ \A k \in Nat : k <= N => k * MaxBlock \in Nat /\ k * MaxBlock <= Lag
  /\ \A k \in Nat : (k + 1) * MaxBlock = k * MaxBlock + MaxBlock
  <1>1. N \in Nat /\ MaxBlock \in Nat /\ IsFiniteSet(Timer)
    BY TimersCounted, TimerAssumption
  <1>2. N >= 1
    <2>1. Timer # {}
      BY TimerAssumption
    <2>2. N # 0
      BY <1>1, <2>1, FS_EmptySet DEF N
    <2> QED BY <1>1, <2>2
  <1>3. ASSUME NEW k \in Nat, k <= N PROVE k * MaxBlock \in Nat /\ k * MaxBlock <= N * MaxBlock
    <2> DEFINE d == N - k
    <2>1. d \in Nat /\ N = k + d
      BY <1>1, <1>3
    <2> HIDE DEF d
    <2>2. N * MaxBlock = k * MaxBlock + d * MaxBlock
      BY <1>1, <2>1
    <2>3. k * MaxBlock \in Nat /\ d * MaxBlock \in Nat
      BY <1>1, <2>1
    <2> QED BY <2>2, <2>3
  <1>4. \A k \in Nat : (k + 1) * MaxBlock = k * MaxBlock + MaxBlock
    BY <1>1
  <1>5. 1 * MaxBlock = MaxBlock /\ 1 \in Nat
    BY <1>1
  <1>6. N * MaxBlock \in Nat
    BY <1>1, <1>3
  <1> QED BY <1>1, <1>2, <1>3, <1>4, <1>5, <1>6 DEF Lag

LEMMA PassFacts ==
  /\ Callbacks \in Nat \ {0} /\ Pass \in Nat /\ Rest(1) = 0
  /\ \A k \in 1 .. Callbacks : Rest(k) \in Nat /\ Rest(k) + MaxBlock <= Pass
  /\ \A k \in 1 .. Callbacks : k # 1 => Rest(k) = Rest(k - 1) + MaxBlock
  <1>1. MaxBlock \in Nat /\ Callbacks \in Nat \ {0}
    BY TimerAssumption
  <1>2. Pass \in Nat /\ Rest(1) = 0
    BY <1>1 DEF Pass, Rest
  <1>3. ASSUME NEW k \in 1 .. Callbacks PROVE Rest(k) \in Nat /\ Rest(k) + MaxBlock <= Pass
    <2> DEFINE i == k - 1
               j == Callbacks - k
    <2>1. i \in Nat /\ j \in Nat /\ Callbacks = (i + 1) + j
      BY <1>1, <1>3
    <2> HIDE DEF i, j
    <2>2. Callbacks * MaxBlock = i * MaxBlock + MaxBlock + j * MaxBlock
      BY <1>1, <2>1
    <2>3. i * MaxBlock \in Nat /\ j * MaxBlock \in Nat
      BY <1>1, <2>1
    <2>4. i * MaxBlock + MaxBlock <= Callbacks * MaxBlock
      BY <1>1, <2>2, <2>3
    <2> QED BY <2>3, <2>4 DEF Rest, Pass, i
  <1>4. ASSUME NEW k \in 1 .. Callbacks, k # 1 PROVE Rest(k) = Rest(k - 1) + MaxBlock
    <2> DEFINE i == k - 2
    <2>1. i \in Nat /\ k - 1 = i + 1 /\ (k - 1) - 1 = i
      BY <1>1, <1>4
    <2> HIDE DEF i
    <2>2. (i + 1) * MaxBlock = i * MaxBlock + MaxBlock
      BY <1>1, <2>1
    <2> QED BY <2>1, <2>2 DEF Rest
  <1> QED BY <1>1, <1>2, <1>3, <1>4

\* The longest duration there is.
LEMMA MaxDurationFacts ==
  MaxDuration \in Nat /\ \A t \in Timer : Duration[t] <= MaxDuration
  <1>1. /\ IsFiniteSet(Timer) /\ N \in Nat /\ Timer # {}
        /\ \A t \in Timer : Duration[t] \in Nat
    BY TimersCounted, TimerAssumption
  <1>2. PICK f : f \in Bijection(1 .. N, Timer)
    <2>1. ExistsBijection(1 .. N, Timer)
      BY <1>1, FS_CardinalityType DEF N
    <2> QED BY <2>1 DEF ExistsBijection
  <1>3. /\ \A i \in 1 .. N : f[i] \in Timer
        /\ \A t \in Timer : \E i \in 1 .. N : f[i] = t
    BY <1>2 DEF Bijection, Surjection
  <1> DEFINE Longest(u, i) == \A j \in 1 .. i : Duration[f[j]] <= Duration[u]
             I == {i \in 0 .. N : \E u \in Timer : Longest(u, i)}
  <1>4. 0 \in I
    <2>1. PICK u \in Timer : TRUE
      BY <1>1
    <2>2. Longest(u, 0)
      OBVIOUS
    <2> QED BY <1>1, <2>2
  <1>5. ASSUME NEW i \in 1 .. N, i - 1 \in I PROVE i \in I
    <2>1. PICK u \in Timer : Longest(u, i - 1)
      BY <1>5
    <2>2. /\ i \in 0 .. N /\ f[i] \in Timer /\ Duration[f[i]] \in Nat /\ Duration[u] \in Nat
          /\ \A j \in 1 .. i : j = i \/ j \in 1 .. i - 1
          /\ \A j \in 1 .. i : f[j] \in Timer /\ Duration[f[j]] \in Nat
      BY <1>1, <1>3
    <2>3. CASE Duration[f[i]] <= Duration[u]
      <3>1. Longest(u, i)
        BY <2>1, <2>2, <2>3
      <3> QED BY <2>2, <3>1
    <2>4. CASE ~ (Duration[f[i]] <= Duration[u])
      <3>1. Longest(f[i], i)
        <4>1. ASSUME NEW j \in 1 .. i PROVE Duration[f[j]] <= Duration[f[i]]
          <5>1. CASE j = i
            BY <2>2, <5>1
          <5>2. CASE j \in 1 .. i - 1
            <6>1. Duration[f[j]] <= Duration[u]
              BY <2>1, <5>2
            <6> QED BY <2>2, <2>4, <6>1
          <5> QED BY <2>2, <5>1, <5>2
        <4> QED BY <4>1
      <3> HIDE DEF Longest
      <3> QED BY <2>2, <3>1
    <2> QED BY <2>3, <2>4
  <1>6. N \in I
    <2>1. I \subseteq 0 .. N
      OBVIOUS
    <2> HIDE DEF I
    <2> QED BY <1>1, <1>4, <1>5, <2>1, LoopInvariant
  <1>7. PICK u \in Timer : Longest(u, N)
    BY <1>6
  <1>8. \A t \in Timer : Duration[t] <= Duration[u]
    <2> SUFFICES ASSUME NEW t \in Timer PROVE Duration[t] <= Duration[u]
      OBVIOUS
    <2>1. PICK i \in 1 .. N : f[i] = t
      BY <1>3
    <2> QED BY <1>7, <2>1
  <1> DEFINE Ds == {Duration[t] : t \in Timer}
  <1>9. \E d \in Ds : \A t \in Timer : Duration[t] <= d
    BY <1>8
  <1>10. MaxDuration \in Ds /\ \A t \in Timer : Duration[t] <= MaxDuration
    BY <1>9 DEF MaxDuration
  <1> QED BY <1>1, <1>10

LEMMA EmptyChain ==
  ASSUME NEW q, NEW m, NEW nxt, Chain(q, m, Null, nxt)
  PROVE  m = 0 /\ \A x : x \notin Members(q, m)
  <1>1. m \in Nat /\ \A i \in 1 .. m : q[i] # Null
    BY TimerAssumption DEF Chain, Row
  <1>2. Null = Elem(q, m, 1)
    BY DEF Chain
  <1>3. 1 \notin 1 .. m
    BY <1>1, <1>2 DEF Elem
  <1>4. m = 0
    BY <1>1, <1>3
  <1> QED BY <1>4 DEF Members

\* The first one of a chain that is not empty.
LEMMA FirstOfChain ==
  ASSUME NEW q, NEW m, NEW head, NEW nxt, Chain(q, m, head, nxt), head # Null
  PROVE  head \in Timer /\ head \in Members(q, m) /\ head = q[1] /\ 1 \in 1 .. m
  <1>1. head = Elem(q, m, 1) /\ \A i \in 1 .. m : q[i] \in Timer
    BY DEF Chain, Row
  <1>2. 1 \in 1 .. m /\ head = q[1]
    BY <1>1 DEF Elem
  <1> QED BY <1>1, <1>2 DEF Members

-----------------------------------------------------------------------------
\* The inductive invariant holds initially, and every action keeps it.
LEMMA IInvInit == Init => IInv
  <1> SUFFICES ASSUME Init PROVE IInv
    OBVIOUS
  <1> DEFINE e == [i \in 1 .. 0 |-> Null]
  <1>1. Duration \in [Timer -> Nat] /\ MaxBlock \in Nat
    BY TimerAssumption
  <1>2. Typed
    BY <1>1, PassFacts DEF Init, Typed, Pointers, Dues
  <1>3. Chain(e, 0, Null, next) /\ \A x : x \notin Members(e, 0)
    BY DEF Chain, Row, Elem, Members
  <1>4. Sorted(e, 0, left)
    BY DEF Sorted
  <1> HIDE DEF e
  <1>5. Lists(e, 0, e, 0)
    BY <1>3, <1>4 DEF Lists, Init
  <1>6. Timely(e, 0, e, 0)
    BY <1>1, <1>3 DEF Timely, Init
  <1> QED BY <1>2, <1>5, <1>6 DEF IInv

\* timer_add_msec while nothing is cut off.
LEMMA ArmKeeps ==
  ASSUME Typed, NEW q, NEW m, NEW e, NEW k, Lists(q, m, e, k), expired = Null, expired' = Null,
         NEW t \in Timer, Arm(t)
  PROVE  /\ next' \in Pointers /\ used' \in [Timer -> BOOLEAN] /\ left' \in Dues
         /\ left'[t] = Duration[t] /\ used'[t]
         /\ \A x \in Timer : x # t => left'[x] = left[x] /\ used'[x] = used[x]
         /\ \E p, n : /\ Lists(p, n, e, k)'
                      /\ \A x : x \in Members(p, n) <=> x \in Members(q, m) \/ x = t
  <1>1. Duration[t] \in Int
    BY TimerAssumption
  <1>2. /\ used' = [used EXCEPT ![t] = TRUE]
        /\ left' = [left EXCEPT ![t] = Duration[t]]
    BY DEF Arm
  <1>3. /\ used' \in [Timer -> BOOLEAN] /\ left' \in Dues
        /\ left'[t] = Duration[t] /\ used'[t]
        /\ \A x \in Timer : x # t => left'[x] = left[x] /\ used'[x] = used[x]
    BY <1>1, <1>2 DEF Typed, Dues
  <1>4. Chain(e, k, Null, next) /\ Chain(q, m, TQ, next) /\ Sorted(q, m, left)
    BY DEF Lists
  <1>5. \A x : x \notin Members(e, k)
    BY <1>4, EmptyChain
  <1>6. used[t] <=> t \in Members(q, m)
    BY <1>5 DEF Lists
  <1>7. next \in Pointers /\ left \in Dues
    BY DEF Typed
  <1>8. PICK p, n : /\ Chain(p, n, TQ', next')
                    /\ \A x : x \in Members(p, n) <=> x \in Members(q, m) \/ x = t
                    /\ Sorted(p, n, left')
                    /\ next' \in Pointers
    BY <1>4, <1>6, <1>7, ArmFacts
  <1>9. Chain(e, k, expired', next')
    BY <1>4, <1>5, ChainFrame
  <1>10. \A x \in Timer : used'[x] <=> x \in Members(p, n) \/ x \in Members(e, k)
    BY <1>3, <1>5, <1>8 DEF Lists
  <1>11. Lists(p, n, e, k)'
    BY <1>5, <1>8, <1>9, <1>10 DEF Lists
  <1> QED BY <1>3, <1>8, <1>11

LEMMA BootKeeps ==
  ASSUME IInv, NEW t \in Timer, Boot(t)
  PROVE  IInv'
  <1>1. Typed /\ pc = "boot"
    BY DEF IInv, Boot
  <1>2. PICK q, m, e, k : Lists(q, m, e, k) /\ Timely(q, m, e, k)
    BY DEF IInv
  <1>3. /\ Arm(t) /\ expired = Null /\ pc' \in {"loop", "boot"}
        /\ expired' = expired /\ age' = age /\ wake' = wake /\ block' = block
        /\ ready' = ready
    BY <1>1, <1>2 DEF Boot, Lists
  <1>4. /\ next' \in Pointers /\ used' \in [Timer -> BOOLEAN] /\ left' \in Dues
        /\ left'[t] = Duration[t] /\ used'[t]
        /\ \A x \in Timer : x # t => left'[x] = left[x] /\ used'[x] = used[x]
        /\ \E p, n : /\ Lists(p, n, e, k)'
                     /\ \A x : x \in Members(p, n) <=> x \in Members(q, m) \/ x = t
    BY <1>1, <1>2, <1>3, ArmKeeps
  <1>5. PICK p, n : /\ Lists(p, n, e, k)'
                    /\ \A x : x \in Members(p, n) <=> x \in Members(q, m) \/ x = t
    BY <1>4
  <1>6. Typed'
    BY <1>1, <1>3, <1>4 DEF Typed
  <1>7. \A x \in Timer : Duration[x] \in Nat /\ Duration[x] >= 1
    BY TimerAssumption
  <1>8. Chain(e, k, Null, next) /\ \A x : x \notin Members(e, k)
    <2>1. Chain(e, k, Null, next)
      BY <1>2, <1>3 DEF Lists
    <2> QED BY <2>1, EmptyChain
  <1>9. \A x \in Timer : left[x] \in Int
    BY <1>1 DEF Typed, Dues
  <1>10. \A x \in Timer : x \in Members(p, n) => left'[x] >= 1
    BY <1>1, <1>2, <1>4, <1>5, <1>7 DEF Timely
  <1>11. \A x \in Timer : left'[x] <= Duration[x] /\ (~ used'[x] => left'[x] = 0)
    BY <1>2, <1>4, <1>7 DEF Timely
  <1>12. age' = 0 /\ block' = 0 /\ wake' = 0
    BY <1>1, <1>2, <1>3 DEF Timely
  <1>13. \A x \in Timer : x \in Members(p, n) => left'[x] >= -Lag - Pass
    <2>1. \A x \in Timer : left'[x] \in Int
      BY <1>4 DEF Dues
    <2> QED BY <1>10, <1>12, <2>1, LagFacts, PassFacts
  <1>14. Timely(p, n, e, k)'
    BY <1>3, <1>8, <1>10, <1>11, <1>12, <1>13 DEF Timely
  <1> QED BY <1>5, <1>6, <1>14 DEF IInv

LEMMA AgeQueueKeeps ==
  ASSUME IInv, AgeQueue
  PROVE  IInv'
  <1>1. Typed
    BY DEF IInv
  <1>2. PICK q, m, e, k : Lists(q, m, e, k) /\ Timely(q, m, e, k)
    BY DEF IInv
  <1>3. /\ pc = "loop" /\ pc' = "handlers" /\ age' = 0 /\ block' = 0
        /\ used' = used /\ left' = left /\ wake' = wake /\ ready' = ready
    BY DEF AgeQueue
  <1>4. /\ Chain(q, m, TQ, next) /\ next \in Pointers /\ left \in Dues /\ Sorted(q, m, left)
        /\ \A x : x \notin Members(e, k)
    <2>1. Chain(e, k, Null, next)
      BY <1>2, <1>3 DEF Lists
    <2> QED BY <1>1, <1>2, <2>1, EmptyChain DEF Lists, Typed
  <1>5. PICK f, c, g, n :
          /\ Chain(f, c, expired', next') /\ Chain(g, n, TQ', next') /\ next' \in Pointers
          /\ \A x : x \in Members(q, m) <=> x \in Members(f, c) \/ x \in Members(g, n)
          /\ \A x : x \in Members(f, c) => x \notin Members(g, n) /\ left[x] <= 0
          /\ \A x : x \in Members(g, n) => left[x] >= 1
          /\ Sorted(g, n, left)
    BY <1>4, CutFacts
  <1>6. Typed'
    BY <1>1, <1>3, <1>5, LagFacts DEF Typed
  <1>7. \A x \in Timer : used[x] <=> x \in Members(g, n) \/ x \in Members(f, c)
    BY <1>2, <1>4, <1>5 DEF Lists
  <1>8. Lists(g, n, f, c)'
    BY <1>3, <1>5, <1>7 DEF Lists
  <1>9. c \in Nat /\ c <= N
    BY <1>5, ChainShort
  <1>10. age' + block' + c * MaxBlock <= Lag
    BY <1>3, <1>9, LagFacts
  <1>11. \A x \in Timer : left'[x] \in Int /\ left'[x] = left[x]
    BY <1>1, <1>3 DEF Typed, Dues
  <1>12. \A x \in Timer : x \in Members(f, c) => left'[x] + age' >= -Lag - Pass
    <2> SUFFICES ASSUME NEW x \in Timer, x \in Members(f, c)
                 PROVE  left'[x] + age' >= -Lag - Pass
      OBVIOUS
    <2>1. left[x] >= -Lag - Pass
      BY <1>2, <1>3, <1>5 DEF Timely
    <2> QED BY <1>3, <1>11, <2>1
  <1>13. \A x \in Timer : x \in Members(g, n) => left'[x] + age' >= 1
    BY <1>3, <1>5, <1>11
  <1>14. Timely(g, n, f, c)'
    BY <1>2, <1>3, <1>5, <1>10, <1>11, <1>12, <1>13 DEF Timely
  <1> QED BY <1>6, <1>8, <1>14 DEF IInv

LEMMA SelectKeeps ==
  ASSUME IInv, Select
  PROVE  IInv'
  <1>1. Typed
    BY DEF IInv
  <1>2. PICK q, m, e, k : Lists(q, m, e, k) /\ Timely(q, m, e, k)
    BY DEF IInv
  <1>3. /\ pc = "handlers" /\ expired = Null /\ pc' = "select" /\ age' = 0 /\ block' = 0
        /\ TQ' = TQ /\ next' = next /\ used' = used /\ left' = left /\ expired' = expired
        /\ wake' = (IF TQ = Null THEN Forever ELSE left[TQ] + age) /\ ready' = ready
    BY DEF Select, Remaining, list
  <1>4. /\ Chain(q, m, TQ, next) /\ k = 0 /\ \A x : x \notin Members(e, k)
    <2>1. Chain(e, k, Null, next)
      BY <1>2, <1>3 DEF Lists
    <2> QED BY <1>2, <2>1, EmptyChain DEF Lists
  <1>5. Lists(q, m, e, k)'
    BY <1>2, <1>3 DEF Lists
  <1>6. \A x \in Timer : left[x] \in Int /\ left[x] <= Duration[x] /\ Duration[x] \in Int
    BY <1>1, <1>2, TimerAssumption DEF Typed, Dues, Timely
  <1>7. age \in Int /\ 0 <= age /\ age <= Lag
    <2>1. age + block + k * MaxBlock <= Lag /\ 0 <= age /\ age \in Int /\ block \in Int /\ 0 <= block
      BY <1>1, <1>2, <1>3 DEF Timely, Typed
    <2>2. k * MaxBlock = 0
      BY <1>4, LagFacts
    <2> QED BY <2>1, <2>2, LagFacts
  <1>8. CASE TQ = Null
    <2>1. Chain(q, m, Null, next)
      BY <1>4, <1>8
    <2>2. \A x : x \notin Members(q, m)
      BY <2>1, EmptyChain
    <2>3. wake' = Forever /\ wake' \in Int
      BY <1>3, <1>8 DEF Forever
    <2>4. Typed'
      BY <1>1, <1>3, <2>3, LagFacts DEF Typed
    <2>5. Timely(q, m, e, k)'
      BY <1>2, <1>3, <1>4, <2>2, <2>3 DEF Timely
    <2> QED BY <1>5, <2>4, <2>5 DEF IInv
  <1>9. CASE TQ # Null
    <2>1. TQ \in Timer /\ TQ \in Members(q, m) /\ TQ = q[1] /\ 1 \in 1 .. m
      BY <1>4, <1>9, FirstOfChain
    <2>2. wake' = left[TQ] + age
      BY <1>3, <1>9
    <2>3. left[TQ] + age >= 1 /\ left[TQ] <= MaxDuration /\ MaxDuration \in Nat
      <3>1. left[TQ] + age >= 1
        BY <1>2, <1>3, <2>1 DEF Timely
      <3>2. left[TQ] <= Duration[TQ] /\ Duration[TQ] <= MaxDuration
        BY <1>6, <2>1, MaxDurationFacts
      <3> QED BY <1>6, <2>1, <3>1, <3>2, MaxDurationFacts
    <2>4. wake' \in Int /\ wake' >= 1 /\ wake' <= MaxDuration + Lag /\ wake' # Forever
      BY <1>6, <1>7, <2>1, <2>2, <2>3, LagFacts DEF Forever
    <2>5. \A x \in Timer : x \in Members(q, m) => left[x] >= wake' - Lag
      <3> SUFFICES ASSUME NEW x \in Timer, x \in Members(q, m) PROVE left[x] >= wake' - Lag
        OBVIOUS
      <3>1. PICK i \in 1 .. m : x = q[i]
        BY DEF Members
      <3>2. 1 <= i
        BY <2>1
      <3>3. left[q[1]] <= left[q[i]]
        BY <1>2, <2>1, <3>2 DEF Lists, Sorted
      <3>4. left[TQ] <= left[x]
        BY <2>1, <3>1, <3>3
      <3> QED BY <1>6, <1>7, <2>1, <2>2, <3>4, LagFacts
    <2>6. Typed'
      BY <1>1, <1>3, <2>4, LagFacts DEF Typed
    <2>7. 0 <= wake'
      BY <2>4
    <2>8. Timely(q, m, e, k)'
      BY <1>2, <1>3, <1>4, <2>4, <2>5, <2>7 DEF Timely
    <2> QED BY <1>5, <2>6, <2>8 DEF IInv
  <1> QED BY <1>8, <1>9

LEMMA TimeOutKeeps ==
  ASSUME IInv, TimeOut
  PROVE  IInv'
  <1>1. Typed
    BY DEF IInv
  <1>2. PICK q, m, e, k : Lists(q, m, e, k) /\ Timely(q, m, e, k)
    BY DEF IInv
  <1>3. /\ pc = "select" /\ wake = 0 /\ pc' = "loop"
        /\ TQ' = TQ /\ next' = next /\ used' = used /\ left' = left /\ expired' = expired
        /\ age' = age /\ wake' = wake /\ block' = block /\ ready' = ready
    BY DEF TimeOut, list
  <1>4. Typed' /\ Lists(q, m, e, k)'
    BY <1>1, <1>2, <1>3 DEF Typed, Lists
  <1>5. wake # Forever
    BY <1>3 DEF Forever
  <1>6. \A x \in Timer : x \in Members(q, m) => left[x] >= -Lag - Pass
    <2> SUFFICES ASSUME NEW x \in Timer, x \in Members(q, m)
                 PROVE  left[x] >= -Lag - Pass
      OBVIOUS
    <2>1. left[x] >= wake - Lag
      BY <1>2, <1>3, <1>5 DEF Timely
    <2>2. left[x] \in Int
      BY <1>1 DEF Typed, Dues
    <2> QED BY <1>3, <2>1, <2>2, LagFacts, PassFacts
  <1>7. Timely(q, m, e, k)'
    BY <1>2, <1>3, <1>6 DEF Timely
  <1> QED BY <1>4, <1>7 DEF IInv

LEMMA PacketsKeep ==
  ASSUME IInv, Packets
  PROVE  IInv'
  <1>1. Typed
    BY DEF IInv
  <1>2. PICK q, m, e, k : Lists(q, m, e, k) /\ Timely(q, m, e, k)
    BY DEF IInv
  <1>3. /\ pc = "select" /\ pc' = "callbacks" /\ wake' = 0 /\ block' = MaxBlock
        /\ ready' \in 1 .. Callbacks /\ expired' = expired /\ age' = age
        /\ TQ' = TQ /\ next' = next /\ used' = used /\ left' = left
    BY DEF Packets, list
  <1>4. /\ MaxBlock \in Nat /\ Lag \in Nat /\ Pass \in Nat
        /\ Rest(ready') \in Nat /\ Rest(ready') + MaxBlock <= Pass
    BY <1>3, LagFacts, PassFacts
  <1>5. Typed' /\ Lists(q, m, e, k)'
    BY <1>1, <1>2, <1>3, <1>4 DEF Typed, Lists
  <1>6. \A x \in Timer : x \in Members(q, m) => left[x] >= -Lag
    <2>1. CASE wake = Forever
      BY <1>2, <1>3, <2>1 DEF Timely
    <2>2. CASE wake # Forever
      <3>1. 0 <= wake /\ \A x \in Timer : x \in Members(q, m) => left[x] >= wake - Lag
        BY <1>2, <1>3, <2>2 DEF Timely
      <3>2. wake \in Int /\ \A x \in Timer : left[x] \in Int
        BY <1>1 DEF Typed, Dues
      <3> QED BY <1>4, <3>1, <3>2
    <2> QED BY <2>1, <2>2
  <1>7. \A x \in Timer : x \in Members(q, m) => left'[x] >= block' + Rest(ready') - Lag - Pass
    <2> SUFFICES ASSUME NEW x \in Timer, x \in Members(q, m)
                 PROVE  left'[x] >= block' + Rest(ready') - Lag - Pass
      OBVIOUS
    <2>1. left'[x] \in Int /\ left'[x] >= -Lag /\ block' = MaxBlock
      BY <1>1, <1>3, <1>6 DEF Typed, Dues
    <2> QED BY <1>4, <2>1
  <1>8. Timely(q, m, e, k)'
    BY <1>2, <1>3, <1>7 DEF Timely
  <1> QED BY <1>5, <1>8 DEF IInv

LEMMA ArmByPacketKeeps ==
  ASSUME IInv, NEW t \in Timer, ArmByPacket(t)
  PROVE  IInv'
  <1>1. Typed
    BY DEF IInv
  <1>2. PICK q, m, e, k : Lists(q, m, e, k) /\ Timely(q, m, e, k)
    BY DEF IInv
  <1>3. /\ pc = "callbacks" /\ pc' = pc /\ wake' = wake /\ block' = block /\ ready' = ready
        /\ expired' = expired /\ age' = age /\ expired = Null /\ Arm(t)
    BY <1>2 DEF ArmByPacket, Lists
  <1>4. /\ MaxBlock \in Nat /\ Lag \in Nat /\ Pass \in Nat /\ block \in Int
        /\ block <= MaxBlock /\ Rest(ready) \in Nat /\ Rest(ready) + MaxBlock <= Pass
    <2>1. ready \in 1 .. Callbacks
      BY <1>1, <1>3, PassFacts DEF Typed
    <2> QED BY <1>1, <2>1, LagFacts, PassFacts DEF Typed
  <1>5. \A x \in Timer : left[x] \in Int /\ Duration[x] \in Nat /\ Duration[x] >= 1
    BY <1>1, TimerAssumption DEF Typed, Dues
  <1>6. \A x : x \notin Members(e, k)
    <2>1. Chain(e, k, Null, next)
      BY <1>2, <1>3 DEF Lists
    <2> QED BY <2>1, EmptyChain
  <1>7. /\ next' \in Pointers /\ used' \in [Timer -> BOOLEAN] /\ left' \in Dues
        /\ left'[t] = Duration[t] /\ used'[t]
        /\ \A x \in Timer : x # t => left'[x] = left[x] /\ used'[x] = used[x]
        /\ \E p, n : /\ Lists(p, n, e, k)'
                     /\ \A x : x \in Members(p, n) <=> x \in Members(q, m) \/ x = t
    BY <1>1, <1>2, <1>3, ArmKeeps
  <1>8. PICK p, n : /\ Lists(p, n, e, k)'
                    /\ \A x : x \in Members(p, n) <=> x \in Members(q, m) \/ x = t
    BY <1>7
  <1>9. Typed'
    BY <1>1, <1>3, <1>7 DEF Typed
  <1>10. \A x \in Timer : left'[x] <= Duration[x] /\ (~ used'[x] => left'[x] = 0)
    BY <1>2, <1>5, <1>7 DEF Timely
  <1>11. \A x \in Timer : x \in Members(p, n) => left'[x] >= block' + Rest(ready') - Lag - Pass
    <2> SUFFICES ASSUME NEW x \in Timer, x \in Members(p, n)
                 PROVE  left'[x] >= block + Rest(ready) - Lag - Pass
      BY <1>3
    <2>1. CASE x = t
      BY <1>4, <1>5, <1>7, <2>1
    <2>2. CASE x # t
      BY <1>2, <1>3, <1>7, <1>8, <2>2 DEF Timely
    <2> QED BY <2>1, <2>2
  <1>12. age' = 0 /\ wake' = 0
    BY <1>2, <1>3 DEF Timely
  <1>13. Timely(p, n, e, k)'
    BY <1>3, <1>6, <1>10, <1>11, <1>12 DEF Timely
  <1> QED BY <1>8, <1>9, <1>13 DEF IInv

LEMMA ReturnKeeps ==
  ASSUME IInv, Return
  PROVE  IInv'
  <1>1. Typed
    BY DEF IInv
  <1>2. PICK q, m, e, k : Lists(q, m, e, k) /\ Timely(q, m, e, k)
    BY DEF IInv
  <1>3. /\ pc = "callbacks" /\ ready' = ready - 1
        /\ TQ' = TQ /\ next' = next /\ used' = used /\ left' = left
        /\ expired' = expired /\ age' = age /\ wake' = wake
    BY DEF Return, list
  <1>4. /\ MaxBlock \in Nat /\ Lag \in Nat /\ Pass \in Nat /\ block \in Int /\ 0 <= block
        /\ ready \in 1 .. Callbacks /\ Rest(ready) \in Nat
    <2>1. ready \in 1 .. Callbacks
      BY <1>1, <1>3, PassFacts DEF Typed
    <2> QED BY <1>1, <2>1, LagFacts, PassFacts DEF Typed
  <1>5. \A x \in Timer : left[x] \in Int
    BY <1>1 DEF Typed, Dues
  <1>6. \A x \in Timer : x \in Members(q, m) => left[x] >= block + Rest(ready) - Lag - Pass
    BY <1>2, <1>3 DEF Timely
  <1>7. expired = Null /\ age = 0 /\ wake = 0
    BY <1>2, <1>3 DEF Lists, Timely
  <1>8. CASE ready = 1
    <2>1. pc' = "loop" /\ block' = 0 /\ ready' = 0
      BY <1>3, <1>8 DEF Return
    <2>2. Typed' /\ Lists(q, m, e, k)'
      <3>1. ready' \in 0 .. Callbacks /\ (ready' = 0 <=> pc' # "callbacks")
        BY <2>1, PassFacts
      <3>2. Typed'
        BY <1>1, <1>3, <1>4, <2>1, <3>1 DEF Typed
      <3>3. Lists(q, m, e, k)'
        BY <1>2, <1>3, <1>7 DEF Lists
      <3> QED BY <3>2, <3>3
    <2>3. \A x \in Timer : x \in Members(q, m) => left'[x] >= -Lag - Pass
      BY <1>3, <1>4, <1>5, <1>6
    <2>4. Timely(q, m, e, k)'
      BY <1>2, <1>3, <1>7, <2>1, <2>3 DEF Timely
    <2> QED BY <2>2, <2>4 DEF IInv
  <1>9. CASE ready # 1
    <2>1. pc' = "callbacks" /\ block' = MaxBlock /\ ready' \in 1 .. Callbacks
      BY <1>3, <1>4, <1>9, PassFacts DEF Return
    <2>2. Typed' /\ Lists(q, m, e, k)'
      <3>1. ready' \in 0 .. Callbacks /\ (ready' = 0 <=> pc' # "callbacks")
        BY <2>1, PassFacts
      <3>2. Typed'
        BY <1>1, <1>3, <1>4, <2>1, <3>1 DEF Typed
      <3>3. Lists(q, m, e, k)'
        BY <1>2, <1>3, <1>7 DEF Lists
      <3> QED BY <3>2, <3>3
    <2>3. Rest(ready) = Rest(ready') + MaxBlock /\ Rest(ready') \in Nat
      BY <1>3, <1>4, <1>9, <2>1, PassFacts
    <2>4. \A x \in Timer :
            x \in Members(q, m) => left'[x] >= block' + Rest(ready') - Lag - Pass
      BY <1>3, <1>4, <1>5, <1>6, <2>1, <2>3
    <2>5. Timely(q, m, e, k)'
      BY <1>2, <1>3, <1>7, <2>1, <2>4 DEF Timely
    <2> QED BY <2>2, <2>5 DEF IInv
  <1> QED BY <1>8, <1>9

LEMMA HandleKeeps ==
  ASSUME IInv, NEW t \in Timer, Handle(t)
  PROVE  IInv'
  <1>1. Typed
    BY DEF IInv
  <1>2. PICK q, m, e, k : Lists(q, m, e, k) /\ Timely(q, m, e, k)
    BY DEF IInv
  <1> DEFINE f == Removed(e, k, 1)
             c == k - 1
  <1>3. /\ pc = "handlers" /\ expired = t /\ expired' = next[t] /\ block' = MaxBlock
        /\ pc' = pc /\ age' = age /\ wake' = wake /\ ready' = ready
    BY DEF Handle
  <1>4. /\ Chain(q, m, TQ, next) /\ Chain(e, k, t, next) /\ Sorted(q, m, left)
        /\ next \in Pointers /\ left \in Dues
    BY <1>1, <1>2, <1>3 DEF Lists, Typed
  <1>5. t \in Members(e, k) /\ t \notin Members(q, m) /\ t # Null
    <2>1. t # Null
      BY TimerAssumption
    <2>2. t \in Members(e, k)
      BY <1>4, <2>1, FirstOfChain
    <2> QED BY <1>2, <2>1, <2>2 DEF Lists
  <1>6. k >= 1 /\ k \in Nat /\ e[1] = t /\ Chain(f, c, next[t], next)
    BY <1>4, ChainHead
  <1>7. /\ \A x : x \in Members(f, c) <=> x \in Members(e, k) /\ x # t
    <2>1. Row(e, k)
      BY <1>4 DEF Chain
    <2>2. 1 \in Int /\ 1 <= 1 /\ 1 <= k
      BY <1>6
    <2>3. Members(f, c) = Members(e, k) \ {e[1]}
      BY <2>1, <2>2, RemovedFacts
    <2> HIDE DEF f, c
    <2> QED BY <1>6, <2>3
  <1>8. /\ \A x \in Timer : left[x] \in Int /\ Duration[x] \in Nat /\ Duration[x] >= 1
        /\ age \in Int /\ 0 <= age /\ block \in Int /\ 0 <= block
    BY <1>1, <1>2, <1>3, TimerAssumption DEF Typed, Dues, Timely
  <1>9. age' + block' + c * MaxBlock <= Lag
    <2>1. age + block + k * MaxBlock <= Lag
      BY <1>2, <1>3 DEF Timely
    <2>2. c \in Nat /\ k = c + 1 /\ k <= N
      BY <1>4, <1>6, ChainShort
    <2>3. c <= N /\ k * MaxBlock = c * MaxBlock + MaxBlock
      BY <2>2, LagFacts, TimersCounted
    <2>4. c * MaxBlock \in Int /\ MaxBlock \in Int /\ Lag \in Int
      BY <2>2, <2>3, LagFacts
    <2> DEFINE w == c * MaxBlock
               v == k * MaxBlock
    <2>5. age + block + v <= Lag /\ v = w + MaxBlock /\ w \in Int
      BY <2>1, <2>3, <2>4
    <2> HIDE DEF w, v
    <2>6. age + MaxBlock + w <= Lag
      BY <1>8, <2>4, <2>5
    <2>7. age' + block' + w <= Lag
      BY <1>3, <2>6
    <2> QED BY <2>7 DEF w
  <1> HIDE DEF f, c
  <1>10. \A x \in Timer : x \in Members(f, c) => left[x] <= 0 /\ left[x] + age >= -Lag - Pass
    BY <1>2, <1>3, <1>7 DEF Timely
  <1>11. ASSUME /\ used' = [used EXCEPT ![t] = FALSE] /\ left' = [left EXCEPT ![t] = 0]
                /\ TQ' = TQ /\ next' = next
         PROVE  IInv'
    <2>1. /\ left' \in Dues /\ used' \in [Timer -> BOOLEAN]
          /\ left'[t] = 0 /\ ~ used'[t]
          /\ \A x \in Timer : x # t => left'[x] = left[x] /\ used'[x] = used[x]
      BY <1>1, <1>11 DEF Typed, Dues
    <2>2. Typed'
      BY <1>1, <1>3, <1>11, <2>1, LagFacts DEF Typed
    <2>3. Sorted(q, m, left')
      <3>1. \A i \in 1 .. m : q[i] \in Timer /\ q[i] # t
        BY <1>4, <1>5 DEF Chain, Row, Members
      <3> QED BY <1>4, <2>1, <3>1 DEF Sorted
    <2>4. \A x \in Timer : used'[x] <=> x \in Members(q, m) \/ x \in Members(f, c)
      BY <1>2, <1>5, <1>7, <2>1 DEF Lists
    <2>5. \A x \in Timer : x \in Members(q, m) => x \notin Members(f, c)
      BY <1>2, <1>7 DEF Lists
    <2>6. Lists(q, m, f, c)'
      BY <1>3, <1>4, <1>6, <1>11, <2>3, <2>4, <2>5 DEF Lists
    <2>7. \A x \in Timer : x \in Members(q, m) => left'[x] + age >= 1
      BY <1>2, <1>3, <1>5, <2>1 DEF Timely
    <2>8. \A x \in Timer :
            x \in Members(f, c) => left'[x] <= 0 /\ left'[x] + age >= -Lag - Pass
      BY <1>7, <1>10, <2>1
    <2>9. \A x \in Timer : left'[x] <= Duration[x] /\ (~ used'[x] => left'[x] = 0)
      BY <1>2, <1>8, <2>1 DEF Timely
    <2>10. Timely(q, m, f, c)'
      BY <1>2, <1>3, <1>8, <1>9, <2>7, <2>8, <2>9 DEF Timely
    <2> QED BY <2>2, <2>6, <2>10 DEF IInv
  <1>12. ASSUME Insert(t, TQ, next), left' = [left EXCEPT ![t] = Duration[t]], used' = used
         PROVE  IInv'
    <2>1. /\ left' \in Dues /\ left'[t] = Duration[t]
          /\ \A x \in Timer : x # t => left'[x] = left[x]
      BY <1>8, <1>12, <1>4 DEF Dues
    <2>2. PICK p : /\ Chain(p, m + 1, TQ', next')
                   /\ Members(p, m + 1) = Members(q, m) \cup {t}
                   /\ Sorted(p, m + 1, [left EXCEPT ![t] = Duration[t]])
                   /\ next' \in Pointers
                   /\ \A x \in Timer : x \notin Members(q, m) \cup {t} => next'[x] = next[x]
      <3>1. Insert(t, TQ, next) /\ t \notin Members(q, m)
        BY <1>5, <1>12
      <3> QED BY <1>4, <3>1, InsertFacts
    <2> DEFINE n == m + 1
    <2>3. /\ Chain(p, n, TQ', next') /\ Sorted(p, n, left') /\ next' \in Pointers
          /\ \A x : x \in Members(p, n) <=> x \in Members(q, m) \/ x = t
      BY <1>12, <2>2
    <2> HIDE DEF n
    <2>4. Chain(f, c, expired', next')
      <3>1. \A x \in Timer : x \in Members(f, c) => next'[x] = next[x]
        BY <1>2, <1>7, <2>2 DEF Lists
      <3>2. Chain(f, c, next[t], next')
        BY <1>6, <3>1, ChainFrame
      <3> QED BY <1>3, <3>2
    <2>5. Typed'
      BY <1>1, <1>3, <1>12, <2>1, <2>3, LagFacts DEF Typed
    <2>6. \A x \in Timer : used'[x] <=> x \in Members(p, n) \/ x \in Members(f, c)
      BY <1>2, <1>5, <1>7, <1>12, <2>3 DEF Lists
    <2>7. \A x \in Timer : x \in Members(p, n) => x \notin Members(f, c)
      BY <1>2, <1>7, <2>3 DEF Lists
    <2>8. Lists(p, n, f, c)'
      BY <1>3, <2>3, <2>4, <2>6, <2>7 DEF Lists
    <2>9. \A x \in Timer : x \in Members(p, n) => left'[x] + age >= 1
      <3> SUFFICES ASSUME NEW x \in Timer, x \in Members(p, n) PROVE left'[x] + age >= 1
        OBVIOUS
      <3>1. CASE x = t
        BY <1>8, <2>1, <3>1
      <3>2. CASE x # t
        BY <1>2, <1>3, <2>1, <2>3, <3>2 DEF Timely
      <3> QED BY <3>1, <3>2
    <2>10. \A x \in Timer :
             x \in Members(f, c) => left'[x] <= 0 /\ left'[x] + age >= -Lag - Pass
      BY <1>7, <1>10, <2>1
    <2>11. \A x \in Timer : left'[x] <= Duration[x] /\ (~ used'[x] => left'[x] = 0)
      <3>1. used[t]
        BY <1>2, <1>5 DEF Lists
      <3> QED BY <1>2, <1>8, <1>12, <2>1, <3>1 DEF Timely
    <2>12. Timely(p, n, f, c)'
      BY <1>2, <1>3, <1>8, <1>9, <2>9, <2>10, <2>11 DEF Timely
    <2> QED BY <2>5, <2>8, <2>12 DEF IInv
  <1> QED BY <1>11, <1>12 DEF Handle

LEMMA TickKeeps ==
  ASSUME IInv, Tick
  PROVE  IInv'
  <1>1. Typed
    BY DEF IInv
  <1>2. PICK q, m, e, k : Lists(q, m, e, k) /\ Timely(q, m, e, k)
    BY DEF IInv
  <1>3. /\ pc' = pc /\ TQ' = TQ /\ next' = next /\ used' = used /\ expired' = expired
        /\ left' = [t \in Timer |-> IF t \in Armed THEN left[t] - 1 ELSE 0] /\ ready' = ready
    BY DEF Tick, list
  <1>4. \A t \in Timer : t \in Armed <=> used[t]
    <2>1. OnList(TQ, next) = Members(q, m) /\ OnList(expired, next) = Members(e, k)
      BY <1>2, ChainOnList DEF Lists
    <2> QED BY <1>2, <2>1 DEF Lists, Armed
  <1>5. \A t \in Timer : left[t] \in Int /\ Duration[t] \in Nat
    BY <1>1, TimerAssumption DEF Typed, Dues
  <1>6. /\ left' \in Dues
        /\ \A t \in Timer : used[t] => left'[t] = left[t] - 1
        /\ \A t \in Timer : ~ used[t] => left'[t] = 0
    BY <1>3, <1>4, <1>5 DEF Dues
  <1>7. \A t \in Timer : t \in Members(q, m) \/ t \in Members(e, k) => used[t]
    BY <1>2 DEF Lists
  <1>8. Sorted(q, m, left')
    <2>1. \A i \in 1 .. m : q[i] \in Timer /\ q[i] \in Members(q, m)
      BY <1>2 DEF Lists, Chain, Row, Members
    <2>2. \A i \in 1 .. m : left'[q[i]] = left[q[i]] - 1 /\ left[q[i]] \in Int
      BY <1>5, <1>6, <1>7, <2>1
    <2>3. \A i \in 1 .. m, j \in 1 .. m : i <= j => left[q[i]] <= left[q[j]]
      BY <1>2 DEF Lists, Sorted
    <2>4. \A i \in 1 .. m, j \in 1 .. m : i <= j => left'[q[i]] <= left'[q[j]]
      <3> SUFFICES ASSUME NEW i \in 1 .. m, NEW j \in 1 .. m, i <= j
                   PROVE  left'[q[i]] <= left'[q[j]]
        OBVIOUS
      <3>1. left[q[i]] <= left[q[j]]
        BY <2>3
      <3> QED BY <2>2, <3>1
    <2> QED BY <2>4 DEF Sorted
  <1>9. Lists(q, m, e, k)'
    BY <1>2, <1>3, <1>8 DEF Lists
  <1>10. \A t \in Timer : left'[t] <= Duration[t] /\ (~ used'[t] => left'[t] = 0)
    BY <1>2, <1>3, <1>5, <1>6 DEF Timely
  <1>11. \A t \in Timer : t \in Members(e, k) => left'[t] <= 0
    <2>1. \A t \in Timer : t \in Members(e, k) => left[t] <= 0
      BY <1>2 DEF Timely
    <2> QED BY <1>5, <1>6, <1>7, <2>1
  <1>12. /\ age \in Int /\ block \in Int /\ wake \in Int /\ block <= MaxBlock
         /\ MaxBlock \in Int /\ Lag \in Int
    BY <1>1, LagFacts DEF Typed
  <1>13. CASE /\ pc = "select" /\ wake # 0 /\ age' = age /\ block' = block
              /\ wake' = IF wake = Forever THEN wake ELSE wake - 1
    <2>1. Typed'
      BY <1>1, <1>3, <1>6, <1>12, <1>13 DEF Typed
    <2>2. CASE wake = Forever
      <3>1. Timely(q, m, e, k)'
        BY <1>2, <1>3, <1>10, <1>11, <1>13, <2>2 DEF Timely
      <3> QED BY <1>9, <2>1, <3>1 DEF IInv
    <2>3. CASE wake # Forever
      <3>1. /\ 0 <= wake /\ wake <= MaxDuration + Lag /\ wake' = wake - 1
            /\ \A t \in Timer : t \in Members(q, m) => left[t] >= wake - Lag
        BY <1>2, <1>13, <2>3 DEF Timely
      <3>2. 0 <= wake' /\ wake' <= MaxDuration + Lag /\ wake' # Forever
        BY <1>12, <1>13, <3>1, MaxDurationFacts DEF Forever
      <3>3. \A t \in Timer : t \in Members(q, m) => left'[t] >= wake' - Lag
        <4> SUFFICES ASSUME NEW t \in Timer, t \in Members(q, m)
                     PROVE  left'[t] >= wake' - Lag
          OBVIOUS
        <4>1. left[t] >= wake - Lag /\ left'[t] = left[t] - 1 /\ left[t] \in Int
          BY <1>5, <1>6, <1>7, <3>1
        <4> QED BY <1>12, <3>1, <4>1
      <3>4. Timely(q, m, e, k)'
        BY <1>2, <1>3, <1>10, <1>11, <1>13, <3>2, <3>3 DEF Timely
      <3> QED BY <1>9, <2>1, <3>4 DEF IInv
    <2> QED BY <2>2, <2>3
  <1>14. CASE /\ pc \in {"handlers", "callbacks"} /\ block > 0 /\ block' = block - 1
              /\ age' = (IF pc = "handlers" THEN age + 1 ELSE age) /\ wake' = wake
    <2>1. Typed'
      BY <1>1, <1>3, <1>6, <1>12, <1>14 DEF Typed
    <2>2. CASE pc = "callbacks"
      <3>1. \A t \in Timer :
              t \in Members(q, m) => left'[t] >= block' + Rest(ready') - Lag - Pass
        <4> SUFFICES ASSUME NEW t \in Timer, t \in Members(q, m)
                     PROVE  left'[t] >= block' + Rest(ready) - Lag - Pass
          BY <1>3
        <4>1. /\ left[t] >= block + Rest(ready) - Lag - Pass
              /\ left'[t] = left[t] - 1 /\ left[t] \in Int
          BY <1>2, <1>5, <1>6, <1>7, <2>2 DEF Timely
        <4>2. Rest(ready) \in Nat /\ Pass \in Nat
          <5>1. ready \in 1 .. Callbacks
            BY <1>1, <2>2, PassFacts DEF Typed
          <5> QED BY <5>1, PassFacts
        <4> QED BY <1>12, <1>14, <4>1, <4>2
      <3>2. Timely(q, m, e, k)'
        BY <1>2, <1>3, <1>10, <1>11, <1>14, <2>2, <3>1 DEF Timely
      <3> QED BY <1>9, <2>1, <3>2 DEF IInv
    <2>3. CASE pc = "handlers"
      <3>1. 0 <= age /\ age + block + k * MaxBlock <= Lag /\ age' = age + 1
        BY <1>2, <1>14, <2>3 DEF Timely
      <3>2. 0 <= age' /\ age' + block' + k * MaxBlock <= Lag
        <4>1. age' + block' = age + block /\ 0 <= age'
          BY <1>12, <1>14, <3>1
        <4> QED BY <3>1, <4>1
      <3>3. \A t \in Timer : used[t] => left'[t] + age' = left[t] + age
        BY <1>5, <1>6, <1>12, <3>1
      <3>4. /\ \A t \in Timer : t \in Members(q, m) => left'[t] + age' >= 1
            /\ \A t \in Timer : t \in Members(e, k) => left'[t] + age' >= -Lag - Pass
        BY <1>2, <1>7, <2>3, <3>3 DEF Timely
      <3>5. Timely(q, m, e, k)'
        BY <1>2, <1>3, <1>10, <1>11, <1>14, <2>3, <3>2, <3>4 DEF Timely
      <3> QED BY <1>9, <2>1, <3>5 DEF IInv
    <2> QED BY <1>14, <2>2, <2>3
  <1> QED BY <1>13, <1>14 DEF Tick

LEMMA IInvStep == IInv /\ [Next]_vars => IInv'
  <1> SUFFICES ASSUME IInv, [Next]_vars PROVE IInv'
    OBVIOUS
  <1>1. CASE \E t \in Timer : Boot(t)
    BY <1>1, BootKeeps
  <1>2. CASE AgeQueue
    BY <1>2, AgeQueueKeeps
  <1>3. CASE \E t \in Timer : Handle(t)
    BY <1>3, HandleKeeps
  <1>4. CASE Select
    BY <1>4, SelectKeeps
  <1>5. CASE TimeOut
    BY <1>5, TimeOutKeeps
  <1>6. CASE Packets
    BY <1>6, PacketsKeep
  <1>7. CASE \E t \in Timer : ArmByPacket(t)
    BY <1>7, ArmByPacketKeeps
  <1>8. CASE Return
    BY <1>8, ReturnKeeps
  <1>9. CASE Tick
    BY <1>9, TickKeeps
  <1>10. CASE UNCHANGED vars
    <2>1. PICK q, m, e, k : Lists(q, m, e, k) /\ Timely(q, m, e, k)
      BY DEF IInv
    <2>2. /\ pc' = pc /\ TQ' = TQ /\ next' = next /\ used' = used /\ left' = left
          /\ expired' = expired /\ age' = age /\ wake' = wake /\ block' = block
          /\ ready' = ready
      BY <1>10 DEF vars, list
    <2>3. Typed' /\ Lists(q, m, e, k)' /\ Timely(q, m, e, k)'
      BY <2>1, <2>2 DEF IInv, Typed, Lists, Timely
    <2> QED BY <2>3 DEF IInv
  <1> QED BY <1>1, <1>2, <1>3, <1>4, <1>5, <1>6, <1>7, <1>8, <1>9, <1>10
      DEF Next

LEMMA Invariance == Spec => []IInv
  BY IInvInit, IInvStep, PTL DEF Spec

ArmedAreUsed == Armed = {t \in Timer : used[t]}

\* What the invariant says of the operators of the module.
LEMMA ArmedIsUsed ==
  ASSUME NEW q, NEW m, NEW e, NEW k, Lists(q, m, e, k)
  PROVE  /\ OnList(TQ, next) = Members(q, m) /\ OnList(expired, next) = Members(e, k)
         /\ ArmedAreUsed
  <1>1. Chain(q, m, TQ, next) /\ Chain(e, k, expired, next)
    BY DEF Lists
  <1>2. OnList(TQ, next) = Members(q, m) /\ OnList(expired, next) = Members(e, k)
    BY <1>1, ChainOnList
  <1>3. \A t : t \in Members(q, m) \/ t \in Members(e, k) => t \in Timer
    BY <1>1 DEF Chain, Row, Members
  <1>4. \A t : t \in Armed <=> t \in Timer /\ used[t]
    BY <1>2, <1>3 DEF Armed, Lists
  <1> QED BY <1>2, <1>4 DEF ArmedAreUsed

-----------------------------------------------------------------------------
(***************************************************************************)
(* Type correctness: timer_age_queue never computes a timeout for select   *)
(* below zero, but for the one that stands for an empty queue.             *)
(***************************************************************************)
THEOREM TypeCorrect == Spec => []TypeInvariant
  <1>1. IInv => TypeInvariant
    <2> SUFFICES ASSUME IInv PROVE TypeInvariant
      OBVIOUS
    <2>1. PICK q, m, e, k : Lists(q, m, e, k) /\ Timely(q, m, e, k)
      BY DEF IInv
    <2>2. Typed
      BY DEF IInv
    <2>3. TQ \in Timer \cup {Null} /\ expired \in Timer \cup {Null}
      BY <2>1, FirstOfChain DEF Lists
    <2>4. /\ age \in Int /\ wake \in Int /\ block \in Int /\ 0 <= block /\ block <= MaxBlock
          /\ Lag \in Nat /\ MaxBlock \in Nat /\ MaxDuration \in Nat /\ Lag = N * MaxBlock
      BY <2>2, LagFacts, MaxDurationFacts DEF Typed, Lag
    <2>5. age \in 0 .. Lag
      <3>1. CASE pc # "handlers"
        BY <2>1, <2>4, <3>1 DEF Timely
      <3>2. CASE pc = "handlers"
        <4>1. k \in Nat /\ k <= N
          BY <2>1, ChainShort DEF Lists
        <4>2. k * MaxBlock \in Nat
          BY <4>1, LagFacts
        <4>3. 0 <= age /\ age + block + k * MaxBlock <= Lag
          BY <2>1, <3>2 DEF Timely
        <4> DEFINE w == k * MaxBlock
        <4>4. 0 <= age /\ age + block + w <= Lag /\ w \in Nat
          BY <4>2, <4>3
        <4> HIDE DEF w
        <4> QED BY <2>4, <4>4
      <3> QED BY <3>1, <3>2
    <2>6. wake \in {Forever} \cup 0 .. MaxDuration + Lag
      BY <2>1, <2>4 DEF Timely
    <2>7. block \in 0 .. MaxBlock
      BY <2>4
    <2> QED BY <2>2, <2>3, <2>5, <2>6, <2>7 DEF TypeInvariant, Typed, Pointers, Dues, Lag
  <1> QED BY <1>1, Invariance, PTL

(***************************************************************************)
(* The lists stay sound through timer_add_msec, timer_remove and           *)
(* timer_timeout: no timer is lost, on two lists or twice on one.          *)
(***************************************************************************)
THEOREM ListsAreSound == Spec => []SoundLists
  <1>1. IInv => SoundLists
    <2> SUFFICES ASSUME IInv PROVE SoundLists
      OBVIOUS
    <2>1. PICK q, m, e, k : Lists(q, m, e, k)
      BY DEF IInv
    <2>2. Chain(q, m, TQ, next) /\ Chain(e, k, expired, next)
      BY <2>1 DEF Lists
    <2>3. /\ OnList(TQ, next) = Members(q, m) /\ OnList(expired, next) = Members(e, k)
          /\ Armed = {t \in Timer : used[t]}
      BY <2>1, ArmedIsUsed DEF ArmedAreUsed
    <2>4. Nodes(TQ, next)[N + 1] = Null /\ Nodes(expired, next)[N + 1] = Null
      BY <2>2, ChainOnList
    <2>5. OnList(TQ, next) \cap OnList(expired, next) = {}
      <3>1. \A t \in Members(q, m) : t \in Timer
        BY <2>2 DEF Chain, Row, Members
      <3> QED BY <2>1, <2>3, <3>1 DEF Lists
    <2>6. ASSUME NEW t \in OnList(TQ, next), next[t] # Null PROVE left[t] <= left[next[t]]
      <3>1. PICK i \in 1 .. m : t = q[i]
        BY <2>3, <2>6 DEF Members
      <3>2. m \in Nat /\ next[t] = Elem(q, m, i + 1)
        BY <2>2, <3>1 DEF Chain, Row
      <3>3. i + 1 \in 1 .. m /\ next[t] = q[i + 1] /\ i <= i + 1
        BY <2>6, <3>2 DEF Elem
      <3> QED BY <2>1, <3>1, <3>3 DEF Lists, Sorted
    <2> QED BY <2>3, <2>4, <2>5, <2>6 DEF SoundLists
  <1> QED BY <1>1, Invariance, PTL

(***************************************************************************)
(* No timer is served later than MaxLate: twice what all handlers can      *)
(* block for together, and what the callbacks of one pass can, less one    *)
(* handler.  Select is given a timeout that ignores the handlers, and no   *)
(* timer is looked at between two callbacks.                               *)
(***************************************************************************)
THEOREM LateIsBounded == Spec => []LateBound
  <1>1. IInv => LateBound
    <2> SUFFICES ASSUME IInv, NEW t \in Armed PROVE left[t] >= -MaxLate
      BY DEF LateBound
    <2>1. PICK q, m, e, k : Lists(q, m, e, k) /\ Timely(q, m, e, k)
      BY DEF IInv
    <2>2. /\ age \in Int /\ wake \in Int /\ block \in Int /\ 0 <= block /\ block <= MaxBlock
          /\ Lag \in Nat /\ MaxBlock \in Nat /\ MaxBlock <= Lag
          /\ Pass \in Nat /\ MaxBlock <= Pass
          /\ pc \in {"boot", "loop", "handlers", "select", "callbacks"}
          /\ \A x \in Timer : left[x] \in Int
      BY LagFacts, PassFacts DEF IInv, Typed, Dues
    <2>3. t \in Timer /\ left[t] \in Int /\ (t \in Members(q, m) \/ t \in Members(e, k))
      BY <2>1, <2>2, ArmedIsUsed DEF Lists, ArmedAreUsed
    <2>4. MaxLate = 2 * Lag + Pass - MaxBlock
      BY <2>2, TimersCounted, PassFacts DEF MaxLate, Lag, Pass
    <2>5. CASE t \in Members(e, k)
      <3>1. pc = "handlers"
        <4>1. expired = Null => \A x : x \notin Members(e, k)
          BY <2>1, EmptyChain DEF Lists
        <4> QED BY <2>1, <2>5, <4>1 DEF Lists
      <3>2. left[t] + age >= -Lag - Pass /\ age + block + k * MaxBlock <= Lag
        BY <2>1, <2>3, <2>5, <3>1 DEF Timely
      <3>3. k \in Nat /\ k >= 1 /\ k <= N
        <4>1. k \in Nat /\ k <= N
          BY <2>1, ChainShort DEF Lists
        <4> QED BY <2>5, <4>1 DEF Members
      <3> DEFINE j == k - 1
                 w == k * MaxBlock
                 v == j * MaxBlock
      <3>4. j \in Nat /\ j <= N /\ k = j + 1
        BY <3>3, TimersCounted
      <3>5. v \in Nat /\ w = v + MaxBlock
        BY <3>4, LagFacts
      <3>6. age + block + w <= Lag
        BY <3>2
      <3> HIDE DEF w, v, j
      <3>7. age <= Lag - MaxBlock
        BY <2>2, <3>5, <3>6
      <3> QED BY <2>2, <2>3, <2>4, <3>2, <3>7
    <2>6. CASE t \in Members(q, m)
      <3>1. CASE pc = "boot"
        BY <2>1, <2>2, <2>3, <2>4, <2>6, <3>1 DEF Timely
      <3>2. CASE pc = "loop"
        <4>1. left[t] >= -Lag - Pass
          BY <2>1, <2>3, <2>6, <3>2 DEF Timely
        <4> QED BY <2>2, <2>3, <2>4, <4>1
      <3>3. CASE pc = "handlers"
        <4>1. left[t] + age >= 1 /\ age + block + k * MaxBlock <= Lag
          BY <2>1, <2>3, <2>6, <3>3 DEF Timely
        <4>2. k \in Nat /\ k <= N
          BY <2>1, ChainShort DEF Lists
        <4> DEFINE w == k * MaxBlock
        <4>3. w \in Nat /\ age + block + w <= Lag
          BY <4>1, <4>2, LagFacts
        <4> HIDE DEF w
        <4> QED BY <2>2, <2>3, <2>4, <4>1, <4>3
      <3>4. CASE pc = "select"
        <4>1. wake # Forever
          BY <2>1, <2>3, <2>6, <3>4 DEF Timely
        <4>2. 0 <= wake /\ left[t] >= wake - Lag
          BY <2>1, <2>3, <2>6, <3>4, <4>1 DEF Timely
        <4> QED BY <2>2, <2>3, <2>4, <4>2
      <3>5. CASE pc = "callbacks"
        <4>1. left[t] >= block + Rest(ready) - Lag - Pass
          BY <2>1, <2>3, <2>6, <3>5 DEF Timely
        <4>2. Rest(ready) \in Nat
          <5>1. ready \in 1 .. Callbacks
            BY <3>5, PassFacts DEF IInv, Typed
          <5> QED BY <5>1, PassFacts
        <4> QED BY <2>2, <2>3, <2>4, <4>1, <4>2
      <3> QED BY <2>2, <3>1, <3>2, <3>3, <3>4, <3>5
    <2> QED BY <2>3, <2>5, <2>6
  <1> QED BY <1>1, Invariance, PTL

(***************************************************************************)
(* The pointers of timer_queue.c implement a set of alarms: to arm a timer *)
(* puts it off, and it goes off once, after its time has come.             *)
(***************************************************************************)
THEOREM QueueImplementsAlarms == Spec => ImplementsAlarms
  <1>1. Init => Abs!Init
    <2> SUFFICES ASSUME Init PROVE Abs!Init
      OBVIOUS
    <2>1. IInv
      BY IInvInit
    <2>2. PICK q, m, e, k : Lists(q, m, e, k)
      BY <2>1 DEF IInv
    <2>3. Armed = {}
      BY <2>2, ArmedIsUsed DEF Init, ArmedAreUsed
    <2> QED BY <2>3 DEF Init, Abs!Init
  <1>2. IInv => ArmedAreUsed
    BY ArmedIsUsed DEF IInv
  <1>3. IInv /\ ArmedAreUsed /\ ArmedAreUsed' /\ [Next]_vars => [Abs!Next]_Abs!vars
    <2> SUFFICES ASSUME IInv, ArmedAreUsed, ArmedAreUsed', [Next]_vars
                 PROVE  [Abs!Next]_Abs!vars
      OBVIOUS
    <2>1. Armed = {t \in Timer : used[t]} /\ Armed' = {t \in Timer : used'[t]}
      BY DEF ArmedAreUsed
    <2>2. used \in [Timer -> BOOLEAN] /\ PacketTimers \subseteq Timer
      BY TimerAssumption DEF IInv, Typed
    <2>3. ASSUME NEW t \in Timer, Arm(t) PROVE Abs!Next
      <3>1. used' = [used EXCEPT ![t] = TRUE] /\ left' = [left EXCEPT ![t] = Duration[t]]
        BY <2>3 DEF Arm
      <3>2. Armed' = Armed \cup {t}
        BY <2>1, <2>2, <3>1
      <3> QED BY <3>1, <3>2 DEF Abs!Next, Abs!Arm
    <2>4. ASSUME used' = used, left' = left PROVE UNCHANGED Abs!vars
      BY <2>1, <2>4 DEF Abs!vars
    <2>5. CASE \E t \in Timer : Boot(t)
      BY <2>3, <2>5 DEF Boot
    <2>6. CASE AgeQueue
      BY <2>4, <2>6 DEF AgeQueue
    <2>7. ASSUME NEW t \in Timer, Handle(t) PROVE Abs!Next
      <3>1. t \in Armed /\ left[t] <= 0
        <4>1. PICK q, m, e, k : Lists(q, m, e, k) /\ Timely(q, m, e, k)
          BY DEF IInv
        <4>2. t \in Members(e, k)
          <5>1. expired = t /\ t # Null
            BY <2>7, TimerAssumption DEF Handle
          <5> QED BY <4>1, <5>1, FirstOfChain DEF Lists
        <4> QED BY <2>1, <4>1, <4>2 DEF Lists, Timely
      <3>2. CASE used' = [used EXCEPT ![t] = FALSE] /\ left' = [left EXCEPT ![t] = 0]
        <4>1. Armed' = Armed \ {t}
          BY <2>1, <2>2, <3>2
        <4> QED BY <3>1, <3>2, <4>1 DEF Abs!Next, Abs!GoOff
      <3>3. CASE used' = used /\ left' = [left EXCEPT ![t] = Duration[t]]
        <4>1. Armed' = Armed \cup {t}
          BY <2>1, <3>1, <3>3
        <4> QED BY <3>1, <3>3, <4>1 DEF Abs!Next, Abs!GoOff, Abs!Arm
      <3> QED BY <2>7, <3>2, <3>3 DEF Handle
    <2>8. CASE Select
      BY <2>4, <2>8 DEF Select, list
    <2>9. CASE TimeOut
      BY <2>4, <2>9 DEF TimeOut, list
    <2>10. CASE Packets \/ Return
      BY <2>4, <2>10 DEF Packets, Return, list
    <2>11. CASE \E t \in Timer : ArmByPacket(t)
      BY <2>3, <2>11 DEF ArmByPacket
    <2>12. CASE Tick
      <3>1. used' = used /\ left' = [t \in Timer |-> IF t \in Armed THEN left[t] - 1 ELSE 0]
        BY <2>12 DEF Tick, list
      <3>2. Armed' = Armed
        BY <2>1, <3>1
      <3> QED BY <3>1, <3>2 DEF Abs!Next, Abs!Tick
    <2>13. CASE UNCHANGED vars
      BY <2>4, <2>13 DEF vars, list
    <2> QED BY <2>5, <2>6, <2>7, <2>8, <2>9, <2>10, <2>11, <2>12, <2>13
      DEF Next
  <1> QED BY <1>1, <1>2, <1>3, Invariance, PTL DEF Spec, ImplementsAlarms, Abs!Spec

=============================================================================
