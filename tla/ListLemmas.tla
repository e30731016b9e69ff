----------------------------- MODULE ListLemmas -----------------------------
(***************************************************************************)
(* Facts about lists that the proofs share.                                *)
(***************************************************************************)
EXTENDS Naturals, Sequences, SequencesExt, Lists, SequenceTheorems,
        WellFoundedInduction, TLAPS

\* A set of natural numbers that is not empty has a least element.
LEMMA LeastNat ==
  ASSUME NEW T, T \subseteq Nat, T # {}
  PROVE  \E x \in T : \A y \in T : x <= y
  <1> DEFINE R == OpToRel(<, Nat)
  <1>1. IsWellFoundedOn(R, Nat)
    BY NatLessThanWellFounded
  <1> HIDE DEF R
  <1>2. PICK x \in T : \A y \in T : ~ (<<y, x>> \in R)
    BY <1>1, WFMin
  <1>3. \A i \in Nat, j \in Nat : j < i => <<j, i>> \in R
    BY DEF R, OpToRel
  <1>4. ASSUME NEW y \in T PROVE x <= y
    <2>1. x \in Nat /\ y \in Nat
      OBVIOUS
    <2>2. ~ (y < x)
      BY <1>2, <1>3, <2>1
    <2> QED BY <2>1, <2>2
  <1> QED BY <1>4

\* The first position of a set, as the loops over the lists find it.
LEMMA FirstIndex ==
  ASSUME NEW S, S \subseteq Nat, S # {}
  PROVE  LET i == CHOOSE k \in S : \A j \in S : k <= j
         IN  i \in S /\ \A j \in S : i <= j
  <1>1. \E k \in S : \A j \in S : k <= j
    BY LeastNat
  <1> QED BY <1>1

\* A list with one more entry.
LEMMA AppendFacts ==
  ASSUME NEW T, NEW q \in Seq(T), NEW e \in T
  PROVE  /\ Append(q, e) \in Seq(T)
         /\ DOMAIN q = 1 .. Len(q) /\ Len(q) \in Nat
         /\ DOMAIN Append(q, e) = 1 .. Len(q) + 1
         /\ \A i \in DOMAIN q : Append(q, e)[i] = q[i]
         /\ \A i \in DOMAIN Append(q, e) : IF i \in DOMAIN q THEN Append(q, e)[i] = q[i]
                                         ELSE i = Len(q) + 1 /\ Append(q, e)[i] = e
  <1>1. DOMAIN q = 1 .. Len(q) /\ Len(q) \in Nat
    OBVIOUS
  <1>2. Append(q, e) \in Seq(T) /\ DOMAIN Append(q, e) = 1 .. Len(q) + 1
    OBVIOUS
  <1>3. \A i \in 1 .. Len(q) : Append(q, e)[i] = q[i]
    OBVIOUS
  <1>4. Append(q, e)[Len(q) + 1] = e
    OBVIOUS
  <1>5. ASSUME NEW i \in 1 .. Len(q) + 1, i \notin 1 .. Len(q) PROVE i = Len(q) + 1
    BY <1>1, <1>5
  <1> QED BY <1>1, <1>2, <1>3, <1>4, <1>5

\* RemoveAt of the community modules: what is left, and in which order.
LEMMA RemoveAtFacts ==
  ASSUME NEW T, NEW q \in Seq(T), NEW i \in DOMAIN q
  PROVE  /\ RemoveAt(q, i) \in Seq(T)
         /\ DOMAIN RemoveAt(q, i) = 1 .. Len(q) - 1
         /\ \A j \in 1 .. Len(q) - 1 :
              RemoveAt(q, i)[j] = IF j < i THEN q[j] ELSE q[j + 1]
  <1> DEFINE a == SubSeq(q, 1, i - 1)
             b == SubSeq(q, i + 1, Len(q))
  <1>1. i \in 1 .. Len(q) /\ Len(q) \in Nat
    OBVIOUS
  <1>2. /\ a \in Seq(T) /\ Len(a) = i - 1
        /\ \A j \in 1 .. i - 1 : a[j] = q[j]
    <2>1. \A j \in 1 .. i - 1 : j \in 1 .. Len(q)
      BY <1>1
    <2> QED BY <1>1, <2>1
  <1>3. /\ b \in Seq(T) /\ Len(b) = Len(q) - i
        /\ \A j \in 1 .. Len(q) - i : b[j] = q[i + j]
    <2>1. \A j \in 1 .. Len(q) - i : i + j \in 1 .. Len(q) /\ i + 1 + j - 1 = i + j
      BY <1>1
    <2> QED BY <1>1, <2>1
  <1> HIDE DEF a, b
  <1>4. RemoveAt(q, i) = a \o b
    BY DEF RemoveAt, a, b
  <1>5. /\ a \o b \in Seq(T) /\ Len(a \o b) = Len(q) - 1
        /\ \A j \in 1 .. Len(q) - 1 : (a \o b)[j] = IF j <= Len(a) THEN a[j] ELSE b[j - Len(a)]
    BY <1>1, <1>2, <1>3, ConcatProperties, SMTT(30)
  <1>6. ASSUME NEW j \in 1 .. Len(q) - 1
        PROVE  (a \o b)[j] = IF j < i THEN q[j] ELSE q[j + 1]
    <2>1. CASE j < i
      BY <1>1, <1>2, <1>5, <2>1
    <2>2. CASE ~ (j < i)
      <3>1. j - (i - 1) \in 1 .. Len(q) - i /\ i + (j - (i - 1)) = j + 1
        BY <1>1, <2>2
      <3>2. (a \o b)[j] = b[j - (i - 1)]
        BY <1>1, <1>2, <1>5, <2>2
      <3>3. b[j - (i - 1)] = q[j + 1]
        BY <1>3, <3>1
      <3> QED BY <2>2, <3>2, <3>3
    <2> QED BY <2>1, <2>2
  <1> QED BY <1>4, <1>5, <1>6

-----------------------------------------------------------------------------
(***************************************************************************)
(* The loops of the program are functions defined by recursion over the    *)
(* positions of a list: f[0] is the state before the loop, f[i] the one    *)
(* after its i-th turn, h[i] that turn.                                    *)
(***************************************************************************)

\* A loop whose turns stay in St has a state after every turn.
LEMMA LoopExists ==
  ASSUME NEW St, NEW b \in St, NEW n \in Nat, NEW h \in [1 .. n -> [St -> St]]
  PROVE  \E f \in [0 .. n -> St] :
           f[0] = b /\ \A i \in 1 .. n : f[i] = h[i][f[i - 1]]
  <1> DEFINE Upto(f, m) == f[0] = b /\ \A i \in 1 .. m : f[i] = h[i][f[i - 1]]
             Bad == {m \in 0 .. n : ~ \E f \in [0 .. m -> St] : Upto(f, m)}
  <1>1. 0 \notin Bad
    <2>1. [i \in 0 .. 0 |-> b] \in [0 .. 0 -> St] /\ Upto([i \in 0 .. 0 |-> b], 0)
      OBVIOUS
    <2> QED BY <2>1
  <1>2. ASSUME Bad # {} PROVE FALSE
    <2>1. Bad \subseteq 0 .. n /\ Bad \subseteq Nat
      OBVIOUS
    <2>2. PICK m \in Bad : \A y \in Bad : m <= y
      <3> HIDE DEF Bad
      <3> QED BY <1>2, <2>1, LeastNat
    <2>3. m \in 1 .. n /\ m - 1 \in 0 .. n /\ m - 1 \notin Bad
      <3> HIDE DEF Bad
      <3> QED BY <1>1, <2>1, <2>2
    <2>4. PICK f \in [0 .. m - 1 -> St] : Upto(f, m - 1)
      BY <2>3
    <2> DEFINE g == [i \in 0 .. m |-> IF i = m THEN h[m][f[m - 1]] ELSE f[i]]
    <2>5. g \in [0 .. m -> St]
      BY <2>3
    <2>6. ASSUME NEW i \in 1 .. m PROVE g[i] = h[i][g[i - 1]]
      <3>1. CASE i = m
        BY <2>3, <3>1
      <3>2. CASE i # m
        <4>1. i \in 1 .. m - 1 /\ i - 1 \in 0 .. m - 1 /\ i - 1 # m /\ i - 1 \in 0 .. m
          BY <2>3, <3>2
        <4>2. g[i] = f[i] /\ g[i - 1] = f[i - 1]
          BY <2>3, <3>2, <4>1
        <4> QED BY <2>4, <4>1, <4>2
      <3> QED BY <3>1, <3>2
    <2>7. g[0] = b
      BY <2>3, <2>4
    <2> HIDE DEF g
    <2>8. m \notin Bad
      BY <2>5, <2>6, <2>7
    <2> QED BY <2>2, <2>8
  <1>3. PICK f \in [0 .. n -> St] : Upto(f, n)
    BY <1>2
  <1> QED BY <1>3

\* What holds before the loop and is kept by every turn holds after it.
LEMMA LoopInvariant ==
  ASSUME NEW n \in Nat, NEW I, 0 \in I, I \subseteq 0 .. n,
         \A i \in 1 .. n : i - 1 \in I => i \in I
  PROVE  n \in I
  <1> DEFINE Bad == (0 .. n) \ I
  <1>1. ASSUME Bad # {} PROVE FALSE
    <2>1. Bad \subseteq Nat
      OBVIOUS
    <2>2. PICK m \in Bad : \A y \in Bad : m <= y
      <3> HIDE DEF Bad
      <3> QED BY <1>1, <2>1, LeastNat
    <2>3. m \in 1 .. n /\ m - 1 \in 0 .. n /\ m - 1 \notin Bad
      BY <2>2
    <2> QED BY <2>2, <2>3
  <1> QED BY <1>1

\* The entries at some positions: they are those, and they are in a list of the
\* same kind.
LEMMA ThoseFacts ==
  ASSUME NEW T, NEW q \in Seq(T), NEW K
  PROVE  /\ Those(q, K) \in Seq(T)
         /\ \A e : e \in Range(Those(q, K)) <=> \E i \in DOMAIN q : i \in K /\ q[i] = e
  <1> DEFINE n == Len(q)
             S == Seq(T)
             e0 == <<>>
             Turn(i, u) == IF i \in K THEN Append(u, q[i]) ELSE u
             h == [i \in 1 .. n |-> [u \in S |-> Turn(i, u)]]
  <1>1. n \in Nat /\ DOMAIN q = 1 .. n /\ (\A i \in 1 .. n : q[i] \in T) /\ e0 \in S
    OBVIOUS
  <1>2. ASSUME NEW i \in 1 .. n, NEW u \in S
        PROVE  /\ Turn(i, u) \in S
               /\ \A e : e \in Range(Turn(i, u)) <=> e \in Range(u) \/ (i \in K /\ e = q[i])
    <2>1. CASE i \in K
      <3>1. q[i] \in T /\ Turn(i, u) = Append(u, q[i])
        BY <1>1, <2>1
      <3> QED BY <3>1, <2>1, AppendFacts DEF Range
    <2>2. CASE i \notin K
      BY <2>2
    <2> QED BY <2>1, <2>2
  <1>3. Range(e0) = {}
    BY DEF Range
  <1> HIDE DEF n, S, e0, Turn
  <1>4. h \in [1 .. n -> [S -> S]]
    BY <1>2
  <1>5. \A i \in 1 .. n, u \in S : h[i][u] = Turn(i, u)
    OBVIOUS
  <1> HIDE DEF h
  <1> DEFINE Kept(f) == f = [i \in 0 .. n |-> IF i = 0 THEN e0 ELSE Turn(i, f[i - 1])]
             kept == CHOOSE f : Kept(f)
  <1>6. \E f : Kept(f)
    <2>1. PICK f \in [0 .. n -> S] :
            f[0] = e0 /\ \A i \in 1 .. n : f[i] = h[i][f[i - 1]]
      BY <1>1, <1>4, LoopExists
    <2>2. \A i \in 0 .. n : i # 0 => i \in 1 .. n /\ f[i - 1] \in S
      BY <1>1
    <2>3. \A i \in 0 .. n : f[i] = IF i = 0 THEN e0 ELSE Turn(i, f[i - 1])
      BY <1>5, <2>1, <2>2
    <2>4. Kept(f)
      BY <2>3
    <2> QED BY <2>4
  <1>7. Kept(kept)
    BY <1>6
  <1>8. Those(q, K) = kept[n]
    BY DEF Those, n, e0, Turn
  <1> HIDE DEF kept
  <1>9. kept[0] = e0 /\ \A i \in 1 .. n : kept[i] = Turn(i, kept[i - 1])
    BY <1>1, <1>7
  <1> DEFINE Holds(i) == /\ kept[i] \in S
                         /\ \A e : e \in Range(kept[i])
                                    <=> \E j \in 1 .. i : j \in K /\ q[j] = e
             I == {i \in 0 .. n : Holds(i)}
  <1>10. 0 \in I
    BY <1>1, <1>3, <1>9
  <1>11. ASSUME NEW i \in 1 .. n, i - 1 \in I PROVE i \in I
    <2>1. kept[i - 1] \in S /\ kept[i] = Turn(i, kept[i - 1])
      BY <1>9, <1>11
    <2>2. kept[i] \in S /\ \A e : e \in Range(kept[i])
                                   <=> e \in Range(kept[i - 1]) \/ (i \in K /\ e = q[i])
      BY <1>2, <2>1
    <2>3. \A j : j \in 1 .. i <=> j \in 1 .. i - 1 \/ j = i
      BY <1>1
    <2>4. \A e : e \in Range(kept[i]) <=> \E j \in 1 .. i : j \in K /\ q[j] = e
      BY <1>11, <2>2, <2>3
    <2> QED BY <1>1, <2>2, <2>4
  <1>12. n \in I
    <2>1. I \subseteq 0 .. n
      OBVIOUS
    <2> HIDE DEF I
    <2> QED BY <1>1, <1>10, <1>11, <2>1, LoopInvariant
  <1> QED BY <1>1, <1>8, <1>12 DEF S

\* Two lists one after the other.
LEMMA ConcatFacts ==
  ASSUME NEW T, NEW p \in Seq(T), NEW q \in Seq(T)
  PROVE  /\ p \o q \in Seq(T) /\ Len(p \o q) = Len(p) + Len(q)
         /\ Range(p \o q) = Range(p) \cup Range(q)
  <1>1. p \o q \in Seq(T) /\ Len(p \o q) = Len(p) + Len(q)
    BY ConcatProperties
  <1>2. /\ DOMAIN p = 1 .. Len(p) /\ DOMAIN q = 1 .. Len(q)
        /\ DOMAIN (p \o q) = 1 .. Len(p) + Len(q)
        /\ Len(p) \in Nat /\ Len(q) \in Nat
    BY <1>1
  <1>3. \A j \in 1 .. Len(p) + Len(q) :
          (p \o q)[j] = IF j <= Len(p) THEN p[j] ELSE q[j - Len(p)]
    BY ConcatProperties
  <1>4. ASSUME NEW j \in DOMAIN (p \o q) PROVE (p \o q)[j] \in Range(p) \cup Range(q)
    <2>1. CASE j <= Len(p)
      BY <1>2, <1>3, <2>1 DEF Range
    <2>2. CASE ~ (j <= Len(p))
      <3>1. j - Len(p) \in 1 .. Len(q)
        BY <1>2, <2>2
      <3> QED BY <1>2, <1>3, <2>2, <3>1 DEF Range
    <2> QED BY <2>1, <2>2
  <1>5. ASSUME NEW j \in DOMAIN p PROVE p[j] \in Range(p \o q)
    <2>1. j \in 1 .. Len(p) + Len(q) /\ (p \o q)[j] = p[j]
      BY <1>2, <1>3
    <2> QED BY <1>2, <2>1 DEF Range
  <1>6. ASSUME NEW j \in DOMAIN q PROVE q[j] \in Range(p \o q)
    <2>1. /\ j + Len(p) \in 1 .. Len(p) + Len(q) /\ ~ (j + Len(p) <= Len(p))
          /\ j + Len(p) - Len(p) = j
      BY <1>2
    <2>2. (p \o q)[j + Len(p)] = q[j]
      BY <1>3, <2>1
    <2> QED BY <1>2, <2>1, <2>2 DEF Range
  <1>7. \A e : e \in Range(p \o q) <=> e \in Range(p) \cup Range(q)
    BY <1>4, <1>5, <1>6 DEF Range
  <1> QED BY <1>1, <1>7

\* The rest of a list.
LEMMA SubSeqFacts ==
  ASSUME NEW T, NEW q \in Seq(T), NEW m \in Nat, NEW n \in Nat,
         m >= 1, n <= Len(q), m <= n + 1
  PROVE  /\ SubSeq(q, m, n) \in Seq(T)
         /\ Len(SubSeq(q, m, n)) = n + 1 - m
         /\ Range(SubSeq(q, m, n)) \subseteq Range(q)
  <1>1. Len(q) \in Nat /\ DOMAIN q = 1 .. Len(q)
    OBVIOUS
  <1>2. \A j \in m .. n : j \in 1 .. Len(q)
    BY <1>1
  <1>3. SubSeq(q, m, n) \in Seq(T) /\ Len(SubSeq(q, m, n)) = n + 1 - m
    BY <1>1, <1>2, SubSeqProperties
  <1>4. \A j \in 1 .. n + 1 - m : SubSeq(q, m, n)[j] = q[m + j - 1] /\ m + j - 1 \in 1 .. Len(q)
    BY <1>1, <1>2, <1>3
  <1> QED BY <1>1, <1>3, <1>4 DEF Range

\* The entries of a list with one more.
LEMMA AppendRange ==
  ASSUME NEW T, NEW q \in Seq(T), NEW e \in T
  PROVE  Append(q, e) \in Seq(T) /\ Range(Append(q, e)) = Range(q) \cup {e}
  <1>1. Len(q) + 1 \in DOMAIN Append(q, e) /\ Append(q, e)[Len(q) + 1] = e
    BY AppendFacts
  <1>2. \A x : x \in Range(Append(q, e)) <=> x \in Range(q) \cup {e}
    BY <1>1, AppendFacts DEF Range
  <1> QED BY <1>2, AppendFacts

=============================================================================
