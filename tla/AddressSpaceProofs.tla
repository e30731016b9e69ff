------------------------- MODULE AddressSpaceProofs -------------------------
(***************************************************************************)
(* Theorems about AddressSpace: what every implementation of it inherits,  *)
(* above all that no two nodes of a network have the same address.         *)
(*                                                                         *)
(* IInv is inductive as it stands: the type, that a running node has its   *)
(* own address among the addresses it administers, and that nobody else    *)
(* administers those.                                                      *)
(***************************************************************************)
EXTENDS AddressSpace, TLAPS

IInv == TypeOK /\ OwnHeld /\ Disjoint

LEMMA InitIInv == Init => IInv
  BY DEF Init, IInv, TypeOK, OwnHeld, Disjoint

\* What IInv has to be shown for when only n changes.
LEMMA OnlyOne ==
  ASSUME IInv, NEW n \in Node, Only(n),
         network'[n] \in Network \cup {NoNetwork},
         own'[n] \in Address \cup {NoAddress},
         held'[n] \subseteq Address,
         network'[n] # NoNetwork => /\ own'[n] \in held'[n]
                                    /\ \A m \in Node \ {n} :
                                         network[m] = network'[n] => held[m] \cap held'[n] = {}
  PROVE  IInv'
  <1>1. ASSUME NEW m \in Node, m # n
        PROVE  network'[m] = network[m] /\ own'[m] = own[m] /\ held'[m] = held[m]
    BY <1>1 DEF Only, IInv, TypeOK
  <1>2. TypeOK'
    BY DEF Only, IInv, TypeOK
  <1>3. OwnHeld'
    BY <1>1 DEF IInv, OwnHeld
  <1>4. Disjoint'
    BY <1>1 DEF IInv, Disjoint
  <1> QED BY <1>2, <1>3, <1>4 DEF IInv

\* Nobody else administers an address that is unclaimed.
LEMMA UnclaimedIsFree ==
  ASSUME NEW n \in Node, NEW r, NEW S, S \subseteq Unclaimed(n, r),
         NEW m \in Node \ {n}, network[m] = r
  PROVE  held[m] \cap S = {}
  BY DEF Unclaimed

LEMMA StepIInv == IInv /\ [Next]_vars => IInv'
  <1> SUFFICES ASSUME IInv, [Next]_vars PROVE IInv'
    OBVIOUS
  <1>1. ASSUME NEW n \in Node, Take(n) PROVE IInv'
    <2>1. Only(n) /\ network'[n] \in Network /\ own'[n] \in held'[n]
      BY <1>1 DEF Take
    <2>2. held'[n] \subseteq Address
      BY <1>1 DEF Take, Unclaimed
    <2>3. \A m \in Node \ {n} : network[m] = network'[n] => held[m] \cap held'[n] = {}
      BY <1>1, UnclaimedIsFree DEF Take
    <2> QED BY <2>1, <2>2, <2>3, OnlyOne
  <1>2. ASSUME NEW n \in Node, Give(n) PROVE IInv'
    <2>1. Only(n) /\ network'[n] = network[n] /\ own'[n] = own[n]
      BY <1>2 DEF Give
    <2>2. held'[n] \subseteq held[n] /\ own'[n] \in held'[n]
      BY <1>2, <2>1 DEF Give
    <2>3. \A m \in Node \ {n} :
            network[m] = network[n] /\ network[n] # NoNetwork => held[m] \cap held[n] = {}
      BY DEF IInv, Disjoint
    <2>4. /\ network[n] \in Network \cup {NoNetwork} /\ held[n] \subseteq Address
          /\ own[n] \in Address \cup {NoAddress}
      BY DEF IInv, TypeOK
    <2> QED BY <2>1, <2>2, <2>3, <2>4, OnlyOne
  <1>3. ASSUME NEW n \in Node, Recover(n) PROVE IInv'
    <2>1. Only(n) /\ network'[n] = network[n] /\ own'[n] = own[n]
      BY <1>3 DEF Recover
    <2>2. held'[n] \subseteq held[n] \cup Unclaimed(n, network[n]) /\ held[n] \subseteq held'[n]
      BY <1>3 DEF Recover
    <2>3. \A m \in Node \ {n} :
            network[m] = network[n] /\ network[n] # NoNetwork => held[m] \cap held[n] = {}
      BY DEF IInv, Disjoint
    <2>4. \A m \in Node \ {n} :
            network[m] = network[n] => held[m] \cap Unclaimed(n, network[n]) = {}
      BY UnclaimedIsFree
    <2>5. /\ network[n] \in Network \cup {NoNetwork} /\ held[n] \subseteq Address
          /\ own[n] \in Address \cup {NoAddress}
      BY DEF IInv, TypeOK
    <2>6. held'[n] \subseteq Address
      BY <2>2, <2>5 DEF Unclaimed
    <2>7. network[n] # NoNetwork => own[n] \in held[n]
      BY DEF IInv, OwnHeld
    <2>8. \A m \in Node \ {n} :
            network[m] = network[n] /\ network[n] # NoNetwork => held[m] \cap held'[n] = {}
      BY <2>2, <2>3, <2>4
    <2> QED BY <2>1, <2>2, <2>5, <2>6, <2>7, <2>8, OnlyOne
  <1>4. ASSUME NEW n \in Node, Stop(n) PROVE IInv'
    BY <1>4 DEF Stop, IInv, TypeOK, OwnHeld, Disjoint
  <1>5. CASE UNCHANGED vars
    BY <1>5 DEF vars, IInv, TypeOK, OwnHeld, Disjoint
  <1> QED BY <1>1, <1>2, <1>3, <1>4, <1>5 DEF Next

\* IInv holds in every state.
THEOREM SpecIInv == Spec => []IInv
  BY InitIInv, StepIInv, PTL DEF Spec

\* No address of a network has two administrators.
THEOREM SpecDisjoint == Spec => []Disjoint
  BY SpecIInv, PTL DEF IInv

\* No two nodes of a network have the same address.
THEOREM SpecUnique == Spec => []Unique
  <1>1. IInv => Unique
    BY DEF IInv, OwnHeld, Disjoint, Unique
  <1> QED BY <1>1, SpecIInv, PTL
=============================================================================
