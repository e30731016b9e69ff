--------------------------- MODULE HeartBeatProofs ---------------------------
(***************************************************************************)
(* Theorems about HeartBeat, for any peers, times and bounds.              *)
(*                                                                         *)
(* IInv strengthens the type invariant and CountIsMissed by what relates   *)
(* the two: a peer that was heard since the last round has an entry that   *)
(* missed no round.  Ages adds how long an entry has been silent: at most  *)
(* one period of rounds for each of them, and at least one for each missed *)
(* one.                                                                    *)
(***************************************************************************)
EXTENDS HeartBeat, TLAPS

HeardMissNothing == \A p \in heard : p \in neigh_table /\ missed[p] = 0

IInv == TypeInvariant /\ CountIsMissed /\ HeardMissNothing

\* Multiplication, as the bounds below use it.
LEMMA OneMoreTime ==
  ASSUME NEW k \in Nat, NEW w \in Nat
  PROVE  k * w \in Nat /\ (k + 1) * w = k * w + w
  BY SMT

\* The longest silence that is counted is a natural number.
LEMMA MaxSilenceNat ==
  MaxSilence \in Nat /\ (N_INACT + 2) * (T_LHB + MaxDelay) \in Nat
  <1>1. N_INACT + 2 \in Nat /\ T_LHB + MaxDelay \in Nat
    BY TimesAssumption
  <1>2. (N_INACT + 2) * (T_LHB + MaxDelay) \in Nat
    BY <1>1, OneMoreTime
  <1> QED BY <1>2 DEF MaxSilence

LEMMA InitIInv == Init => IInv
  BY TimesAssumption, MaxSilenceNat
     DEF Init, IInv, TypeInvariant, CountIsMissed, HeardMissNothing

\* A round turns the count of an entry that stays into the next one.
LEMMA NextCountType ==
  ASSUME NEW c \in -1 .. N_INACT, c < N_INACT
  PROVE  NextCount(c) \in -1 .. N_INACT
  BY TimesAssumption DEF NextCount

LEMMA StepIInv == IInv /\ [Next]_vars => IInv'
  <1> SUFFICES ASSUME IInv, [Next]_vars PROVE IInv'
    OBVIOUS
  <1> USE TimesAssumption DEF IInv, TypeInvariant, CountIsMissed, HeardMissNothing
  <1>1. CASE Tick
    <2>1. silence' \in [Peer -> 0 .. MaxSilence]
      BY <1>1, MaxSilenceNat DEF Tick
    <2>2. hb_age' \in [Peer -> 0 .. T_HB + MaxDelay] /\ chk_age' \in 0 .. T_LHB + MaxDelay
      BY <1>1 DEF Tick
    <2> QED BY <1>1, <2>1, <2>2 DEF Tick, code
  <1>2. CASE CheckNeighbors
    <2>1. ASSUME NEW p \in neigh_table \ Gone PROVE count[p] < N_INACT
      BY <2>1 DEF Gone
    <2>2. count' \in [Peer -> -1 .. N_INACT]
      BY <1>2, <2>1, NextCountType DEF CheckNeighbors
    <2>3. missed' \in [Peer -> 0 .. N_INACT]
      <3> SUFFICES ASSUME NEW p \in neigh_table \ (Gone \cup heard)
                   PROVE  OneMore(missed[p]) \in 0 .. N_INACT
        BY <1>2 DEF CheckNeighbors
      <3> QED BY <2>1 DEF OneMore
    <2>4. silence' \in [Peer -> 0 .. MaxSilence]
      BY <1>2, MaxSilenceNat DEF CheckNeighbors
    <2>5. TypeInvariant'
      BY <1>2, <2>2, <2>3, <2>4 DEF CheckNeighbors
    <2>6. CountIsMissed'
      <3> SUFFICES ASSUME NEW p \in neigh_table'
                   PROVE  IF missed'[p] > 0 THEN count'[p] = missed'[p] ELSE count'[p] = -1
        BY <1>2 DEF CheckNeighbors
      <3>1. p \in neigh_table \ Gone /\ count'[p] = NextCount(count[p])
        BY <1>2 DEF CheckNeighbors
      <3>2. CASE p \in heard
        BY <1>2, <3>1, <3>2 DEF CheckNeighbors, NextCount
      <3>3. CASE p \notin heard
        <4>1. missed'[p] = OneMore(missed[p])
          BY <1>2, <3>1, <3>3 DEF CheckNeighbors
        <4> QED BY <2>1, <3>1, <3>3, <4>1 DEF NextCount, OneMore
      <3> QED BY <3>2, <3>3
    <2>7. HeardMissNothing'
      BY <1>2 DEF CheckNeighbors
    <2> QED BY <2>5, <2>6, <2>7
  <1>3. CASE \E p \in Peer : Start(p)
    BY <1>3 DEF Start, code, history
  <1>4. CASE \E p \in Peer : Stop(p)
    BY <1>4 DEF Stop, code
  <1>5. ASSUME NEW p \in Peer, ProcessHb(p) PROVE IInv'
    BY <1>5, MaxSilenceNat DEF ProcessHb, SendHb
  <1>6. ASSUME NEW p \in Peer, LoseHb(p) PROVE IInv'
    BY <1>6 DEF LoseHb, SendHb, code
  <1>7. CASE UNCHANGED vars
    BY <1>7 DEF vars, code, history
  <1> QED BY <1>1, <1>2, <1>3, <1>4, <1>5, <1>6, <1>7 DEF Next

\* IInv holds in every state.
THEOREM SpecIInv == Spec => []IInv
  BY InitIInv, StepIInv, PTL DEF Spec

\* The table and the counts of heart_beat.c have their types, count its range.
THEOREM SpecTypeInvariant == Spec => []TypeInvariant
  BY SpecIInv, PTL DEF IInv

\* count says how many rounds of check_neighbors no heartbeat preceded.
THEOREM SpecCountIsMissed == Spec => []CountIsMissed
  BY SpecIInv, PTL DEF IInv

\* check_neighbors deletes an entry after N_INACT + 1 missed rounds, never before.
THEOREM SpecGoneAfterInact == Spec => GoneAfterInact
  <1>1. IInv /\ [Next]_vars
          => [\A p \in neigh_table \ neigh_table' : missed[p] = N_INACT /\ p \notin heard]_vars
    <2> SUFFICES ASSUME IInv, Next, NEW p \in neigh_table \ neigh_table'
                 PROVE  missed[p] = N_INACT /\ p \notin heard
      OBVIOUS
    <2>1. CheckNeighbors
      BY DEF Next, Tick, Start, Stop, ProcessHb, LoseHb, code
    <2>2. p \in Gone /\ p \in Peer
      BY <2>1 DEF CheckNeighbors, IInv, TypeInvariant
    <2> QED
      BY <2>2, TimesAssumption
         DEF Gone, IInv, TypeInvariant, CountIsMissed, HeardMissNothing
  <1> QED BY <1>1, SpecIInv, PTL DEF Spec, GoneAfterInact

-----------------------------------------------------------------------------
\* The rounds there were since p was heard.
Rounds(p) == IF p \in heard THEN 0 ELSE missed[p] + 1

\* A period of rounds, and a period of heartbeats, at most.
Round == T_LHB + MaxDelay
Beat  == T_HB + MaxDelay

\* An entry is silent for a period a round, at most.
SilentAtMost == \A p \in neigh_table : silence[p] <= Rounds(p) * Round + chk_age

\* An entry is silent for T_LHB each round it missed, at least.
SilentAtLeast ==
  \A p \in neigh_table \ heard : silence[p] >= missed[p] * T_LHB + chk_age

\* While a peer runs, only its lost heartbeats make it silent.
SilentWhenLost ==
  \A p \in neigh_table \ down : p \in alive /\ silence[p] <= lost[p] * Beat + hb_age[p]

Ages == SilentAtMost /\ SilentAtLeast /\ SilentWhenLost

LEMMA Periods == Round \in Nat /\ Beat \in Nat /\ T_LHB \in Nat
  BY TimesAssumption DEF Round, Beat

LEMMA TimesMonotone ==
  ASSUME NEW i \in Nat, NEW j \in Nat, NEW w \in Nat, i <= j
  PROVE  i * w <= j * w
  BY SMT

\* An entry survives N_INACT + 2 periods of rounds at most.
LEMMA AgesBound == IInv /\ SilentAtMost => StaleEntryBound
  <1> SUFFICES ASSUME IInv, SilentAtMost, NEW p \in neigh_table
               PROVE  silence[p] <= (N_INACT + 2) * Round
    BY DEF StaleEntryBound, Round
  <1>1. Rounds(p) \in Nat /\ Rounds(p) <= N_INACT + 1
    BY TimesAssumption DEF Rounds, IInv, TypeInvariant
  <1>2. N_INACT + 1 \in Nat /\ (N_INACT + 1) + 1 = N_INACT + 2
    BY TimesAssumption
  <1>3. Rounds(p) * Round <= (N_INACT + 1) * Round
    BY <1>1, <1>2, Periods, TimesMonotone
  <1>4. (N_INACT + 2) * Round = (N_INACT + 1) * Round + Round
    BY <1>2, Periods, OneMoreTime
  <1>5. silence[p] \in Nat /\ chk_age \in Nat /\ chk_age <= Round
    BY TimesAssumption, MaxSilenceNat DEF IInv, TypeInvariant, Round
  <1>6. silence[p] <= Rounds(p) * Round + chk_age
    BY DEF SilentAtMost
  <1>7. Rounds(p) * Round \in Nat /\ (N_INACT + 1) * Round \in Nat
    BY <1>1, <1>2, Periods, OneMoreTime
  <1> QED BY <1>3, <1>4, <1>5, <1>6, <1>7, Periods

LEMMA InitAges == Init => Ages
  BY DEF Init, Ages, SilentAtMost, SilentAtLeast, SilentWhenLost

LEMMA TickAges == IInv /\ IInv' /\ Ages /\ Tick => Ages'
  <1> SUFFICES ASSUME IInv, IInv', Ages, Tick, NEW p \in neigh_table
               PROVE  /\ silence'[p] <= Rounds(p)' * Round + chk_age'
                      /\ p \notin heard => silence'[p] >= missed[p] * T_LHB + chk_age'
                      /\ p \notin down => /\ p \in alive
                                          /\ silence'[p] <= lost[p] * Beat + hb_age'[p]
    BY DEF Tick, code, Ages, SilentAtMost, SilentAtLeast, SilentWhenLost
  <1>1. p \in Peer /\ silence[p] \in Nat /\ chk_age \in Nat
    BY MaxSilenceNat, TimesAssumption DEF IInv, TypeInvariant
  <1>2. silence[p] <= (N_INACT + 2) * Round
    BY AgesBound DEF Ages, StaleEntryBound, Round
  <1>3. silence[p] < MaxSilence
    BY <1>1, <1>2, MaxSilenceNat DEF MaxSilence, Round
  <1>4. silence'[p] = silence[p] + 1 /\ chk_age' = chk_age + 1
    BY <1>1, <1>3 DEF Tick
  <1>5. Rounds(p)' = Rounds(p) /\ Rounds(p) \in Nat /\ missed[p] \in Nat /\ lost[p] \in Nat
    BY <1>1, TimesAssumption DEF Tick, Rounds, IInv, TypeInvariant
  <1>6. /\ Rounds(p) * Round \in Nat
        /\ missed[p] * T_LHB \in Nat
        /\ lost[p] * Beat \in Nat
    BY <1>5, Periods, OneMoreTime
  <1>7. silence[p] <= Rounds(p) * Round + chk_age
    BY DEF Ages, SilentAtMost
  <1>8. p \notin heard => silence[p] >= missed[p] * T_LHB + chk_age
    BY DEF Ages, SilentAtLeast
  <1>9. p \notin down => p \in alive /\ silence[p] <= lost[p] * Beat + hb_age[p]
    BY DEF Ages, SilentWhenLost
  <1>10. p \in alive => hb_age[p] \in Nat /\ hb_age'[p] = hb_age[p] + 1
    BY <1>1, TimesAssumption DEF Tick, IInv, TypeInvariant
  <1>11. silence'[p] <= Rounds(p)' * Round + chk_age'
    BY <1>1, <1>4, <1>5, <1>6, <1>7
  <1>12. p \notin heard => silence'[p] >= missed[p] * T_LHB + chk_age'
    BY <1>1, <1>4, <1>6, <1>8
  <1>13. p \notin down => p \in alive /\ silence'[p] <= lost[p] * Beat + hb_age'[p]
    BY <1>1, <1>4, <1>6, <1>9, <1>10
  <1> QED BY <1>11, <1>12, <1>13

LEMMA CheckNeighborsAges == IInv /\ IInv' /\ Ages /\ CheckNeighbors => Ages'
  <1> SUFFICES ASSUME IInv, IInv', Ages, CheckNeighbors PROVE Ages'
    OBVIOUS
  <1> SUFFICES ASSUME NEW p \in neigh_table \ Gone
               PROVE  /\ silence[p] <= Rounds(p)' * Round
                      /\ silence[p] >= missed'[p] * T_LHB
                      /\ p \notin down => /\ p \in alive
                                          /\ silence[p] <= lost[p] * Beat + hb_age[p]
    <2>1. /\ neigh_table' = neigh_table \ Gone /\ heard' = {} /\ chk_age' = 0
          /\ UNCHANGED <<alive, hb_age, lost, down>>
      BY DEF CheckNeighbors
    <2>2. \A p \in neigh_table \ Gone : silence'[p] = silence[p]
      BY DEF CheckNeighbors, IInv, TypeInvariant
    <2>3. \A p \in neigh_table \ Gone :
            /\ Rounds(p)' * Round \in Nat /\ missed'[p] * T_LHB \in Nat
      <3> SUFFICES ASSUME NEW p \in neigh_table \ Gone
                   PROVE  Rounds(p)' * Round \in Nat /\ missed'[p] * T_LHB \in Nat
        OBVIOUS
      <3>1. Rounds(p)' \in Nat /\ missed'[p] \in Nat
        BY TimesAssumption DEF Rounds, IInv, TypeInvariant
      <3> QED BY <3>1, Periods, OneMoreTime
    <2> QED BY <2>1, <2>2, <2>3 DEF Ages, SilentAtMost, SilentAtLeast, SilentWhenLost
  <1>1. p \in Peer /\ silence[p] \in Nat /\ missed[p] \in 0 .. N_INACT /\ chk_age \in Nat
    BY MaxSilenceNat, TimesAssumption DEF IInv, TypeInvariant
  <1>2. p \notin heard => missed'[p] = missed[p] + 1
    BY <1>1, TimesAssumption DEF CheckNeighbors, OneMore
  <1>3. p \in heard => missed'[p] = 0 /\ missed[p] = 0
    BY <1>1 DEF CheckNeighbors, IInv, HeardMissNothing
  <1>4. Rounds(p)' = Rounds(p) + 1 /\ Rounds(p) \in Nat
    BY <1>1, <1>2, <1>3, TimesAssumption DEF CheckNeighbors, Rounds
  <1>5. silence[p] <= Rounds(p)' * Round
    <2>1. chk_age <= Round
      BY DEF IInv, TypeInvariant, Round
    <2>2. silence[p] <= Rounds(p) * Round + chk_age
      BY DEF Ages, SilentAtMost
    <2>3. Rounds(p) * Round \in Nat /\ (Rounds(p) + 1) * Round = Rounds(p) * Round + Round
      BY <1>4, Periods, OneMoreTime
    <2> QED BY <1>1, <1>4, <2>1, <2>2, <2>3, Periods
  <1>6. silence[p] >= missed'[p] * T_LHB
    <2>1. CASE p \in heard
      BY <1>1, <1>3, <2>1, Periods
    <2>2. CASE p \notin heard
      <3>1. chk_age >= T_LHB /\ silence[p] >= missed[p] * T_LHB + chk_age
        BY <2>2 DEF Ages, SilentAtLeast, CheckNeighbors
      <3>2. missed[p] \in Nat
        BY <1>1, TimesAssumption
      <3>3. missed[p] * T_LHB \in Nat /\ (missed[p] + 1) * T_LHB = missed[p] * T_LHB + T_LHB
        BY <3>2, Periods, OneMoreTime
      <3> QED BY <1>1, <1>2, <2>2, <3>1, <3>3, Periods
    <2> QED BY <2>1, <2>2
  <1>7. p \notin down => p \in alive /\ silence[p] <= lost[p] * Beat + hb_age[p]
    BY DEF Ages, SilentWhenLost
  <1> QED BY <1>5, <1>6, <1>7

LEMMA StepAges == IInv /\ IInv' /\ Ages /\ [Next]_vars => Ages'
  <1> SUFFICES ASSUME IInv, IInv', Ages, [Next]_vars PROVE Ages'
    OBVIOUS
  <1>1. CASE Tick
    BY <1>1, TickAges
  <1>2. CASE CheckNeighbors
    BY <1>2, CheckNeighborsAges
  <1> USE DEF Ages, SilentAtMost, SilentAtLeast, SilentWhenLost, Rounds
  <1>3. CASE \E p \in Peer : Start(p)
    BY <1>3 DEF Start, code, history
  <1>4. CASE \E p \in Peer : Stop(p)
    <2> SUFFICES ASSUME NEW q \in Peer, Stop(q), NEW p \in neigh_table PROVE
                 p \notin down' => p \in alive' /\ hb_age'[p] = hb_age[p] /\ p \notin down
      BY <1>4 DEF Stop, code
    <2> QED BY DEF Stop, IInv, TypeInvariant
  <1>5. ASSUME NEW q \in Peer, ProcessHb(q), NEW p \in neigh_table', p # q
        PROVE  /\ p \in neigh_table /\ UNCHANGED <<silence[p], lost[p], missed[p], hb_age[p]>>
               /\ (p \in heard') = (p \in heard)
               /\ (p \in down') = (p \in down)
    BY <1>5 DEF ProcessHb, SendHb, IInv, TypeInvariant
  <1>6. ASSUME NEW q \in Peer, ProcessHb(q)
        PROVE  /\ silence'[q] = 0 /\ q \in heard' /\ q \in alive' /\ lost'[q] = 0
               /\ hb_age'[q] = 0
    BY <1>6 DEF ProcessHb, SendHb, IInv, TypeInvariant
  <1>7. CASE \E q \in Peer : ProcessHb(q)
    <2> SUFFICES ASSUME NEW q \in Peer, ProcessHb(q) PROVE Ages'
      BY <1>7
    <2>1. UNCHANGED <<alive, chk_age>> /\ chk_age \in Nat
      BY TimesAssumption DEF ProcessHb, SendHb, IInv, TypeInvariant
    <2>2. Rounds(q)' * Round = 0 /\ lost'[q] * Beat = 0
      BY <1>6, Periods
    <2> QED BY <1>5, <1>6, <2>1, <2>2
  <1>8. CASE \E q \in Peer : LoseHb(q)
    <2> SUFFICES ASSUME NEW q \in Peer, LoseHb(q) PROVE Ages'
      BY <1>8
    <2>1. UNCHANGED <<neigh_table, silence, missed, heard, down, alive, chk_age>>
      BY DEF LoseHb, SendHb, code
    <2>2. \A p \in Peer : p # q => UNCHANGED <<lost[p], hb_age[p]>>
      BY DEF LoseHb, SendHb, IInv, TypeInvariant
    <2>3. lost'[q] * Beat + hb_age'[q] >= lost[q] * Beat + hb_age[q]
      <3>1. lost[q] \in Nat /\ lost'[q] = lost[q] + 1 /\ hb_age'[q] = 0
        BY TimesAssumption DEF LoseHb, SendHb, IInv, TypeInvariant
      <3>2. hb_age[q] \in Nat /\ hb_age[q] <= Beat
        BY TimesAssumption DEF Beat, IInv, TypeInvariant
      <3>3. lost[q] * Beat \in Nat /\ (lost[q] + 1) * Beat = lost[q] * Beat + Beat
        BY <3>1, Periods, OneMoreTime
      <3> QED BY <3>1, <3>2, <3>3, Periods
    <2>4. ASSUME NEW p \in neigh_table \ down
          PROVE  p \in alive /\ silence[p] <= lost'[p] * Beat + hb_age'[p]
      <3>1. p \in alive /\ silence[p] <= lost[p] * Beat + hb_age[p] /\ p \in Peer
        BY <2>4 DEF IInv, TypeInvariant
      <3>2. CASE p # q
        BY <2>2, <3>1, <3>2
      <3>3. CASE p = q
        <4>1. silence[q] \in Nat /\ lost[q] \in Nat /\ lost'[q] \in Nat
              /\ hb_age[q] \in Nat /\ hb_age'[q] \in Nat
          BY TimesAssumption, MaxSilenceNat DEF IInv, TypeInvariant
        <4>2. lost[q] * Beat \in Nat /\ lost'[q] * Beat \in Nat
          BY <4>1, Periods, OneMoreTime
        <4> QED BY <2>3, <3>1, <3>3, <4>1, <4>2
      <3> QED BY <3>2, <3>3
    <2> QED BY <2>1, <2>4
  <1>9. CASE UNCHANGED vars
    BY <1>9 DEF vars, code, history
  <1> QED BY <1>1, <1>2, <1>3, <1>4, <1>7, <1>8, <1>9 DEF Next

\* The silence of every entry is bounded by its rounds, and by the lost heartbeats.
THEOREM SpecAges == Spec => []Ages
  <1>1. Spec => [](IInv /\ Ages)
    BY InitIInv, StepIInv, InitAges, StepAges, PTL DEF Spec
  <1> QED BY <1>1, PTL

\* A neighbour that is gone leaves the table of heart_beat.c within N_INACT + 2 rounds.
THEOREM SpecStaleEntryBound == Spec => []StaleEntryBound
  BY SpecIInv, SpecAges, AgesBound, PTL DEF Ages

(***************************************************************************)
(* When MaxLost + 1 periods of heartbeats are shorter than N_INACT + 1     *)
(* times T_LHB, check_neighbors gives no peer up that runs.                *)
(***************************************************************************)
THEOREM SpecOnlyTheDownGo ==
  ASSUME (MaxLost + 1) * (T_HB + MaxDelay) < (N_INACT + 1) * T_LHB
  PROVE  Spec => OnlyTheDownGo
  <1>1. IInv /\ Ages /\ [Next]_vars => [neigh_table \ neigh_table' \subseteq down]_vars
    <2> SUFFICES ASSUME IInv, Ages, Next, NEW p \in neigh_table \ neigh_table', p \notin down
                 PROVE  FALSE
      OBVIOUS
    <2>1. CheckNeighbors
      BY DEF Next, Tick, Start, Stop, ProcessHb, LoseHb, code
    <2>2. p \in Gone /\ p \in Peer
      BY <2>1 DEF CheckNeighbors, IInv, TypeInvariant
    <2>3. missed[p] = N_INACT /\ p \notin heard
      BY <2>2, TimesAssumption
         DEF Gone, IInv, TypeInvariant, CountIsMissed, HeardMissNothing
    <2>4. /\ silence[p] \in Nat /\ chk_age \in Nat /\ N_INACT \in Nat
          /\ lost[p] \in Nat /\ lost[p] <= MaxLost /\ MaxLost \in Nat
          /\ hb_age[p] \in Nat /\ hb_age[p] <= Beat
      BY <2>2, TimesAssumption, MaxSilenceNat DEF IInv, TypeInvariant, Beat
    <2>5. silence[p] >= N_INACT * T_LHB + chk_age /\ chk_age >= T_LHB
      BY <2>1, <2>3 DEF Ages, SilentAtLeast, CheckNeighbors
    <2>6. silence[p] <= lost[p] * Beat + hb_age[p]
      BY DEF Ages, SilentWhenLost
    <2>7. /\ N_INACT * T_LHB \in Nat
          /\ (N_INACT + 1) * T_LHB = N_INACT * T_LHB + T_LHB
          /\ (MaxLost + 1) * Beat = MaxLost * Beat + Beat
          /\ MaxLost * Beat \in Nat /\ lost[p] * Beat \in Nat
      BY <2>4, Periods, OneMoreTime
    <2>8. lost[p] * Beat <= MaxLost * Beat
      BY <2>4, Periods, TimesMonotone
    <2>9. (MaxLost + 1) * Beat < (N_INACT + 1) * T_LHB
      BY DEF Beat
    <2> QED BY <2>4, <2>5, <2>6, <2>7, <2>8, <2>9, Periods
  <1> QED BY <1>1, SpecIInv, SpecAges, PTL DEF Spec, OnlyTheDownGo
=============================================================================
