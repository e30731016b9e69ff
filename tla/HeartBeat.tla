----------------------------- MODULE HeartBeat -----------------------------
(***************************************************************************)
(* Heartbeats (heart_beat.c): how a node keeps its table of neighbours,    *)
(* and when it considers a neighbour gone.                                 *)
(*                                                                         *)
(* Every peer multicasts a heartbeat each T_HB; the node goes through its  *)
(* table each T_LHB.  `count' of an entry is 0 when a heartbeat arrives,   *)
(* -1 after the first round, then 1, 2, ... and the entry is deleted in    *)
(* the round that finds it at N_INACT.                                     *)
(*                                                                         *)
(* One step of the clock is a second.  A timer is served when the main     *)
(* loop comes to timer_age_queue again, up to MaxDelay after it is due.    *)
(* The peers are neighbours at distance 1 of the same network, so every    *)
(* heartbeat that arrives passes the tests of process_hb.                  *)
(***************************************************************************)
EXTENDS Integers

CONSTANTS
  Peer,
  T_HB,       \* seconds between the heartbeats of a peer
  T_LHB,      \* seconds between two rounds of check_neighbors
  N_INACT,    \* the last value of count
  MaxDelay,   \* how late a timer can be served
  MaxLost     \* how many heartbeats of a peer can be lost in a row

ASSUME TimesAssumption ==
  /\ T_HB \in Nat \ {0} /\ T_LHB \in Nat \ {0}
  /\ N_INACT \in Nat \ {0}
  /\ MaxDelay \in Nat /\ MaxLost \in Nat

VARIABLES
  alive,        \* the peers that run
  hb_age,       \* hb_age[p]: seconds since p armed its heartbeat timer
  chk_age,      \* seconds since the node armed chk_neigh_t
  neigh_table,  \* the peers in the table
  count,        \* count[p] of the entry of p
  silence,      \* silence[p]: seconds since the last heartbeat of p arrived
  lost,         \* lost[p]: heartbeats of p lost since then
  missed,       \* missed[p]: rounds since then that no heartbeat preceded
  heard,        \* the peers that were heard since the last round
  down          \* the peers that did not run at some time since then

code    == <<neigh_table, count>>
history == <<silence, lost, missed, heard, down>>
vars == <<alive, hb_age, chk_age, code, history>>

\* Silence is counted up to the longest that an entry can survive, and one more.
MaxSilence == (N_INACT + 2) * (T_LHB + MaxDelay) + 1

Init ==
  /\ alive = {}
  /\ hb_age = [p \in Peer |-> 0]
  /\ chk_age = 0
  /\ neigh_table = {}
  /\ count = [p \in Peer |-> 0]
  /\ silence = [p \in Peer |-> 0]
  /\ lost = [p \in Peer |-> 0]
  /\ missed = [p \in Peer |-> 0]
  /\ heard = {}
  /\ down = Peer

-----------------------------------------------------------------------------
\* A second passes: no timer is more than MaxDelay late.
Tick ==
  /\ \A p \in alive : hb_age[p] < T_HB + MaxDelay
  /\ chk_age < T_LHB + MaxDelay
  /\ hb_age' = [p \in Peer |-> IF p \in alive THEN hb_age[p] + 1 ELSE 0]
  /\ chk_age' = chk_age + 1
  /\ silence' = [p \in Peer |->
       IF p \in neigh_table /\ silence[p] < MaxSilence THEN silence[p] + 1 ELSE silence[p]]
  /\ UNCHANGED <<alive, code, lost, missed, heard, down>>

\* heart_beat_init of a peer that got its address.
Start(p) ==
  /\ p \notin alive
  /\ alive' = alive \cup {p}
  /\ UNCHANGED <<hb_age, chk_age, code, history>>

Stop(p) ==
  /\ p \in alive
  /\ alive' = alive \ {p}
  /\ hb_age' = [hb_age EXCEPT ![p] = 0]
  /\ down' = down \cup {p}
  /\ UNCHANGED <<chk_age, code, silence, lost, missed, heard>>

\* send_hb, called by the timer of p, which it arms again.
SendHb(p) ==
  /\ p \in alive
  /\ hb_age[p] >= T_HB
  /\ hb_age' = [hb_age EXCEPT ![p] = 0]
  /\ UNCHANGED <<alive, chk_age>>

\* Wrong variant: an entry that is there keeps its count.
ProcessHbKeepsCount(p) ==
  /\ SendHb(p)
  /\ neigh_table' = neigh_table \cup {p}
  /\ silence' = [silence EXCEPT ![p] = 0]
  /\ lost' = [lost EXCEPT ![p] = 0]
  /\ missed' = [missed EXCEPT ![p] = 0]
  /\ heard' = heard \cup {p}
  /\ down' = down \ {p}
  /\ UNCHANGED count

\* process_hb: add_neighbor, or the entry that find_neighbor returns is new again.
ProcessHb(p) ==
  /\ SendHb(p)
  /\ neigh_table' = neigh_table \cup {p}
  /\ count' = [count EXCEPT ![p] = 0]
  /\ silence' = [silence EXCEPT ![p] = 0]
  /\ lost' = [lost EXCEPT ![p] = 0]
  /\ missed' = [missed EXCEPT ![p] = 0]
  /\ heard' = heard \cup {p}
  /\ down' = down \ {p}

LoseHb(p) ==
  /\ SendHb(p)
  /\ lost[p] < MaxLost
  /\ lost' = [lost EXCEPT ![p] = @ + 1]
  /\ UNCHANGED <<code, silence, missed, heard, down>>

\* Wrong variant: -1 is never left.
NextCountStays(c) == IF c = 0 THEN -1 ELSE c

\* Wrong variant: the first round counts like the others.
NextCountFromZero(c) == IF c = -1 THEN 1 ELSE c + 1

\* What a round does to the count of an entry that it does not delete.
NextCount(c) == CASE c = 0 -> -1 [] c = -1 -> 1 [] c > 0 -> c + 1

\* Wrong variant: one round early.
GoneEarly == {p \in neigh_table : count[p] >= N_INACT \/ count[p] = -1}

\* Wrong variant: one round late.
GoneLate == {p \in neigh_table : count[p] > N_INACT}

\* The entries a round deletes.
Gone == {p \in neigh_table : count[p] >= N_INACT}

\* Missed rounds are counted up to one more than any entry survives.
OneMore(m) == IF m <= N_INACT THEN m + 1 ELSE m

CheckNeighbors ==
  /\ chk_age >= T_LHB
  /\ chk_age' = 0
  /\ neigh_table' = neigh_table \ Gone
  /\ count' = [p \in Peer |->
       IF p \in Gone THEN 0 ELSE IF p \in neigh_table THEN NextCount(count[p]) ELSE count[p]]
  /\ missed' = [p \in Peer |->
       IF p \in neigh_table \ (Gone \cup heard) THEN OneMore(missed[p]) ELSE 0]
  /\ heard' = {}
  /\ silence' = [p \in Peer |-> IF p \in Gone THEN 0 ELSE silence[p]]
  /\ UNCHANGED <<alive, hb_age, lost, down>>

Next ==
  \/ Tick
  \/ CheckNeighbors
  \/ \E p \in Peer : Start(p)
  \/ \E p \in Peer : Stop(p)
  \/ \E p \in Peer : ProcessHb(p)
  \/ \E p \in Peer : LoseHb(p)

(***************************************************************************)
(* Time passes and timers are served; no peer has to start or to stop, and *)
(* no heartbeat has to be lost.                                            *)
(***************************************************************************)
Fairness ==
  /\ WF_vars(Tick)
  /\ WF_vars(CheckNeighbors)
  /\ \A p \in Peer : WF_vars(ProcessHb(p) \/ LoseHb(p))

Spec == Init /\ [][Next]_vars /\ Fairness

-----------------------------------------------------------------------------
TypeInvariant ==
  /\ alive \subseteq Peer
  /\ hb_age \in [Peer -> 0 .. T_HB + MaxDelay]
  /\ chk_age \in 0 .. T_LHB + MaxDelay
  /\ neigh_table \subseteq Peer
  /\ count \in [Peer -> -1 .. N_INACT]
  /\ silence \in [Peer -> 0 .. MaxSilence]
  /\ lost \in [Peer -> 0 .. MaxLost]
  /\ missed \in [Peer -> 0 .. N_INACT]
  /\ heard \subseteq Peer
  /\ down \subseteq Peer

(***************************************************************************)
(* labels.h:69, the maximum number of iterations without a heartbeat       *)
(* before a neighbour is considered gone: an entry is deleted after one    *)
(* more, never before, and count says how many there were.                 *)
(***************************************************************************)
CountIsMissed ==
  \A p \in neigh_table :
    IF missed[p] > 0 THEN count[p] = missed[p]
    ELSE count[p] = IF p \in heard THEN 0 ELSE -1

GoneAfterInact ==
  [][\A p \in neigh_table \ neigh_table' : missed[p] = N_INACT /\ p \notin heard]_vars

\* check_neighbors gives nobody up who ran and was heard in time: with at most
\* MaxLost heartbeats in a row lost, only a peer that was down goes.
OnlyTheDownGo == [][neigh_table \ neigh_table' \subseteq down]_vars

\* An entry of a silent peer survives N_INACT + 2 rounds at most.
StaleEntryBound ==
  \A p \in neigh_table : silence[p] <= (N_INACT + 2) * (T_LHB + MaxDelay)

\* A peer that stays away is given up, and one that stays is known.
AwayIsGivenUp == \A p \in Peer : <>[](p \notin alive) => <>[](p \notin neigh_table)
PresentIsKnown == \A p \in Peer : <>[](p \in alive) => <>[](p \in neigh_table)
=============================================================================
