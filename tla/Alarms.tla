------------------------------- MODULE Alarms -------------------------------
(***************************************************************************)
(* What a timer queue promises: a timer is armed or not, an armed timer    *)
(* goes off once, when its time has come and never before, and arming it   *)
(* again only puts it off.                                                 *)
(***************************************************************************)
EXTENDS Integers

CONSTANTS
  Timer,
  Duration   \* Duration[t]: what t is armed for

VARIABLES
  armed,     \* the timers that are to go off
  left       \* left[t]: what is left until an armed t is due

vars == <<armed, left>>

Init == armed = {} /\ left = [t \in Timer |-> 0]

Arm(t) ==
  /\ armed' = armed \cup {t}
  /\ left' = [left EXCEPT ![t] = Duration[t]]

\* t goes off; its handler may arm t again.
GoOff(t) ==
  /\ t \in armed
  /\ left[t] <= 0
  /\ \/ armed' = armed \ {t} /\ left' = [left EXCEPT ![t] = 0]
     \/ Arm(t)

Tick ==
  /\ left' = [t \in Timer |-> IF t \in armed THEN left[t] - 1 ELSE 0]
  /\ UNCHANGED armed

Next == Tick \/ \E t \in Timer : Arm(t) \/ GoOff(t)

Spec == Init /\ [][Next]_vars
=============================================================================
