---------------------------- MODULE MCTimerQueue ----------------------------
(***************************************************************************)
(* An instance of TimerQueue for TLC: the heartbeat timer, the round of    *)
(* check_neighbors, the registration, which packets arm too, and a timer   *)
(* of a route.                                                             *)
(***************************************************************************)
EXTENDS TimerQueue, TLC

CONSTANTS hb_t, chk_neigh_t, rv_t, route_t

MCDuration == hb_t :> 3 @@ chk_neigh_t :> 4 @@ rv_t :> 2 @@ route_t :> 2
=============================================================================
