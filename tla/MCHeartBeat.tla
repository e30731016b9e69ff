---------------------------- MODULE MCHeartBeat ----------------------------
(***************************************************************************)
(* Instances of HeartBeat for TLC, with the times of labels.h.             *)
(***************************************************************************)
EXTENDS HeartBeat

CONSTANT p1
=============================================================================
