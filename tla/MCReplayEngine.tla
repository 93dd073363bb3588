---------------------------- MODULE MCReplayEngine ----------------------------
(* TLC instance of ReplayEngine: histories of two states, days of three    *)
(* slots, and files whose last event may be in the day after.              *)
EXTENDS ReplayEngine
==============================================================================
