---------------------------- MODULE MCLiveCapture ----------------------------
(* TLC instance of LiveCapture: a history of two states, days of three     *)
(* slots, and a second sniffer for the session after a stop.               *)
EXTENDS LiveCapture

==============================================================================
