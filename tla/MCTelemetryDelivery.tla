------------------------- MODULE MCTelemetryDelivery -------------------------
(* TLC instance of TelemetryDelivery.  Sequence numbers, slots and failures *)
(* are small numbers; each configuration chooses the sizes and the failures *)
(* its question needs.                                                      *)
EXTENDS TelemetryDelivery

==============================================================================
