---------------------------- MODULE MCSensorAccess ----------------------------
(* TLC instance of SensorAccess: two enrollments, so two sensors, with room *)
(* for one runtime, and one rotation.                                       *)
EXTENDS SensorAccess

===============================================================================
