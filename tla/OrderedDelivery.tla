--------------------------- MODULE OrderedDelivery ---------------------------
(***************************************************************************)
(* What telemetry delivery promises, with everything between the two ends  *)
(* left out: states are captured in time order, and the central service    *)
(* records them in that order, each at most once, a batch at a time and    *)
(* possibly leaving some out ("bounded at-least-once delivery with         *)
(* server-side deduplication", docs/REMOTE_TELEMETRY_CONTRACT.md).         *)
(***************************************************************************)
EXTENDS Integers, Sequences

CONSTANT BatchLimit    \* most states the service records in one step

VARIABLES
    captured,          \* the states captured so far
    recorded           \* the states the service has recorded, in that order

Init == captured = {} /\ recorded = <<>>

Capture(slot) ==
    /\ \A earlier \in captured : earlier < slot
    /\ captured' = captured \cup {slot}
    /\ UNCHANGED recorded

(* A batch is a run of consecutive ten-second slots. *)
Record(first, length) ==
    /\ first .. first + length - 1 \subseteq captured
    /\ recorded # <<>> => recorded[Len(recorded)] < first
    /\ recorded' = recorded \o [i \in 1 .. length |-> first + i - 1]
    /\ UNCHANGED captured

Next ==
    \/ \E slot \in captured' : Capture(slot)
    \/ \E first \in captured, length \in 1 .. BatchLimit : Record(first, length)

Spec == Init /\ [][Next]_<<captured, recorded>>
==============================================================================
