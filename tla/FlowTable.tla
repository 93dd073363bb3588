------------------------------ MODULE FlowTable ------------------------------
(***************************************************************************)
(* The flow builder (streaming/flow_builder.py): it groups packets into    *)
(* bidirectional flows and gives a flow's record back when the flow ends,  *)
(* by FIN or RST, by the idle or the active timeout, or by a flush.  A     *)
(* timeout is noticed only when the next packet of any flow arrives.       *)
(*                                                                         *)
(* A flow is its key with the times of its first and its last packet; the  *)
(* packet counts and sizes of its record are data nobody branches on.      *)
(* Time is counted in ticks.                                               *)
(***************************************************************************)
EXTENDS Integers, FiniteSets

CONSTANTS
    FlowKeys,         \* canonical five-tuples
    IdleTimeout,      \* flow_idle_timeout_seconds
    ActiveTimeout,    \* flow_active_timeout_seconds
    MaxTracked,       \* max_tracked_flows
    MaxTime           \* bound: the time of the last packet

ASSUME FlowAssumption ==
    /\ IsFiniteSet(FlowKeys)
    /\ IdleTimeout \in Nat \ {0}
    /\ ActiveTimeout \in Nat \ {0}
    /\ MaxTracked \in Nat \ {0}
    /\ MaxTime \in Nat

VARIABLES
    flows,            \* _flows: the first and last packet of each tracked key
    lastEvent,        \* _last_event_timestamp
    createdCount,     \* _created_count
    closedCount,      \* _closed_count
    returnedCount     \* how many records feed_event and flush have returned

flowVars == <<flows, lastEvent, createdCount, closedCount, returnedCount>>

Tracked == DOMAIN flows
Only(keys) == [key \in keys |-> flows[key]]

FlowInit ==
    /\ flows = [key \in {} |-> {}]
    /\ lastEvent = 0
    /\ createdCount = 0 /\ closedCount = 0 /\ returnedCount = 0

(* Mutant: a flow ends only after it has been silent.                      *)
TimedOutIdle(flow, time) == time - flow.last >= IdleTimeout

TimedOut(flow, time) ==
    \/ time - flow.last >= IdleTimeout
    \/ time - flow.first >= ActiveTimeout

(* _close_due *)
Overdue(time) == {key \in Tracked : TimedOut(flows[key], time)}

(* The flow a packet belongs to, with that packet added. *)
Extended(key, time) ==
    [first |-> IF key \in Tracked \ Overdue(time) THEN flows[key].first ELSE time,
     last  |-> time]

(* Mutant: one flow too many.                                              *)
FitsLate(key, time) ==
    LET left == Tracked \ Overdue(time)
    IN  key \in left \/ Cardinality(left) <= MaxTracked

Fits(key, time) ==
    LET left == Tracked \ Overdue(time)
    IN  key \in left \/ Cardinality(left) < MaxTracked

(* Mutant: the flows that timed out are not counted as closed.             *)
CountEndedOnly(key, time, ends) ==
    closedCount' = closedCount + IF ends THEN 1 ELSE 0

CountClosed(key, time, ends) ==
    closedCount' = closedCount + Cardinality(Overdue(time))
                               + IF ends THEN 1 ELSE 0

(* feed_event for a packet of the flow key at time; ends: it has FIN or    *)
(* RST.  (A packet older than the last one raises and changes nothing.)    *)
Feed(key, time, ends) ==
    /\ time >= lastEvent
    /\ Fits(key, time)
    /\ lastEvent' = time
    /\ LET left  == Tracked \ Overdue(time)
           after == left \cup {key}
           table == [k \in after |->
                        IF k = key THEN Extended(key, time) ELSE flows[k]]
       IN  /\ flows' = IF ends THEN [k \in after \ {key} |-> flows[k]]
                               ELSE table
           /\ createdCount' = createdCount + IF key \in left THEN 0 ELSE 1
    /\ CountClosed(key, time, ends)
    /\ returnedCount' = returnedCount + (closedCount' - closedCount)

(* Whether feed_event returns any record. *)
Completes(time, ends) == ends \/ Overdue(time) # {}

(* The table is full: the packet of a new flow raises.  The flows that had *)
(* timed out are gone from the table and counted as closed, and their      *)
(* records go with the exception.                                          *)
FeedOverflows(key, time) ==
    /\ time >= lastEvent
    /\ ~ Fits(key, time)
    /\ lastEvent' = time
    /\ flows' = Only(Tracked \ Overdue(time))
    /\ closedCount' = closedCount + Cardinality(Overdue(time))
    /\ UNCHANGED <<createdCount, returnedCount>>

(* flush *)
FlushFlows ==
    /\ flows' = [key \in {} |-> {}]
    /\ closedCount' = closedCount + Cardinality(Tracked)
    /\ returnedCount' = returnedCount + Cardinality(Tracked)
    /\ UNCHANGED <<lastEvent, createdCount>>

(* A new builder, in a new process. *)
NewFlowTable ==
    /\ flows' = [key \in {} |-> {}]
    /\ createdCount' = 0 /\ closedCount' = 0 /\ returnedCount' = 0
    /\ UNCHANGED lastEvent

FlowNext ==
    \/ \E key \in FlowKeys, time \in 0 .. MaxTime :
           \/ \E ends \in BOOLEAN : Feed(key, time, ends)
           \/ FeedOverflows(key, time)
    \/ FlushFlows
    \/ NewFlowTable

FlowSpec == FlowInit /\ [][FlowNext]_flowVars
-----------------------------------------------------------------------------
Flows == [first : Nat, last : Nat]

FlowTypeOK ==
    /\ Tracked \subseteq FlowKeys
    /\ \A key \in Tracked : flows[key] \in Flows
    /\ Cardinality(Tracked) <= MaxTracked
    /\ lastEvent \in Nat
    /\ createdCount \in Nat /\ closedCount \in Nat /\ returnedCount \in Nat

(* No flow outlives its timeouts by more than the silence before the next  *)
(* packet of any flow: after each packet, every flow that is left is young *)
(* and has been heard of recently (LIVE_PACKET_TO_FLOW_CONTRACT.md: a flow *)
(* closes on idle timeout and active timeout).                             *)
NoFlowOverdue ==
    \A key \in Tracked :
        /\ flows[key].first <= flows[key].last /\ flows[key].last <= lastEvent
        /\ lastEvent - flows[key].last < IdleTimeout
        /\ lastEvent - flows[key].first < ActiveTimeout

(* status() adds up: a flow that was created is tracked or closed, once.   *)
StatusAddsUp == createdCount = Cardinality(Tracked) + closedCount
=============================================================================
