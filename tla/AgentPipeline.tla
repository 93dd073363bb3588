---------------------------- MODULE AgentPipeline ----------------------------
(***************************************************************************)
(* The capture thread of the remote agent: every packet goes through       *)
(* ingest_event (agent/collector.py), which feeds the flow table and, when *)
(* flows complete, hands them to the collector's windows.  The queue       *)
(* behind the collector never fills here (TelemetryDelivery has the rest). *)
(*                                                                         *)
(* AgentCollector assumes that completions do not go back in time; here    *)
(* they come from packets, and PromptSpec says that the assumption holds.  *)
(***************************************************************************)
EXTENDS FlowTable, AgentCollector

CONSTANTS
    TicksPerSlot,     \* ticks in one ten-second window
    MaxFlows          \* bound: flows created by one process

ASSUME PipelineAssumption ==
    /\ TicksPerSlot \in Nat \ {0}
    /\ MaxFlows \in Nat
    /\ MaxTime < (MaxSlot + 1) * TicksPerSlot

pipelineVars == <<flowVars, collectorVars>>

SlotOf(time) == time \div TicksPerSlot

PipelineInit == FlowInit /\ CollectorInit

(* Mutant: flows are kept in the window of their first packet.             *)
FirstPacketWindow(key, time) ==
    SlotOf(IF key \in Tracked THEN flows[key].first ELSE time)

(* "Live state scheduling must use the completion watermark ... the        *)
(* current packet's capture timestamp": _accept_flows.                     *)
CompletionWindow(key, time) == SlotOf(time)

(* The capture thread is free, and the packet comes after the process      *)
(* was started.                                                            *)
MayArrive(time) ==
    /\ ~ stopping /\ emitting = {}
    /\ fresh => SlotOf(time) > lastWindow

Packet(key, time, ends) ==
    /\ MayArrive(time)
    /\ createdCount < MaxFlows
    /\ Feed(key, time, ends)
    /\ IF Completes(time, ends)
       THEN AcceptFlows(CompletionWindow(key, time))
       ELSE UNCHANGED collectorVars

(* The exception passes through ingest_event to the capture adapter, which *)
(* counts it.                                                              *)
PacketRefused(key, time) ==
    /\ MayArrive(time)
    /\ FeedOverflows(key, time)
    /\ UNCHANGED collectorVars

Emit == \E slot \in emitting : EmitState(slot) /\ UNCHANGED flowVars

(* flush ends every active flow at its last packet. *)
ShutDown ==
    /\ Flush({SlotOf(flows[key].last) : key \in Tracked})
    /\ FlushFlows

NewProcess == NewCollector /\ NewFlowTable

PipelineNext ==
    \/ \E key \in FlowKeys, time \in 0 .. MaxTime :
           \/ \E ends \in BOOLEAN : Packet(key, time, ends)
           \/ PacketRefused(key, time)
    \/ Emit
    \/ ShutDown
    \/ NewProcess

PipelineSpec == PipelineInit /\ [][PipelineNext]_pipelineVars
-----------------------------------------------------------------------------
PipelineTypeOK == FlowTypeOK /\ CollectorTypeOK
=============================================================================
