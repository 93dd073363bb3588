----------------------------- MODULE ReplayEngine -----------------------------
(***************************************************************************)
(* The two offline engines.  RealtimeEngine (streaming/realtime_engine.py) *)
(* is fed one event of a replay file after the other and keeps the flows   *)
(* of the current ten-second bucket pending; FinalDemoEngine               *)
(* (streaming/final_demo_engine.py) sorts a whole file of rows, each of    *)
(* them a flow and a packet, and walks through its buckets.                *)
(*                                                                         *)
(* An event is [kind, time]; a slot lasts two units of time and a state    *)
(* has the time its slot begins.  A window is [slot, count]: the flows a   *)
(* state is made of (0 for a state that came as an event), or the packets  *)
(* of a source activity table.                                             *)
(***************************************************************************)
EXTENDS StateBuffer, Ordering

CONSTANTS
    MaxStates,        \* --max-states
    MaxEvents,        \* bound: events of a file
    None

ASSUME ReplayAssumption ==
    /\ MaxStates \in Nat \ {0} /\ MaxEvents \in Nat
    /\ None \notin [slot : Nat, count : Nat]

VARIABLES
    withSources,      \* source_activity_enabled
    fed,              \* the events fed so far
    pending,          \* _pending_flow_bucket and _pending_flow_events
    packets,          \* the bucket and the events of the source accumulator
    tables,           \* the source activity tables emitted
    net,              \* the state buffer, what was pushed, the last inference
    phase             \* "reading", "finished", "stopped" or "failed"

replayVars == <<withSources, fed, pending, packets, tables, net, phase>>

SlotOf(time) == time \div 2

Times == 0 .. 2 * MaxSlot + 1

Events ==
    [kind : {"flow", "packet"}, time : Times]
        \cup [kind : {"state"}, time : {time \in Times : time % 2 = 0}]

NoStates == [buffer |-> <<>>, pushed |-> <<>>, inference |-> None, ok |-> TRUE]

(* _validate_sequence: what the inference insists on.                      *)
Admits(sequence) ==
    /\ Len(sequence) = SequenceLength
    /\ \A i \in 1 .. Len(sequence) - 1 :
           /\ sequence[i + 1] = sequence[i] + 1
           /\ DayOf(sequence[i + 1]) = DayOf(sequence[1])

(* _consume_state: push, and the inference when the buffer is ready.  A    *)
(* push that does not advance raises and ends the replay, and so would a   *)
(* sequence that the inference does not take.                              *)
Consume(states, window) ==
    LET slot == window.slot
        after == IF CrossesDay(states.buffer, slot) THEN <<slot>>
                 ELSE Pushed(states.buffer, slot)
        ready == IsReady(after) /\ ~ CrossesDay(states.buffer, slot)
    IN  IF ~ states.ok \/ DoesNotAdvance(states.buffer, slot)
        THEN [states EXCEPT !.ok = FALSE]
        ELSE IF LeavesGap(states.buffer, slot)
        THEN [states EXCEPT !.pushed = Append(@, window)]
        ELSE [states EXCEPT !.pushed = Append(@, window), !.buffer = after,
                            !.inference = IF ready THEN after ELSE @,
                            !.ok = ready => Admits(after)]

ReplayInit ==
    /\ withSources \in BOOLEAN
    /\ fed = <<>> /\ pending = None /\ packets = None
    /\ tables = <<>> /\ net = NoStates /\ phase = "reading"

OnTime(event) ==
    fed # <<>> =>
        LET before == fed[Len(fed)].time
        IN  event.time >= before /\ (event.kind = "state" => event.time > before)

Reads(event) ==
    /\ phase = "reading" /\ Len(fed) < MaxEvents
    /\ fed' = Append(fed, event)

(* What is in the bucket that the event does not belong to: it is complete *)
(* now.                                                                    *)
Completed(bucket, slot) ==
    IF bucket = None THEN <<>>
    ELSE IF bucket.slot = slot THEN <<>> ELSE <<bucket>>

(* Mutant: the event that completes a bucket is not put into the next one. *)
AddedToOpen(bucket, slot) ==
    IF bucket = None THEN [slot |-> slot, count |-> 1]
    ELSE IF bucket.slot = slot THEN [bucket EXCEPT !.count = @ + 1]
    ELSE [slot |-> slot, count |-> 0]

Added(bucket, slot) ==
    IF bucket # None /\ Completed(bucket, slot) = <<>>
    THEN [bucket EXCEPT !.count = @ + 1]
    ELSE [slot |-> slot, count |-> 1]

Open(bucket) == IF bucket = None THEN <<>> ELSE <<bucket>>

(* _flush_flow_window: the pending flows, if there are any to flush, go    *)
(* through _consume_state.                                                 *)
Flushed(windows) ==
    IF windows = <<>> THEN net ELSE Consume(net, windows[1])

(* replay() returns when max_states updates have been seen.                *)
Continues(states) ==
    /\ net' = states
    /\ phase' = IF ~ states.ok THEN "failed"
                ELSE IF Len(states.pushed) >= MaxStates THEN "stopped" ELSE phase

(* feed_event, kind "state": the pending flows are flushed first.          *)
FeedState(event) ==
    /\ event.kind = "state" /\ OnTime(event) /\ Reads(event)
    /\ Continues(Consume(Flushed(Open(pending)),
                         [slot |-> SlotOf(event.time), count |-> 0]))
    /\ pending' = None
    /\ UNCHANGED <<withSources, packets, tables>>

(* feed_event, kind "flow" *)
FeedFlow(event) ==
    LET slot == SlotOf(event.time)
    IN  /\ event.kind = "flow" /\ OnTime(event) /\ Reads(event)
        /\ Continues(Flushed(Completed(pending, slot)))
        /\ pending' = Added(pending, slot)
        /\ UNCHANGED <<withSources, packets, tables>>

(* feed_event, kind "packet", and SourceActivityAccumulator.feed *)
FeedPacket(event) ==
    LET slot == SlotOf(event.time)
    IN  /\ event.kind = "packet" /\ OnTime(event) /\ withSources /\ Reads(event)
        /\ tables' = tables \o Completed(packets, slot)
        /\ packets' = Added(packets, slot)
        /\ UNCHANGED <<withSources, pending, net, phase>>

(* feed_event raises: the event is too early, or a packet meets an engine  *)
(* without source activity.                                                *)
Refuse(event) ==
    /\ \/ ~ OnTime(event)
       \/ event.kind = "packet" /\ ~ withSources
    /\ Reads(event)
    /\ phase' = "failed"
    /\ UNCHANGED <<withSources, pending, packets, tables, net>>

(* The end of the file: finish() flushes the packets, then the flows.      *)
Finish ==
    /\ phase = "reading"
    /\ tables' = tables \o Open(packets)
    /\ packets' = None
    /\ net' = Flushed(Open(pending))
    /\ pending' = None
    /\ phase' = IF net'.ok THEN "finished" ELSE "failed"
    /\ UNCHANGED <<withSources, fed>>

ReplayNext ==
    \/ \E event \in Events :
          FeedState(event) \/ FeedFlow(event) \/ FeedPacket(event) \/ Refuse(event)
    \/ Finish

ReplaySpec == ReplayInit /\ [][ReplayNext]_replayVars
-----------------------------------------------------------------------------
(* FinalDemoEngine.run on the times of the rows: in which order the file   *)
(* has them does not matter, it sorts.                                     *)

DemoStart == [bucket |-> None, activity |-> <<>>, states |-> NoStates]

(* flush_bucket: the activity table of the bucket, its state, the push.    *)
FlushBucket(run) ==
    IF run.bucket = None THEN run
    ELSE [bucket |-> None, activity |-> Append(run.activity, run.bucket),
          states |-> Consume(run.states, run.bucket)]

(* Mutant: the rows of the bucket before are kept.                         *)
TakeRowKeeping(run, time) ==
    LET slot == SlotOf(time)
        flushed == IF Completed(run.bucket, slot) = <<>> THEN run
                   ELSE [FlushBucket(run) EXCEPT !.bucket = run.bucket]
    IN  [flushed EXCEPT !.bucket =
            IF @ = None THEN Added(@, slot)
            ELSE [slot |-> slot, count |-> @.count + 1]]

TakeRow(run, time) ==
    LET slot == SlotOf(time)
        flushed == IF Completed(run.bucket, slot) = <<>> THEN run
                   ELSE FlushBucket(run)
    IN  [flushed EXCEPT !.bucket = Added(@, slot)]

(* The rows in order of time, and the run after each of them.              *)
InTimeOrder(times) ==
    LET order == StableOrder(times)
    IN  [i \in DOMAIN times |-> times[order[i]]]

RunAfter(rows) ==
    LET after[n \in 0 .. Len(rows)] ==
            IF n = 0 THEN DemoStart ELSE TakeRow(after[n - 1], rows[n])
    IN  after

FinalDemo(times) == FlushBucket(RunAfter(InTimeOrder(times))[Len(times)])

OneCaptureDay(times) ==
    \A i, j \in DOMAIN times : DayOf(SlotOf(times[i])) = DayOf(SlotOf(times[j]))

(* run() raises on rows of several days and on too few states.             *)
DemoSucceeds(times) ==
    /\ times # <<>> /\ OneCaptureDay(times)
    /\ FinalDemo(times).states.inference # None
-----------------------------------------------------------------------------
EventsOf(kind) == {i \in DOMAIN fed : fed[i].kind = kind}

TimesOf(kind) == RowsAt([i \in DOMAIN fed |-> fed[i].time], EventsOf(kind))

(* One window for each slot with an event of the kind, in order, counting  *)
(* each of them once; the windows that came as states count for nothing.   *)
CountsAll(windows, kind) ==
    LET In(slot) == {i \in EventsOf(kind) : SlotOf(fed[i].time) = slot}
        counted  == {i \in DOMAIN windows : windows[i].count > 0}
    IN  /\ \A i, j \in counted : i < j => windows[i].slot < windows[j].slot
        /\ {windows[i] : i \in counted} =
               {[slot |-> slot, count |-> Cardinality(In(slot))] :
                    slot \in {SlotOf(fed[i].time) : i \in EventsOf(kind)}}

(* Whatever mixture of states, flows and packets a replay is fed, and      *)
(* wherever it is cut off: the flow states it pushed and the flows still   *)
(* pending are all flows fed, each once, in the window of its own slot,    *)
(* and so are the packets of the activity tables; a window is never        *)
(* flushed while flows of its slot are still to come.                      *)
ReplayCountsAll ==
    phase # "failed" =>
        /\ CountsAll(net.pushed \o Open(pending), "flow")
        /\ CountsAll(tables \o Open(packets), "packet")

Backwards(times) == [i \in DOMAIN times |-> times[Len(times) + 1 - i]]

(* The demo and the replay are two implementations of one thing: run over  *)
(* the flows of a finished replay, in the opposite order, the demo ends    *)
(* with the same inference or with none where the replay had none, and     *)
(* over its packets with the same activity tables                          *)
(* (final_demo_engine.py: no "second policy implementation").              *)
DemoAgreesWithReplay ==
    LET flows == Backwards(TimesOf("flow"))
        seen  == Backwards(TimesOf("packet"))
    IN  phase = "finished" /\ EventsOf("state") = {} =>
            /\ seen # <<>> => FinalDemo(seen).activity = tables
            /\ DemoSucceeds(flows) =>
                   FinalDemo(flows).states.inference = net.inference
            /\ OneCaptureDay(flows) /\ net.inference # None =>
                   DemoSucceeds(flows)
==============================================================================
