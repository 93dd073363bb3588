------------------------------ MODULE LiveStore ------------------------------
(***************************************************************************)
(* The runtime of the central service's own live capture                   *)
(* (api/live_runtime.py, LiveRuntimeStore).  Packets become flows, the     *)
(* retained flows become states, the states fill a StateBuffer, and every  *)
(* full buffer becomes a forecast.  A flow and a state are their slots; a  *)
(* flow counts in the slot of its first packet.                            *)
(*                                                                         *)
(* The lock of the store covers each operator below, and nothing else: the *)
(* inference itself runs with the lock released, between Accept and        *)
(* StoreForecast.                                                          *)
(***************************************************************************)
EXTENDS StateBuffer, Functions

CONSTANTS
    MaxFlowRecords,   \* max_flow_records (4096 in the code)
    None              \* the value of what may be missing

ASSUME StoreAssumption ==
    /\ MaxFlowRecords \in Nat \ {0}
    /\ None \notin Slots
    /\ None \notin [session : Nat, slot : Slots]

VARIABLES
    session,          \* _session_id, counted
    firstEvent,       \* the slot of the first packet of the flow builder
    lastEvent,        \* the flow builder's _last_event_timestamp
    records,          \* _completed_flows
    states,           \* _state_buffer._states
    bufferFill,       \* _buffer_fill, the "x / 10" that is shown
    latestState,      \* _latest_state_timestamp
    lastForecast,     \* _last_forecast, with the session whose states it read
    staleForecast,    \* _stale_forecast
    staleSession      \* _stale_forecast_session_id

historyVars == <<firstEvent, lastEvent, records, states, bufferFill,
                 latestState>>
forecastVars == <<session, lastForecast, staleForecast, staleSession>>
storeVars == <<historyVars, forecastVars>>

StoreInit ==
    /\ session = 0
    /\ firstEvent = None /\ lastEvent = None
    /\ records = <<>> /\ states = <<>>
    /\ bufferFill = 0 /\ latestState = None
    /\ lastForecast = None /\ staleForecast = None /\ staleSession = None

(* start_session *)
StartSession ==
    /\ session' = session + 1
    /\ IF lastForecast = None
       THEN UNCHANGED <<staleForecast, staleSession>>
       ELSE staleForecast' = lastForecast /\ staleSession' = session
    /\ lastForecast' = None
    /\ firstEvent' = None /\ lastEvent' = None
    /\ records' = <<>> /\ states' = <<>>
    /\ bufferFill' = 0 /\ latestState' = None

InOrder(slot) == lastEvent # None => slot >= lastEvent

NoteEvent(slot) ==
    /\ lastEvent' = slot
    /\ firstEvent' = IF firstEvent = None THEN slot ELSE firstEvent

(* A deque with a maximum length: the oldest go. *)
Kept(deque) ==
    IF Len(deque) > MaxFlowRecords
    THEN SubSeq(deque, Len(deque) - MaxFlowRecords + 1, Len(deque)) ELSE deque

(* Mutant: only the slots that have flows.                                 *)
BusySlots(flows) == Range(flows)

(* The slots of the states that are built of the flows: of each day, all   *)
(* from the first to the last that has a flow (_complete_state_index).     *)
StateSlots(flows) ==
    {slot \in 0 .. MaxSlot : \E a, b \in Range(flows) :
        DayOf(a) = DayOf(b) /\ a <= slot /\ slot <= b}

FillAfter(fill, buf, slot) ==
    IF CrossesDay(buf, slot) THEN 1
    ELSE IF LeavesGap(buf, slot) THEN fill
    ELSE IF fill < SequenceLength THEN fill + 1 ELSE fill

StatesAfter(buf, slot) ==
    IF CrossesDay(buf, slot) THEN <<slot>>
    ELSE IF LeavesGap(buf, slot) THEN buf ELSE Pushed(buf, slot)

FormsSequence(buf, slot) ==
    /\ ~ CrossesDay(buf, slot) /\ ~ LeavesGap(buf, slot)
    /\ IsReady(Pushed(buf, slot))

(* Mutant: the newest sequence is handed over first.                       *)
WithStateFirst(history, slot) ==
    [states |-> StatesAfter(history.states, slot),
     fill   |-> FillAfter(history.fill, history.states, slot),
     formed |-> IF FormsSequence(history.states, slot)
                THEN <<slot>> \o history.formed ELSE history.formed,
     latest |-> slot]

(* One state that is later than all before: StateBuffer.push, then the     *)
(* fill, then the sequence for the inference, named by its last slot.      *)
WithState(history, slot) ==
    [states |-> StatesAfter(history.states, slot),
     fill   |-> FillAfter(history.fill, history.states, slot),
     formed |-> IF FormsSequence(history.states, slot)
                THEN Append(history.formed, slot) ELSE history.formed,
     latest |-> slot]

(* The slots of the states that _refresh_states goes on to.  A state whose *)
(* key is known, or that comes again after its key was dropped, is not     *)
(* later than latestState either.                                          *)
Later(flows) ==
    {slot \in StateSlots(flows) : latestState = None \/ slot > latestState}

(* _refresh_states over the retained flows, one state after the other: the *)
(* n-th history has all the new states before slot n.                      *)
Histories(flows) ==
    LET history[n \in 0 .. MaxSlot + 1] ==
            IF n = 0
            THEN [states |-> states, fill |-> bufferFill, formed |-> <<>>,
                  latest |-> latestState]
            ELSE IF n - 1 \in Later(flows)
            THEN WithState(history[n - 1], n - 1) ELSE history[n - 1]
    IN  history

Refreshed(flows) == Histories(flows)[MaxSlot + 1]

(* The first part of ingest_event, for a packet that completes the flows   *)
(* completed (the slots of their first packets).  Its branch for a state   *)
(* generation that fails (live_runtime.py:173-178) is left out: the        *)
(* records that the flow builder makes hold every field it needs.          *)
Accept(slot, completed) ==
    LET flows   == Kept(records \o completed)
        history == Refreshed(flows)
    IN  /\ InOrder(slot)
        /\ NoteEvent(slot)
        /\ IF completed = <<>>
           THEN UNCHANGED <<records, states, bufferFill, latestState>>
           ELSE /\ records' = flows
                /\ states' = history.states
                /\ bufferFill' = history.fill
                /\ latestState' = history.latest
        /\ UNCHANGED forecastVars

(* The sequences that Accept hands to the inference. *)
Sequences(completed) ==
    IF completed = <<>> THEN <<>>
    ELSE Refreshed(Kept(records \o completed)).formed

(* feed_event raised: out of order, an invalid event (before the builder   *)
(* notes its time) or a full flow table (after).  The caller gets False.   *)
Refuse(slot) ==
    /\ \/ UNCHANGED <<firstEvent, lastEvent>>
       \/ InOrder(slot) /\ firstEvent # None /\ NoteEvent(slot)
    /\ UNCHANGED <<records, states, bufferFill, latestState, forecastVars>>

IsCurrent(forecast) ==
    lastForecast = None \/ forecast.slot >= lastForecast.slot

(* The end of ingest_event, when the inference has an answer. *)
StoreForecast(forecast) ==
    /\ lastForecast' = IF IsCurrent(forecast) THEN forecast ELSE lastForecast
    /\ UNCHANGED <<session, staleForecast, staleSession, historyVars>>
-----------------------------------------------------------------------------
Forecasts == [session : Nat, slot : Slots]

StoreTypeOK ==
    /\ session \in Nat
    /\ firstEvent \in Slots \cup {None} /\ lastEvent \in Slots \cup {None}
    /\ records \in Seq(Slots) /\ Len(records) <= MaxFlowRecords
    /\ states \in Seq(Slots) /\ Len(states) <= SequenceLength
    /\ bufferFill \in 0 .. SequenceLength
    /\ latestState \in Slots \cup {None}
    /\ lastForecast \in Forecasts \cup {None}
    /\ staleForecast \in Forecasts \cup {None}
    /\ staleSession \in Nat \cup {None}

(* The history of the live model has no hole, does not span midnight, and, *)
(* until the session's packets cross a midnight, does not fall behind the  *)
(* states that are built: after a hole the buffer would wait, and its fill *)
(* stand still, until the next day (REALTIME_ARCHITECTURE.md: "Missing     *)
(* intervals are reported as waiting; no interpolation is performed").  It *)
(* needs more retained flows than one packet can complete; the code's 4096 *)
(* and 10000 do not assure that.  After midnight it can fall behind: flows *)
(* of the evening that complete late push those of the morning out.        *)
HistoryIsWhole ==
    /\ Contiguous(states)
    /\ states # <<>> /\ DayOf(firstEvent) = DayOf(lastEvent) =>
           Newest(states) = latestState

(* "Forecast history x / 10 is the authoritative sequence buffer used by   *)
(* the live model" (FRONTEND_RUNTIME_STATE_MODEL.md): the count shown is   *)
(* kept beside the buffer, on other branches.                              *)
FillIsHonest == bufferFill = Len(states)
==============================================================================
