---------------------------- MODULE RemoteRuntime ----------------------------
(***************************************************************************)
(* The central service's in-memory runtime of one sensor                   *)
(* (sensors/runtime.py, RemoteSensorRuntime): a StateBuffer, the history   *)
(* length it reports, and its latest forecast.  It is process-local: a     *)
(* restart of the central service starts it again from nothing.            *)
(***************************************************************************)
EXTENDS StateBuffer

CONSTANTS
    NoForecast        \* the value of _latest_forecast before any inference

ASSUME RuntimeAssumption == NoForecast \notin Slots

VARIABLES
    states,           \* _buffer._states
    historyLength,    \* _history_length, what snapshot() reports
    latestForecast    \* _latest_forecast: the last slot of the sequence it read

rtVars == <<states, historyLength, latestForecast>>

RuntimeInit ==
    /\ states = <<>>
    /\ historyLength = 0
    /\ latestForecast = NoForecast

(***************************************************************************)
(* ingest, for one state of a batch.                                       *)
(***************************************************************************)

(* StateBuffer.push raised: ingest raises ValueError and changes nothing   *)
(* more.  States of the batch that were pushed before stay pushed.         *)
RefuseState(slot) ==
    /\ DoesNotAdvance(states, slot)
    /\ UNCHANGED rtVars

(* Mutant: the first state of the new history is not counted.              *)
CountNone == historyLength' = 0

CountFirst == historyLength' = 1

(* Mutant: the old forecast stays on offer.                                *)
KeepForecast == UNCHANGED latestForecast

WithdrawForecast == latestForecast' = NoForecast

(* A gap or a new capture day: the history restarts at this state. *)
RestartHistory(slot) ==
    /\ LeavesGap(states, slot) \/ CrossesDay(states, slot)
    /\ states' = <<slot>>
    /\ CountFirst /\ WithdrawForecast

(* The state extends the history.  When the history is full the inference  *)
(* runs; if it raises, the state is already pushed and the old forecast    *)
(* stays.                                                                  *)
ExtendHistory(slot, inferenceRuns) ==
    /\ ~ DoesNotAdvance(states, slot)
    /\ ~ LeavesGap(states, slot)
    /\ ~ CrossesDay(states, slot)
    /\ states' = Pushed(states, slot)
    /\ inferenceRuns \/ IsReady(states')
    /\ historyLength' =
           IF historyLength < SequenceLength THEN historyLength + 1
                                             ELSE SequenceLength
    /\ latestForecast' =
           IF IsReady(states') /\ inferenceRuns THEN slot ELSE latestForecast

(* A restart of the central process. *)
LoseRuntime ==
    /\ states' = <<>>
    /\ historyLength' = 0
    /\ latestForecast' = NoForecast

RuntimeNext ==
    \/ \E slot \in 0 .. MaxSlot :
           \/ RefuseState(slot)
           \/ RestartHistory(slot)
           \/ \E ok \in BOOLEAN : ExtendHistory(slot, ok)
    \/ LoseRuntime

RuntimeSpec == RuntimeInit /\ [][RuntimeNext]_rtVars
-----------------------------------------------------------------------------
RuntimeTypeOK ==
    /\ states \in Seq(Slots)
    /\ Len(states) <= SequenceLength
    /\ historyLength \in 0 .. SequenceLength
    /\ latestForecast \in Slots \cup {NoForecast}

(* The model's input never spans a missing interval or midnight: whatever  *)
(* order, gaps and failures ingest sees, the buffered states are           *)
(* consecutive ten-second states of one day (the strict ordering that      *)
(* docs/SENSOR_RELIABILITY.md promises, "Gaps reset the sensor history").  *)
HistoryIsContiguous == Contiguous(states)

(* The history length that is reported is the length that is held: the     *)
(* counter and the buffer are updated by different branches of ingest.     *)
HistoryLengthIsHonest == historyLength = Len(states)

(* A forecast is on offer only while ten contiguous states are held, and   *)
(* it never comes from a later interval or another day than they do: a     *)
(* gap, a day boundary or a restart withdraws it.                          *)
ForecastNeedsHistory ==
    latestForecast # NoForecast =>
        /\ IsReady(states)
        /\ latestForecast <= Newest(states)
        /\ DayOf(latestForecast) = DayOf(Newest(states))
==============================================================================
