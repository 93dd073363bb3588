# SENTINEL-NI in TLA+

A formal model of the parts of SENTINEL-NI whose correctness depends on what
happens in which order: the remote sensor agent and the files and processes of
its host, the delivery of its network states to the central service, the
service's per-sensor runtime, the credentials that let a sensor in, the
service's own live capture, and the offline side: how flows become training
windows, how the scripts train, test and save models and how the service loads
them, and how files of traffic are replayed.  Paths such as `agent/client.py`
are below `src/src/`, scripts below `src/scripts/`; documents are below
`src/docs/`.

Contents: 1 the system, 2 the modules, 3 the runs, 4 fairness, 5 what is
proved, 6 disagreements with the documents, 7 what is not modelled, 8 the plan.

## 1. The system

SENTINEL-NI watches network traffic, turns packets into flows, flows into one
*network state* per ten-second interval, and ten consecutive states into a
forecast.  It runs in two shapes: a *remote agent* captures on another machine
and sends its states to the *central service*; or the central service captures
locally itself.

```
 remote agent process                       central service process
 +--------------------------------+        +-----------------------------------+
 | sniffer thread                 |        | event loop (one handler at a time)|
 |   LiveTelemetryAdapter         |        |   ingest_remote_telemetry         |
 |   FlowBuilder -> AgentCollector|        |     SensorRegistry  -> JSON file  |
 |        | on_state              |        |     RemoteSensorRuntime (memory)  |
 |   _pending deque (bounded)     |  HTTPS |     audit file                    |
 | main thread        |           |------->|   start / stop of live capture    |
 |   TelemetryBatcher, sequence   |<-------|     LiveTelemetryAdapter          |
 |   direct send or DiskBuffer    |  ack / | sniffer thread                    |
 |   (files) -> flush with backoff| refuse |   LiveRuntimeStore                |
 |   config file (next_sequence)  |        |                                   |
 +--------------------------------+        +-----------------------------------+
```

### 1.1 Components

| Component | Source | State it keeps | Operations | What must be right |
|---|---|---|---|---|
| flow builder | `streaming/flow_builder.py` | table of active flows, last packet time, counters | `feed_event`, `flush` | flows end when due; the table is bounded; the counters add up |
| agent collector | `agent/collector.py`, `features/network_state.py` | flows of each open window, the last emitted window | `ingest_event`, `_emit_due`, `flush` | every window of a day once, in order, none reopened |
| agent queue and main loop | `agent/client.py`, `agent/telemetry.py` | `_pending`, the sequence counter, the retry time | `_on_state`, `_drain_pending`, `submit_states`, `flush_buffer`, `run` | no state disappears without a trace; one number names one envelope; order |
| disk buffer | `agent/buffer.py` | one JSON file a batch, `rejected/` | `enqueue`, `peek`, `pop`, `reject` | bounded; evictions counted; survives a crash |
| agent configuration | `agent/config.py` | `next_sequence`, the runtime token | `save` | never behind the numbers in use |
| transport | `agent/transport.py` | none | `request_json` | which failures are retried |
| telemetry handler | `api/app.py`, `api/sensors.py` | none of its own; holds the registry's lock | `ingest_remote_telemetry` | ingest once, record, answer |
| sensor registry | `sensors/registry.py` | enrollments, token hashes, last sequence and hash, health; a JSON file | `register`, `rotate`, `disable`, `check_telemetry`, `accept_telemetry`, `accept_heartbeat_details` | durable before acknowledged; credentials expire |
| remote runtime | `sensors/runtime.py`, `streaming/state_buffer.py` | a history of ten states, its reported length, the forecast | `ingest`, `snapshot` | contiguous, one day, the forecast matches the history |
| live adapter | `telemetry/live.py` | capture state, the sniffer's handle, counters; a lock | `start`, `stop`, `_on_packet`, `status` | one sniffer; start and stop return |
| live runtime | `api/live_runtime.py`, `api/app.py` | session, retained flows, state history, current and stale forecast; a lock | `start_session`, `ingest_event`, `snapshot` | sessions do not mix; late answers do not win |
| sensor routes | `api/app.py`, `api/sensors.py`, `sensors/manager.py` | the runtimes a view allocates | enrollment, register, rotate, disable, heartbeat, views | a credential is good for one sensor from its issue to its revocation, and is told to somebody |
| registration limiter | `platform/rate_limit.py` | a window of request times a client | `check` | bounded; the window slides |
| agent host | `agent/cli.py`, `agent/client.py`, `agent/validation.py` | configuration, credential, pid file, stop request, buffer directory; all shared by processes | `init`, `register`, `start`, `restart`, `stop`, `status` | a batch number is used once; nothing vanishes between processes; a running agent can be stopped |
| replay and demo engines | `streaming/realtime_engine.py`, `replay.py`, `source_activity.py`, `final_demo_engine.py` | pending flows, pending packets, a state buffer | `feed_event`, `finish`; `run` | every event counted once in its own window; both engines agree |
| offline data | `prepare_cic_multiday.py`, `build_network_states.py`, `build_state_splits.py`, `build_temporal_windows.py`, `features/network_state.py`, `forecasting/windowing.py`, `preprocessing/split.py` | one file a script | one a script | windows do not span days; targets are the future and only the future |
| training and artifacts | `train_baseline.py`, `train_world_model.py`, `compare_lstm_sequence_lengths.py`, `train_multistep.py`, `build_operating_policy.py`, `forecasting/inference.py` | split files, checkpoints, preprocessors, policy; a cache of loaded bundles | one a script; `predict` | what is saved is what was selected, without the test day; the cache is not stale |
| numeric parts | `models/`, `evaluation/`, `features/` | none | numeric | - |
| frontend, dashboards, reports | `frontend/`, `app/`, other `scripts/` | user interface, figures | - | - |

### 1.2 How they interact

* **Threads.**  The agent has two: the sniffer thread runs packet, flow,
  collector and `_on_state` in one call chain; the main thread drains, sends,
  flushes and heartbeats.  They share only the `_pending` deque.  The central
  service's handlers are coroutines without an `await` in their bodies: one
  runs at a time, and the registry's lock is held from the authentication
  dependency to the end of a telemetry request.  Its live capture adds sniffer
  threads, which share the adapter's lock and the live store's lock with the
  event loop; the inference runs with neither.  One dependency, `require_sensor`
  of the heartbeat and status routes, is not a coroutine: it runs in a worker
  thread before the route.
* **Messages.**  One request at a time from one agent, with a timeout; the
  service may still be working on a request the agent has given up.
* **Processes of one host.**  Each command of `sentinel-agent` is a process of
  its own.  They share the configuration and credential files, the buffer
  directory, the pid file and the stop request, and no lock.
* **Files of the offline scripts.**  Each script reads what the one before it
  wrote, in place; the service loads the artifacts while they may be replaced.
* **Durable state.**  The agent's configuration file and batch files; the
  service's registry file and audit file.  All runtimes are in memory only.

### 1.3 What is hard

Interleavings of the sniffer thread with the main thread or with a stop; a
timeout racing a late answer; a crash or restart of either side between a
change in memory and its file; a handler that fails between ingesting states
and recording their sequence number; bounded queues and buffers refusing in the
middle of an emission; midnight; the retry of what was already done; two
commands that read and rewrite one file; files that are replaced while they are
read; off-by-ones between a window and its target that no error reports.  The
list, with lines, is `hazards` in `PROJECT.json`.

## 2. The modules

A *slot* is the number of a ten-second interval, and stands for a window, for
the state built of it, and for its timestamp.  `DayOf(slot)` is its capture
day.  Everything else in a state is numeric data that no branch depends on.

| Module | Models | State and actions |
|---|---|---|
| `StateBuffer` | `StateBuffer.push` | no state; the four ways a state can relate to the history (`DoesNotAdvance`, `CrossesDay`, `LeavesGap`, or it extends it) in the order `push` tests them, and `Pushed`.  Used by every history below. |
| `RemoteRuntime` | `RemoteSensorRuntime.ingest` | `states`, `historyLength`, `latestForecast`; `RefuseState`, `RestartHistory`, `ExtendHistory` (with an inference that may raise), `LoseRuntime` |
| `FlowTable` | `FlowBuilder` | the table with first and last packet of each flow, and its counters; `Feed`, `FeedOverflows`, `FlushFlows` |
| `AgentCollector` | `AgentCollector` | open windows, the emission under way, the last emitted window; `AcceptFlows`, `EmitState`, `EmissionRefused`, `Flush`, `NewCollector`.  `CompleteFlow` and `BeginFlush` add what the collector may assume of packet times. |
| `AgentPipeline` | the agent's sniffer thread | `FlowTable` and `AgentCollector` composed: a packet feeds the table, and completed flows go to the collector in the window of the packet that completes them |
| `TelemetryDelivery` | the whole path from `_on_state` to the acknowledgment | the agent's two threads, the buffer, requests on their way, the handler step by step, registry and registry file, `RemoteRuntime`, and what became of every state |
| `OrderedDelivery` | the promise of delivery, abstractly | `captured` and `recorded`; states are recorded in order, each at most once |
| `SensorRegistry` | `SensorRegistry` | enrollments, sensors, request times and the registry's file; one operator for each method, `Save` and `SaveFails` for the end of each |
| `SensorAccess` | the sensor routes | `SensorRegistry` with the runtimes a view needs, heartbeats that have authenticated, and what callers were told; one action a route, `AuthenticateHeartbeat`, `Restart`, `Tick` |
| `LiveStore` | `LiveRuntimeStore` | session, retained flows, history, forecasts; `StartSession`, `Accept`, `Refuse`, `StoreForecast`: one operator for each stretch the store's lock covers |
| `LiveCapture` | `LiveTelemetryAdapter`, its threads, and the start and stop routes | `LiveStore` with the adapter's lock, sniffer threads as programs with a position, and the event loop |
| `ConfigStore` | `AgentConfig.load`, `save` | `configFile` and `credential`; one operator for each file that is replaced |
| `DiskBuffer` | `DiskTelemetryBuffer` as files | `disk`: temporary, queued and quarantined files, whole or not; one operator for each file operation of `enqueue`, `peek`, `pop`, `reject` and of opening the buffer |
| `AgentHost` | the commands of the agent as processes | `ConfigStore` and `DiskBuffer` composed with pid file, stop request and processes that have a position; one action for each file access |
| `Ordering` | how pandas orders and selects rows | no state; `Arranged` lays a finite set out by an order, `RowsAt` takes the rows at some positions, `StableOrder` is the merge sort.  First-order, so that proofs can cite them: used by the next three modules. |
| `StateWindows` | flows to states to windows, splits | no state; operators for labels, the state table, both window constructions and the chronological split |
| `ForecastDataset` | the data scripts | one variable for each file; one action a script, and one for each role that `build_state_splits` writes |
| `ModelArtifacts` | the training scripts, the policy, the inference's cache | split files, the script under way, artifacts (whole or half written), cached bundles and the one being read |
| `ReplayEngine` | `RealtimeEngine`, `SourceActivityAccumulator`, `FinalDemoEngine` | the events fed, pending flows and packets, states pushed; `FeedState`, `FeedFlow`, `FeedPacket`, `Refuse`, `Finish`; the demo engine as a recursive function over the rows |
| `StateBufferProofs`, `AgentCollectorProofs`, `TelemetryDeliveryProofs`, `LiveCaptureProofs`, `SensorAccessProofs`, `TrainingProofs`, `ReplayEngineProofs`, `AgentHostProofs` | - | theorems, section 5; `AgentCollectorProofs` also has those about `AgentPipeline`, `TelemetryDeliveryProofs` those about `RemoteRuntime`, `TrainingProofs` those about `ModelArtifacts` and `ForecastDataset` |
| `MC...` | - | instances for TLC |

Composition: `TelemetryDelivery` extends `RemoteRuntime` and `AgentCollector`
and moves their variables only by their actions; two lemmas of
`TelemetryDeliveryProofs` (`DeliveryImplementsRuntime`,
`DeliveryImplementsCollector`) say so, and carry what is proved of the parts
over to the whole.  `AgentPipeline` shows that what `AgentCollector` assumes
of its input (`PromptSpec`) is what packets through a flow table give it.
`TelemetryDelivery` implements `OrderedDelivery` (`DeliversInOrder`), with
`captured` and `recorded` as they are and a batch as the unit of recording.

### 2.1 Choices in `TelemetryDelivery`

* `pc` is the main thread's place in `run`: `top` of the loop, `collect` (the
  collector is being flushed at a stop), `drain`, `direct` (waiting for a
  direct send), `enqueue`, `flush`, `deliver` (waiting for the head of the
  buffer), and `down`.
* A request is a message in `requests`, `live` while the agent waits for it.
  `TimeOut` makes it not live and leaves it there, or leaves the handler
  running: a late request may be served after its own retry.
* The handler is atomic up to admission, as nothing it reads can change, and
  from there one state at a time, because each may raise: `Admit`,
  `IngestState`, `RefuseBatch`, `InferenceRaises`, `AuditRaises` (before or
  after the record), `SaveRaises`, `Accept`.
* The payload hash is the batch itself.  HTTP statuses are `ack`, `invalid`
  (422 and other permanent ones), `conflict` (409), `transient`.
* `captured`, `recorded`, `rejected`, `dropped`, `lost` and `acked` are history:
  the model never branches on them.
* Every failure spends one unit of `faultsLeft` and must be in `Faults`, so a
  configuration says which failures its question is about.
* A restarted agent sees its first completed flow `RestartGap` slots after its
  predecessor's last one.  1 is a restart that does not fall in the same
  window; section 6 describes the other case.
* When the collector is flushed, the flows that are still active end at their
  last packets, in any set of windows (`ActiveWindows`): the idle timeout is 30
  seconds, so they need not be of the newest one.

### 2.2 Choices in `LiveStore` and `LiveCapture`

* A flow counts in the slot of its first packet, as here (and not in the
  agent) states are built by `timestamp_parsed`; so flows may complete behind
  the newest state, and such states are skipped.
* The known state keys and the bounded list of rows decide only what is
  counted; a state that passes them must also be later than the newest one, so
  the model needs only that.
* `work` of a thread is the list of sequences it took out of the store with the
  lock released, and the session they were formed in.  The code has no such
  session beside the answer: it is what `SessionsStayApart` is stated with.
* The sniffer is scapy's `AsyncSniffer` (external): a thread that opens its
  socket (`Opens`), calls `_on_packet`, ends on its own when the capture fails,
  and is asked to end and joined by its `stop()`, which raises if the thread has
  ended or has not opened its socket yet.
* `orphans` is history: sniffers whose `stop()` raised.

### 2.3 Choices in `SensorRegistry` and `SensorAccess`

* Secrets and sensor IDs never repeat, so they are numbered as they are made;
  the stored hash stands for its token.  Tokens are presented only by who was
  given them (`held`), enrollments only if they were given out (`offered`).
* `offered`, `held`, `revoked`, `served` and `origin` are history: what callers
  were told, which requests the window let through, and which enrollment a
  sensor came of.  The guards that use them say who may call, not what the
  service does.
* A route ends in one of three ways: the write of the file raises (`NotSaved`),
  it is written but the audit record raises or the answer is lost
  (`NotAnswered`), or the caller learns of it (`Answered`).  In the first two
  the change in memory stays.
* A heartbeat authenticates in one step and is accepted in another; everything
  else the service can do may come between.
* The delivery of a batch is one step here, with its sequence number only;
  `TelemetryDelivery` has it step by step.
* A restart that comes in the middle of a route has the effect of the route
  followed by `Restart`.

### 2.4 Choices in `ConfigStore`, `DiskBuffer` and `AgentHost`

* An identity is the number of the registration that handed it out, and its
  token carries the same number; so "the token of another identity" is visible.
* A process that writes a file goes on writing it wherever another process has
  moved it meanwhile; a file is `whole` once it has been synced.
* What an agent captures is left open: it has a batch whenever it may build one.
  The service is what the host sees of it.  `TelemetryDelivery` has the rest.
* A pid is used again once its process has ended, as the operating system does;
  `_pid_alive` is true of any process with that number.
* `Beside` are the commands run while other processes live; all are run in
  sequence.  `init` is only run on a host without a configuration.
* `issued`, `stored`, `returned` and `lost` are history.

### 2.5 Choices in `StateWindows` and `ForecastDataset`

* A state keeps its day, slot, label and future label; its seventeen features
  are numbers no branch depends on.  A window is the states themselves, so that
  a window built of the wrong rows is a different window.
* A capture file is a sequence of flows with the day of the file, the date of
  the row and its slot; rows with another date really occur.
* A script that raises leaves its output as it was; `build_state_splits` leaves
  the roles it had written.
* `build_temporal_windows` reads a file with a preprocessing of its own
  (`cic_ids2018_model_features.parquet`), which holds one capture day.  Its rows
  are here the flows of the day the multiday experiment tests on (`SingleDay`).
  The boundaries of the blocks are slots of that day; a row outside them stops
  the script.
* A table is a sequence of rows.  The state table is the places (day, slot) laid
  out by day and slot; `groupby`, the split by role and the filter on
  `future_target_available` are `RowsAt` with the positions a mask selects.

### 2.6 Choices in `ModelArtifacts`

* Weights are the number of the epoch they come from; a training restarts with
  its own epochs, and what it saves carries its history, the days it was fitted
  to, selected on and tested on.  Validation results are ranks.
* One script runs at a time (the operator's doing), and predictions beside it;
  every file is written in place and may be met half written.
* A fingerprint (path, time, size) is the number of the write it belongs to;
  fingerprints do not repeat.

### 2.7 Choices in `ReplayEngine`

* An event is its kind and its time in half slots, so that two times fall into
  one slot; a state event has the time its slot begins.
* A state is the slot and the number of flows it was made of: enough to see that
  each flow was counted once and in its slot.
* The demo engine's table has a flow and a packet in each row; `FinalDemo` is
  run on the flow times for the inference and on the packet times for the
  activity.

## 3. The runs

All are exhaustive within their bounds.  `SequenceLength` is 2 and a day 3 or 4
slots in most runs: two states are the least for which "contiguous", "full" and
"one short of full" differ, and days that short put a midnight and a gap after
every few steps.

| Run | Question | Bounds, and why they are enough |
|---|---|---|
| `telemetry_delivery` | do agent, network and service together deliver in order and account for every state? | two failures of seven kinds in any order and at any step; six slots over two days; batches of two, a buffer of two batches or three states, so that it overflows by number and by size, and short batches occur |
| `service_faults` | what do failures inside the handler leave behind and cost, and does everything settle once they end? | two failures of seven kinds, so that one may strike the retry after the other; four slots; with fairness |
| `bounded_queue` | what becomes of an emission that is refused halfway? | `REJECT_NEW`, a buffer of one batch, batches of one and so a queue of four, which a silence of six slots overflows; nine sequence numbers, so that the repeated windows reach the service; one lost request, timeout or crash |
| `agent_pipeline` | from packets to windows | three flow keys and a table of two, so it overflows; timeouts of 3 and 5 ticks, windows of 2: a flow spans windows and midnight; four flows a process |
| `live_capture` | local capture with start, stop and concurrent inference | two sessions and two sniffers: one can outlive its session; four slots, one midnight |
| `sensor_access` | do credentials stay good once and bad for good, and does the request window hold? | two enrollments, so two sensors; three tokens, so one rotation; room for one runtime, so a view can be refused; two failures: a write that fails and a restart that shows it; the clock passes the end of an enrollment and of the window, with one request a window |
| `agent_host` | do the commands of one host keep numbers, batches and the pid file right? | two processes, four commands of six kinds with `stop` and `status` beside an agent; two batches, a buffer of one, so that evictions and refusals occur; two identities; one killed agent, damaged file or revoked credential |
| `forecast_dataset` | do the training windows tell the future, and nothing else? | four days of up to six slots; every pattern of empty, benign and attacked slots in a training and in the test day, with and without rows of another date; windows of two states, horizons 1 and 2; single days with enough rows for windows in all three blocks, out of order, and with rows before and after the blocks |
| `model_artifacts` | is what is saved what was selected, and what is served what is on disk? | two scripts of six kinds, two epochs with three results (so ties in one measure occur), three split reports of which two do not fit, one cached bundle, so that it is evicted |
| `replay` | do both engines count every event once, and agree? | every file of up to six flows, packets and states over four slots, the last of them in the next day |
| `silent_loss`, `restart_reuses` | section 6 | the smallest instance that shows it |

What the properties say (each is stated in full, with the code or document it is
about, where it is defined):

* `IssuedOnce`: a sequence number names one envelope for ever, over crashes and
  failed saves.  `NoSpuriousConflict`: the agent never meets a conflict.
  `AgentKeepsOrder`: what the agent still holds is in time order.
  `DeliversInOrder`: the refinement of `OrderedDelivery`.
* `CapturedAccounted`: a captured state is queued, buffered, in hand, recorded,
  rejected with a record, counted as dropped, or was lost with its process.
  `OnlyMalformedRejected`: a batch is thrown away only if it breaks the
  contract; failures of the inference and of the audit file are not in its run,
  as after them it is not so (section 6).  `FailureCostsOneBatch`: such a
  failure costs that batch and no other.  `AckedIsDurable`,
  `AckedNotIngestedAgain`: what was acknowledged is on disk and is not ingested
  again.
* `LeavesNoGap`, `RecordedOnce`: after an emission that the full queue refused,
  the collector begins again with its oldest window, and the service, which
  gets windows again under new numbers, records none of them twice while it
  keeps running.
* `EverythingSettles` (liveness): once failures end, every captured state comes
  to one of those ends.
* `ForecastNeedsHistory`: the remote runtime offers a forecast only over a full
  history of its day, through gaps, midnights and inferences that raise.
* `NoFlowOverdue`, `NeverReopens`, `EmitsConsecutively`, `PromptSpec`: no flow
  outlives its timeouts unnoticed, and windows of a day are emitted once, in
  order, without a gap.
* `RedeemedOnce`, `RevokedForGood`, `OnlyNewestToken`: what was told to a caller
  holds in memory and on disk, over failed writes and restarts.
  `RevokedGoesQuiet`: after the answer to a disable the sensor delivers nothing,
  and is seen only by a heartbeat that was let in before.  `RateBounded`: within
  one minute no more than the limit are let through.
* `HistoryIsWhole`, `SessionsStayApart`, `OneSniffer`, `ReadyIsLive`: the live
  capture.  `ForecastFollowsHistory`: what is still to be inferred comes after
  the forecast on offer, and not after the history.
* `NumberedOnce`: no two batches of one sensor carry one number, over commands,
  kills and restarts.  `NothingVanishes`: a numbered batch is on disk, on its
  way, or accounted for, also when another process moves the file that is being
  written.  `ReachableAgent`: the pid file names the agent that runs.
* `WindowsTellTheFuture`: the windows of every horizon are exactly those the
  raw flows define, with their targets.  `OneStepAgrees`: the two constructions
  of the one-step target give the same windows.  `RowWindowsLookAhead`: the rows
  and the target of a training, validation or test window lie between the
  boundaries of that block, and no target precedes its inputs.
* `SavedIsBest`, `NeverSawTheTestDay`: of every file that holds a model.
  `CacheServesDisk`: a bundle found under the fingerprints on disk was read from
  those files.
* `ReplayCountsAll`, `DemoAgreesWithReplay`: the two engines.

Deadlock is checked in every run but `live_capture`, which really can stop for
good (section 6), and `agent_host`, `restart_reuses`, `forecast_dataset`,
`model_artifacts` and `replay`, which end: at their bounds of commands, files
and events, or because the last script has run.

`HistoryIsWhole` is checked with `MaxCompleted < MaxFlowRecords`: one packet
completes fewer flows than the store retains.  The code does not assure it
(4096 retained, 10000 tracked).  That the history ends with the newest state is
stated while the retained flows are of one day, as it need not after midnight;
both in section 6.

The larger runs: `model_artifacts` and `agent_host` have 2.8 million distinct
states, `telemetry_delivery` 2.4, `bounded_queue` and `live_capture` 1.3.

Every property has a mutant: a changed operator, marked `Mutant` in its module,
with which TLC finds the property violated.

## 4. Fairness

`TelemetryDelivery!Fairness`: weak fairness of an emission under way and of the
main loop (both are threads that the operating system runs), of `BackoffEnds`
(the clock), of `StartAgent` (the unit file restarts the agent), and of the
handler.  `BuildBatch` has strong fairness: between two builds the loop passes
through other places, and the batch timer (5 s) makes it build from a queue that
is not empty in the end.  Failures are not fair, and bounded by `MaxFaults`:
`EverythingSettles` is about what follows them.

`LiveCapture!LiveFairness`: a sniffer thread that can go on does, and the event
loop goes on when its join returns.  Packets, starts and stops are not fair.
Only `StopReturns` needs it, which is false (section 6).

The other modules have no fairness: an operator need not run another command,
feed another file or start another script.

## 5. What is proved

By TLAPS, for every value of the constants that the named assumptions allow
(sizes are positive, "none" values are not data), and where a theorem has a
hypothesis, under that.  `PROJECT.json` lists the theorems; 38 of the 40
properties of the passing runs are stated by one.

### 5.1 The arguments

* `StateBufferProofs`: what the others share.  A buffer of states is contiguous
  after each of the four things `push` does with it; days of slots; and
  induction over the naturals.  The library's induction rule takes an operator,
  which the provers here cannot instantiate; stated with a *set* of numbers
  (`LeastElement`, `BoundedInduction`), it can be used.  About `Ordering`: a
  finite set under a strict order can be laid out, in one way only
  (`ArrangedFacts`, `ArrangedUnique`); the rows a mask selects keep their order,
  and a row more adds at the end or nothing (`RowsAtFacts`, `RowsAtKeeps`,
  `RowsAtAppend`); the stable sort is a permutation that ascends, and two
  orderings of the same rows that ascend have the same keys (`StableOrderFacts`,
  `SortedTwice`).
* `TelemetryDeliveryProofs`, the runtime: types, `HistoryIsContiguous`,
  `HistoryLengthIsHonest`, `ForecastNeedsHistory`.  `RuntimeInvariant` joins all
  four: the forecast's claim needs that the history is contiguous and that its
  counter is its length.
* `AgentCollectorProofs`: types with refusals; and, for a queue that accepts
  every state, `NeverReopens` and `EmitsConsecutively`.  The inductive
  invariant says which slots an emission under way consists of: all those of
  one day from the last emitted one up to the newest completed window; it is
  needed because an emission takes many steps, and flows may be retained from
  earlier windows.
* `AgentCollectorProofs`, the pipeline: `NoFlowOverdue` and the table's counters for any
  timeouts and table size (`FlowInv`); and that the pipeline implements
  `PromptSpec` (`PipelineIsPrompt`), so that what is shown of the collector
  holds of whatever packets come.  `PacketInv` says where the table stands
  against the collector's clock: a tracked flow's last packet is in a window of
  the day that has not been emitted.
* `TelemetryDeliveryProofs`, the whole path.
  - `DeliveryInv` orders all sequence numbers in existence: recorded ones, in
    memory and on file, below or equal to the one being sent, below the
    buffered ones in increasing order, below the next to issue, which the
    configuration file is never behind while a batch with it exists.  It gives
    `IssuedOnce` and `NoSpuriousConflict`: a conflict would need a number not
    above the recorded one with another payload.
  - Every step of the whole is a step of the collector and of the runtime (two
    lemmas, which hold by the way the whole is written), so that `LeavesNoGap`
    and `ForecastNeedsHistory` hold in the whole.  For the first, `GapInv` says
    which windows an emission has still to give, some of them again.
  - `FateInv`, for `CapturedAccounted`: an acknowledgement on its way means that
    the states are recorded; the rest follows each state through every step
    that moves it.
  - `AckInv`, for `AckedIsDurable`: what is acknowledged is not newer than the
    record in memory, and the handler works only on newer batches.
  - `FinalInv`, for `AckedNotIngestedAgain`, without any hypothesis: what is
    acknowledged is older than all that the agent holds, and as long as a copy
    of it is on its way, the registry in memory knows it.  A restart from an
    older registry file breaks the second half only together with every
    connection.
  - `OrderInv`, for `AgentKeepsOrder`: emission only goes forward, over restarts
    too; batches are ascending, precede the queue and each other by number.
    `PutBack` is the step that needs the most: what goes back in front must
    precede the whole queue, and nothing may fall off its end.
  - `PromiseInv`, for the refinement `DeliversInOrder`: the last recorded state
    is of the batch that the registry remembers, so what is admitted next comes
    later.  One step records, all others stutter.
  - `RefusalInv`, for `OnlyMalformedRejected`: the runtime's history ends before
    the next state it is given, so only a gap or midnight inside the batch makes
    the handler refuse.
  - `OnceInv`, for `RecordedOnce`: what has been recorded ascends and is not
    later than the runtime's history, and what the handler has taken of a batch
    is at the end of that history and later than all that is recorded.  No order
    of what the agent sends is needed: the runtime alone keeps repeated windows
    out, and a restart of the service takes that away.
* `LiveCaptureProofs`: `OneSniffer`, `SessionsStayApart` and `ReadyIsLive`, for
  any number of sniffers, sessions and retained flows.  The invariant: the
  adapter has no handle while a stop waits, and outside a stop it has one
  exactly while it calls itself running; so at the start of a session, as long
  as no stop has failed, no thread runs, and what the threads of the new session
  take out is of that session.  `FillIsHonest`, `HistoryIsWhole`: `StoreInv`,
  with `HistoryInv` about the store.  One accepted packet pushes a whole list of
  states, so the proof first shows, by induction over the slots, what the history
  is after each of them.  `ForecastFollowsHistory` rests on both: a refresh
  forms sequences only of states after the newest one, and while a thread infers
  no other does (`OneThread`).
* `SensorAccessProofs`: every property of `sensor_access`, for any limits,
  numbers of sensors and failures.  The invariant says the same of two copies of
  the registry, the one in memory and the one in the file, because a write that
  fails makes them differ and a restart makes the older one current: nobody is
  told of a change that is not in both.  For the window: the times still in the
  queue are the last ones served, and all before them have left it.  For
  `RevokedGoesQuiet`: the file is never ahead of memory.
* `TrainingProofs`, the artifacts: `CacheServesDisk` (`CacheInv`: stamps are used once,
  what is cached was read from files that changed only afterwards, and the key
  of a bundle that is being read is older than what has been read of it);
  `SavedIsBest` and `NeverSawTheTestDay` (`SelectionInv`: the best epoch so far
  is the first best of the history so far; and the splits in the memory of the
  script that runs are of the days that script expects, whatever has become of
  the files meanwhile).
* `TrainingProofs`, the data: `WindowsTellTheFuture`, `OneStepAgrees`,
  `RowWindowsLookAhead`, for whatever the capture files hold, any days, roles,
  horizons, boundaries and stride.  `DatasetInv` says of each file that it is
  what its script makes of the files before it, which have not changed since;
  the rest is about those scripts.
  - Every table of states is `Table`, the rows of a set of places in order: the
    state table of all places with a state (`StateTableIs`: the next row is the
    next slot of the day or of another day, `NextPlace`), the file of a role of
    the places of its days (`RoleTable`), what `train_world_model` keeps of it
    of the places with a successor (`LearnTable`), a group of those of one day
    (`GroupTable`).  A selection of rows of such a table is such a table again
    (`TableSelect`), because there is one way only to list places in order.
  - The states of a day are an interval of slots (`StateIndexFacts`), so its
    table is an enumeration of it, and the rows `s` to `s + L - 1` are the slots
    that end `L - 1` later (`DayTable`, `InputsAre`).
  - With that both builders give one window for each end in the same set
    (`DayBatchIs`, `DaySequencesAre`): one looks a row ahead and stops a row
    earlier, the other has the label in the row and has lost the last one.
  - For the flow rows: the stable sort ascends, and the positions of a block
    ascend, so a target behind the inputs is not before them in time; and a row
    that is in a block is between its boundaries (`InBlock`).
* `ReplayEngineProofs`: `ReplayCountsAll` and `DemoAgreesWithReplay`, for files
  of any length.  `Tally` says that the windows, the open bucket the last of
  them, count each event once and in ascending slots.  It is not inductive
  alone: a bucket that is flushed must be of a slot that is over.  `ReplayInv`
  has that as `Late`: every window already flushed is of a slot before that of
  the last event, and so the open bucket is not of a later one; a state event
  in the middle, which closes the bucket early, keeps it because a state at the
  begin of a slot must come later than the event before it.  `DemoInv` joins the
  engines: over the flows fed so far, sorted, the demo has the same bucket open
  and has passed the same windows on, and over the packets the same activity.
  A fed event adds a row at the end of the sorted ones (`TimesAscend`,
  `InOrderAgain`), and one row more is one `TakeRow` more (`DemoAppend`).
* `AgentHostProofs`: `NumberedOnce`, `NothingVanishes`, `ReachableAgent`.
  `HostInv` says that one process at a time saves or captures, that beside an
  agent another lives only if it was started while the agent ran, which number
  the settings in memory and in the file have against all that were issued, and
  which file the process that is writing holds; and that the pid file is the
  agent's from the moment it has written it.

### 5.2 The hypotheses

Each is a choice of the configuration or an event that the code does not
prevent; without it TLC refutes the property (section 6).

| Hypothesis | Used by | Where it holds |
|---|---|---|
| `OverflowPolicy = "DROP_OLDEST"` | `EveryStateAccountedFor` | the default; with the other policy states are lost silently, see `silent_loss` |
| `BatchFits`: a batch fits the buffer's limit in bytes | `EveryStateAccountedFor`, and all about order | the defaults are 6 states and 64 MiB; `AgentConfig.validate` asks only that both are positive (`agent/config.py:225-228`) |
| `RestartsLater`: an agent is not back within the window it died in | all about order | the unit file waits ten seconds (`RestartSec`), a window; an operator who starts the agent again by hand may be faster |
| `[][~QueueFull]_vars`: the queue never refuses in the middle of an emission | all about order | up to four batches wait in it; a behaviour in which the main loop keeps up |
| `RegistrySurvives`: no restart from a registry file that a failed write left behind | `DeliveryKeepsPromise` | as long as the disk can be written |
| `"registry_save" \notin Faults` | `AcknowledgedIsOnDisk` | the same |
| `HandlerCompletes`: no failure between ingestion and record | `GoodBatchesAreAccepted` | as long as inference and the audit file work |
| `"central_restart" \notin Faults` | `RecordsEachOnce` | as long as the service's process lives; its history is in memory only |
| `MaxCompleted < MaxFlowRecords` | `HistoryStaysWhole` | 4096 flows are retained; one packet completes more only after a silence of very many flows |
| `Beside \subseteq {"stop", "status"}` | `AgentHostProofs` | commands one after the other, and `stop` and `status` beside the agent; nothing in the code keeps others from running |

"All about order" is `AgentHoldsInOrder`, `DeliveryKeepsPromise` and
`GoodBatchesAreAccepted`.  A behaviour without failures satisfies all of them.

### 5.3 Only model-checked

* `EverythingSettles` (and `StopReturns`, which is false): liveness and
  `ENABLED` are out of the prover's reach.
* `FailureCostsOneBatch`: it counts batches, and a proof would have to name for
  each of them the failure it was lost to.

That is all of the passing runs' properties; the two runs that expect a
violation check what is false without the hypotheses above.  Proved and in no
run: `FillIsHonest`, that the fill which the live view reports, counted beside
the buffer on other branches, is the number of states in it.

## 6. Where code and documents disagree

With a run that shows it:

1. `silent_loss`: `_drain_pending` puts a refused batch back in front of the
   bounded queue; states the sniffer thread added meanwhile are pushed out at
   the other end, uncounted (`agent/client.py:409`, against its own comment).
2. `restart_reuses`: `restart` loads the configuration before it waits for the
   running agent to end (`agent/cli.py:158`), and starts the new one with the
   sequence number that agent has used meanwhile, although the agent starts at
   its persisted next sequence "without reusing a sequence that may already be
   buffered" (REMOTE_TELEMETRY_CONTRACT.md).

With a definition that TLC refutes when it is checked in place of the run's
properties:

| Definition | Start from | Change | What it shows |
|---|---|---|---|
| `OnlyMalformedRejected` | `MCServiceFaults.cfg` | `Spec`, `Faults = {"audit"}`, `MaxFaults = 1` | an audit write that fails between ingestion and the record answers 500; the retry is refused 422 as duplicate states and thrown away (`api/app.py:843`, against REMOTE_TELEMETRY_CONTRACT.md) |
| `AgentSendsWellFormed` | `MCServiceFaults.cfg` | `Spec`, `Faults = {}`, `MaxFaults = 0` | a batch cut from the queue may span two capture days, which the service refuses (`agent/client.py:399`, against REMOTE_TELEMETRY_CONTRACT.md) |
| `StopReturns` | `MCLiveCapture.cfg` | `FairLiveSpec`, one session, `Sniffers = {s1}`, `MaxSlot = 1` | `stop()` joins the sniffer thread with the adapter's lock held, and the thread needs that lock to count the packet it is at (`telemetry/live.py:305`, against AGENT_INSTALLATION.md).  In the service the stop route then holds the event loop |
| `HistoriesStayInSession` | `MCLiveCapture.cfg` | none | `stop()` drops the handle before it calls the sniffer's own `stop()`; when that raises, as scapy's does while the thread has not opened its socket, the thread goes on, the next start begins a session beside it, and the answer of its inference becomes that session's current forecast (`telemetry/live.py:302-308`, against LIVE_RUNTIME_DATAFLOW.md: "histories cannot cross live capture sessions").  `SessionsStayApart`, `OneSniffer`, `ReadyIsLive` and `ForecastFollowsHistory` say "until a stop has failed" for that reason |
| `TokenIsDelivered` | `MCSensorAccess.cfg` | none | a rotation replaces the token and saves it before it builds the answer; with more sensors than `max_sensor_count` the answer's view of the sensor raises, and the new token is lost with the old one (`sensors/manager.py:175`, against CREDENTIAL_LIFECYCLE.md) |
| `ReachableAgent` | `MCAgentHost.cfg` | `Beside = {"start"}` | of two agents started side by side, or of one that is stopped while it starts, the one that stays may have no pid file (`agent/client.py:605`) |
| `NumberedOnce`, `NothingVanishes` | `MCAgentHost.cfg` | `Beside = {"start"}` | the second agent may load the settings before the first has saved a number: both use it, and the record of one rejected batch replaces the other's |
| `NothingVanishes` | `MCAgentHost.cfg` | `Beside = {"register"}` | `register` writes back the number it loaded, an agent's newer one with it; the next batch with that number replaces the record of the first |
| `AgentKeepsOrder` | `MCServiceFaults.cfg` | `Spec`, `Faults = {"crash", "lose"}`, `RestartGap = 0`, `MaxSlot = 3` | an agent that restarts within one window holds that window twice (`agent/collector.py:33`); the same with `OnlyMalformedRejected` and `{"crash"}`: the second batch is refused |
| `DeliversInOrder` | `MCServiceFaults.cfg` | `Spec`, `Faults = {"crash", "central_restart"}`, `RestartGap = 0`, `MaxSlot = 3` | and if the service restarts in between, both are recorded: its runtime no longer knows the first |
| `DeliversInOrder` | `MCServiceFaults.cfg` | `Spec`, `Faults = {"registry_save", "central_restart"}` | a service that restarts from a registry file it could not write records a retried batch again (`sensors/registry.py:305`) |
| `AckedIsDurable` | `MCServiceFaults.cfg` | `Spec`, `Faults = {"registry_save"}` | the retry of a batch whose record could not be written is answered as a duplicate out of memory: acknowledged, and not on disk |
| `CapturedAccounted` | `MCBoundedQueue.cfg` | `DROP_OLDEST`, `BatchSize = 2`, `MaxBytes = 1`, `MaxSlot = 10`, `SlotsPerDay = 20`, `Faults = {"lose"}`, `MaxFaults = 1`, `MaxSequence = 3` | a batch that can never fit is put back, and pushes newer states out of the queue (`agent/client.py:409`); `AgentKeepsOrder` fails with it |
| `OnlyMalformedRejected` | `MCBoundedQueue.cfg` | `Faults = {}`, `MaxFaults = 0`, `MaxSequence = 9` | a refused emission is repeated from its first window, and the service throws the repeated states away |
| `DeliversInOrder` | `MCBoundedQueue.cfg` | `Faults = {"central_restart"}`, `MaxFaults = 1`, `MaxSequence = 12` | or records them twice, if its runtime was lost meanwhile |
| `HistoryIsWhole`, its last conjunct without "of one day" | `MCLiveCapture.cfg` | one session, one sniffer, `MaxSlot = 5` | after midnight, flows that began late in the evening push out the morning's retained flows, and the newest state with them (`api/live_runtime.py:139`) |
| `AgentKeepsOrder` | `MCBoundedQueue.cfg` | as an invariant | an emission that the full queue refuses is repeated from its first window at the next completion (`agent/collector.py:59`): windows are dropped only after the last state |

Met while modelling, without a run of their own:

* For a sensor beyond `max_sensor_count`, disable and heartbeat also answer 422
  although the change was made (`sensors/runtime.py:278`); a delivery answers
  422, which the agent takes as permanent and throws the batch away.
* After a rotation the agent's old token gets 401, a permanent answer, so that
  every batch in its buffer goes to `rejected/` in turn (`agent/client.py:276`);
  CREDENTIAL_LIFECYCLE.md speaks of "a brief delivery interruption".
* A sensor that delivers but has sent no heartbeat for `heartbeat_timeout` is
  OFFLINE (`sensors/registry.py:396`); DISTRIBUTED_SENSOR_ARCHITECTURE.md says
  "last_seen exceeds the heartbeat timeout", and deliveries set `last_seen`.
* The fleet view counts a forecast as ready, or waiting, also for sensors that
  are OFFLINE or disabled: only the warnings are restricted to sensors that
  report (`sensors/manager.py:83-86`).

* An agent restarted within one ten-second window emits that window again under
  a new number, and the whole batch is refused (`agent/collector.py:33`).
* A registry file that cannot be written, a restart and a retry ingest one
  envelope twice (`sensors/registry.py:305`).
* When the flow table is full, the packet that is refused takes with it the
  records of the flows that had timed out (`streaming/flow_builder.py:208-213`).
* If one packet completes more flows than the live store retains, the history
  may miss a slot, and the live `StateBuffer`, which is never reset after a gap,
  waits until midnight (`api/live_runtime.py:197`).
* Once the retained flows span more states than `max_state_records`, every
  completed flow builds and counts the dropped ones again
  (`api/live_runtime.py:187-192`).
* With `register` in `Beside`, the running agent's next save of its whole
  configuration puts the old identity and the old token back
  (`agent/config.py:152`); CREDENTIAL_LIFECYCLE.md has the new credential "saved
  locally before restart".
* A host that is configured anew with a buffer that is not empty counts from 1
  again; `enqueue` takes a queued file of the same number for the new batch
  (`agent/buffer.py:141`), which is then never written.  The model runs `init`
  only on a host without a configuration.
* `train_multistep.py:486` raises "K=1 consistency check failed; K=3/K=5 must not
  proceed" when K=3 and K=5 have been trained, tested and saved (the check is
  called at line 706), and needs `results/lstm_v1_metrics.json` of another
  script.  The class weights of a horizon are checked after the earlier ones
  have been saved.
* `build_operating_policy` asks for no days and writes
  `test_used_for_selection: False` as a constant; so does the split report with
  `split_day_overlap` (`build_state_splits.py:82`).  Nothing compares the
  checkpoint, the scaler and the policy that one prediction loads
  (`forecasting/inference.py:44`), and the threshold selected for ten seconds
  decides on all five steps.
* A rebuild of the splits that fails leaves roles of the old and of the new
  report; what `NeverSawTheTestDay` rests on is that each training asks for the
  days it expects.
* `RealtimeEngine` notes the time of an event before it can fail, and drops the
  pending flows before their state is pushed; silent windows are not filled, and
  after a gap its history waits until the next day.  An inference in the middle
  of a stream of flows and packets may be paired with the activity of the
  interval before; flow growth is computed of one interval, and so is 0, where
  the demo concatenates the intervals (`streaming/realtime_engine.py:57`).
* The static readiness checks are kept after the first call
  (`api/app.py:119`): a check that failed then fails after the file is back, and
  one that passed hides its loss.
* The live forecast stays READY over midnight and while a history is built anew,
  where the remote runtime withdraws it (`api/live_runtime.py:268`,
  `sensors/runtime.py:171`); a sniffer thread that dies leaves the capture
  RUNNING; and `packet_quality` adds up the events of all sessions with the
  ignored ones of the adapter (`api/live_runtime.py:306`).

## 7. What is not modelled

* What a heartbeat reports, sensor health, source-activity rows, source priorities, mitigation advice,
  metrics, logging: they share no state with delivery, or only report.
* A state generation that raises in the live store
  (`api/live_runtime.py:173-178`): the error is kept for display, the packet's
  flows stay retained, and no state is formed until one succeeds.
* The registration limiter: the algorithm is the registry's window, which is
  modelled.
* TLS, HTTP parsing, configuration validation, argument parsing, the systemd
  unit, readiness and diagnostics: I/O and reports.
* Feature arithmetic, networks, metrics, explanations, reports and figures:
  numeric data on which no modelled branch depends, except through a rank
  (validation scores) or a label, which are kept.
* The parsers of replay files and the mock, replay and Zeek adapters: they turn
  lines into events one by one.
* Frontend and dashboards.

## 8. Plan

Done: `StateBuffer`, `RemoteRuntime`, `AgentCollector`, `TelemetryDelivery`,
`OrderedDelivery`, `FlowTable`, `AgentPipeline`, `LiveStore`, `LiveCapture`,
`SensorRegistry`, `SensorAccess`, `ConfigStore`, `DiskBuffer`, `AgentHost`,
`Ordering`, `StateWindows`, `ForecastDataset`, `ModelArtifacts`, `ReplayEngine`.

Proved: all safety properties of the passing runs but `FailureCostsOneBatch`,
and the refinements `DeliversInOrder` and `PromptSpec`.

Left, in this order:

1. `FailureCostsOneBatch` as a theorem.
2. `AgentHost` with `register` in `Beside`: `NumberedOnce` and `ReachableAgent`,
   which TLC does not refute there.
3. Theorems under weaker hypotheses: which order is left when a restart may come
   within one window.
4. Sensor health: what a heartbeat reports and the status computed of it.
