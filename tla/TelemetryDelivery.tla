-------------------------- MODULE TelemetryDelivery --------------------------
(***************************************************************************)
(* One remote sensor and the central service: how network states travel    *)
(* from the agent's collector and queue (agent/client.py), through its     *)
(* disk buffer (agent/buffer.py) and HTTP, into the sensor registry and    *)
(* the sensor's runtime (api/app.py, sensors/registry.py,                  *)
(* sensors/runtime.py).                                                    *)
(*                                                                         *)
(* The agent has a capture thread (Capture) and a main thread, whose       *)
(* position is pc.  The central service runs one telemetry handler at a    *)
(* time; the handler's own steps are separate here because any of them can *)
(* raise and the process can stop between them.  A request is abandoned by *)
(* the agent on a timeout but may still reach the service later.           *)
(*                                                                         *)
(* Every failure is an action that spends one unit of faultsLeft.          *)
(***************************************************************************)
EXTENDS RemoteRuntime, AgentCollector, FiniteSetsExt

CONSTANTS
    BatchSize,        \* config.batch_size
    MaxBatches,       \* config.max_buffer_batches
    MaxBytes,         \* config.max_buffer_bytes, counted in states
    OverflowPolicy,   \* config.buffer_overflow_policy
    Faults,           \* the kinds of failure this instance allows
    MaxFaults,        \* bound: how many failures happen in all
    MaxSequence,      \* bound: the last sequence number that is issued
    NoBatch           \* "none" where a batch or a handler may be missing

FaultKinds == {"lose", "timeout", "crash", "central_restart", "rate_limit",
               "inference", "audit", "registry_save", "config_save",
               "buffer_write"}

ASSUME DeliveryAssumption ==
    /\ BatchSize \in Nat \ {0}
    /\ MaxBatches \in Nat \ {0}
    /\ MaxBytes \in Nat \ {0}
    /\ OverflowPolicy \in {"DROP_OLDEST", "REJECT_NEW"}
    /\ Faults \subseteq FaultKinds
    /\ MaxFaults \in Nat
    /\ MaxSequence \in Nat

Batches == [seq : Nat \ {0}, states : Seq(Slots)]

ASSUME NoBatchAssumption ==
    /\ NoBatch \notin Batches
    /\ NoBatch \notin [batch : Batches, live : BOOLEAN, next : Nat \ {0}]

(* The maxlen of the _pending deque. *)
PendingLimit == BatchSize * 4

VARIABLES
    (* the agent *)
    pc,               \* where the main thread is
    pending,          \* _pending, the queue between the two threads
    nextSequence,     \* _batcher._next_sequence
    savedSequence,    \* next_sequence in the configuration file
    current,          \* the batch the main thread is submitting or flushing
    buffer,           \* the batch files on disk, in file name order
    backoff,          \* time.monotonic() < _next_retry_at
    (* the connection *)
    requests,         \* requests on their way; live if the agent still waits
    reply,            \* the answer to the request the agent waits for
    (* the central service *)
    registry,         \* last_sequence and last_batch_hash, in memory
    registryFile,     \* the same, in the registry file
    handling,         \* the telemetry handler that runs, and its next state
    (* what became of the captured states *)
    captured,         \* slots _on_state accepted
    recorded,         \* slots of the accepted batches, in that order
    rejected,         \* batches with a diagnostic record under rejected/
    dropped,          \* slots in the batches the buffer evicted and counted
    lost,             \* slots that were only in memory when the agent died,
                      \* or whose batch got no sequence number or no file
    acked,            \* sequence numbers the agent saw acknowledged
    faultsLeft

agentVars == <<pc, pending, nextSequence, savedSequence, current, buffer,
               backoff>>
captureVars == <<collectorVars, captured>>
netVars == <<requests, reply>>
registryVars == <<registry, registryFile>>
centralVars == <<registry, registryFile, handling, rtVars>>
fateVars == <<recorded, rejected, dropped, lost, acked>>
vars == <<agentVars, captureVars, netVars, centralVars, fateVars, faultsLeft>>

RangeOf(seq) == {seq[i] : i \in 1 .. Len(seq)}
SlotsIn(batches) == UNION {RangeOf(b.states) : b \in batches}
Least(m, n) == IF m < n THEN m ELSE n

NoRecord == [seq |-> 0, batch |-> NoBatch]

Init ==
    /\ pc = "top"
    /\ CollectorInit
    /\ pending = <<>>
    /\ nextSequence = 1 /\ savedSequence = 1
    /\ current = NoBatch
    /\ buffer = <<>>
    /\ backoff = FALSE
    /\ requests = {} /\ reply = "none"
    /\ registry = NoRecord /\ registryFile = NoRecord
    /\ handling = NoBatch
    /\ RuntimeInit
    /\ captured = {} /\ recorded = <<>> /\ rejected = {}
    /\ dropped = {} /\ lost = {} /\ acked = {}
    /\ faultsLeft = MaxFaults

Fault(kind) ==
    /\ kind \in Faults
    /\ faultsLeft > 0
    /\ faultsLeft' = faultsLeft - 1
-----------------------------------------------------------------------------
(***************************************************************************)
(* The agent: capture.                                                     *)
(***************************************************************************)

(* A packet ends flows in the window slot. *)
FlowEnds(slot) ==
    /\ pc # "down"
    /\ CompleteFlow(slot)
    /\ UNCHANGED <<agentVars, captured, netVars, centralVars, fateVars,
                   faultsLeft>>

(* _on_state takes the next state while the queue has room for it... *)
QueueState(slot) ==
    /\ pc # "down"
    /\ Len(pending) < PendingLimit
    /\ EmitState(slot)
    /\ pending' = Append(pending, slot)
    /\ captured' = captured \cup {slot}
    /\ UNCHANGED <<pc, nextSequence, savedSequence, current, buffer, backoff,
                   netVars, centralVars, fateVars, faultsLeft>>

(* ... and refuses it, and with it the rest of the emission, when not. *)
QueueFull ==
    /\ pc # "down"
    /\ Len(pending) >= PendingLimit
    /\ EmissionRefused
    /\ UNCHANGED <<agentVars, captured, netVars, centralVars, fateVars,
                   faultsLeft>>

Capture ==
    \/ \E slot \in 1 .. MaxSlot : FlowEnds(slot)
    \/ \E slot \in emitting : QueueState(slot)
    \/ QueueFull
-----------------------------------------------------------------------------
(***************************************************************************)
(* The agent: the main loop, drain and submit.                             *)
(***************************************************************************)

(* One turn of the loop of run. *)
StartTurn ==
    /\ pc = "top"
    /\ pc' = "drain"
    /\ UNCHANGED <<pending, nextSequence, savedSequence, current, buffer,
                   backoff, captureVars, netVars, centralVars, fateVars,
                   faultsLeft>>

(* A stop request: the capture thread is joined, then the finally block    *)
(* flushes the collector, whose flows are still active in the windows      *)
(* active, before the last drain and flush.                                *)
LeaveLoop(active) ==
    /\ pc = "top"
    /\ pc' = "collect"
    /\ BeginFlush(active)
    /\ UNCHANGED <<pending, nextSequence, savedSequence, current, buffer,
                   backoff, captured, netVars, centralVars, fateVars,
                   faultsLeft>>

CollectorFlushed ==
    /\ pc = "collect" /\ emitting = {}
    /\ pc' = "drain"
    /\ UNCHANGED <<pending, nextSequence, savedSequence, current, buffer,
                   backoff, captureVars, netVars, centralVars, fateVars,
                   faultsLeft>>

(* _drain_pending returns: the queue is empty, or neither the batch size   *)
(* nor the batch interval is reached.  (The last disjunct is the bound.)   *)
Drained ==
    /\ pc = "drain"
    /\ \/ pending = <<>>
       \/ ~ stopping /\ Len(pending) < BatchSize
       \/ nextSequence = MaxSequence
    /\ pc' = "flush"
    /\ UNCHANGED <<pending, nextSequence, savedSequence, current,
                   buffer, backoff, captureVars, netVars, centralVars,
                   fateVars, faultsLeft>>

NextBatchLength == Least(BatchSize, Len(pending))
NextBatch ==
    [seq |-> nextSequence, states |-> SubSeq(pending, 1, NextBatchLength)]
RestOfPending == SubSeq(pending, NextBatchLength + 1, Len(pending))

(* Mutant: only a full batch leaves the queue.                             *)
HasFullBatch == Len(pending) >= BatchSize

HasBatch == pending # <<>>

(* Mutant: the next sequence is saved some time later.                     *)
SaveSequenceLater == UNCHANGED savedSequence

(* _persist_next_sequence: the configuration file is replaced. *)
SaveSequence == savedSequence' = nextSequence + 1

(* Mutant: a new batch is sent ahead of the buffered ones.                 *)
SendsAlways == TRUE

(* "Never send a newer sequence ahead of an older batch already queued on  *)
(* disk": submit_states.                                                   *)
SendsAtOnce == buffer = <<>>

SendLive(batch) ==
    /\ requests' = requests \cup {[batch |-> batch, live |-> TRUE]}
    /\ reply' = "none"

(* _drain_pending takes a batch, by size, by age or at the end, and        *)
(* submit_states builds its envelope: the next sequence is on disk before  *)
(* the envelope goes anywhere.  It is sent at once only if no older batch  *)
(* is buffered.                                                            *)
BuildBatch ==
    /\ pc = "drain"
    /\ HasBatch
    /\ nextSequence < MaxSequence
    /\ current' = NextBatch
    /\ pending' = RestOfPending
    /\ nextSequence' = nextSequence + 1
    /\ SaveSequence
    /\ IF SendsAtOnce
       THEN pc' = "direct" /\ SendLive(NextBatch)
       ELSE pc' = "enqueue" /\ UNCHANGED netVars
    /\ UNCHANGED <<buffer, backoff, captureVars, centralVars,
                   fateVars, faultsLeft>>

(* The configuration could not be saved: the exception leaves build, the   *)
(* number is used up in memory, and the states are gone.                   *)
BuildFails ==
    /\ pc = "drain"
    /\ HasBatch
    /\ nextSequence < MaxSequence
    /\ Fault("config_save")
    /\ nextSequence' = nextSequence + 1
    /\ pending' = RestOfPending
    /\ lost' = lost \cup RangeOf(NextBatch.states)
    /\ UNCHANGED <<pc, savedSequence, current, buffer, backoff,
                   captureVars, netVars, centralVars, recorded, rejected,
                   dropped, acked>>

(* Mutant: every failed request is a permanent rejection.                  *)
PermanentFailures == {"invalid", "conflict", "transient"}

Permanent == {"invalid", "conflict"}

(* Mutant: a rejected batch leaves no diagnostic record.                   *)
RejectSilently(batch) == UNCHANGED rejected

(* reject: a record under rejected/. *)
Reject(batch) == rejected' = rejected \cup {batch}

DirectAcknowledged ==
    /\ pc = "direct" /\ reply = "ack"
    /\ acked' = acked \cup {current.seq}
    /\ pc' = "drain" /\ current' = NoBatch /\ reply' = "none"
    /\ UNCHANGED <<pending, nextSequence, savedSequence, buffer,
                   backoff, captureVars, requests, centralVars, recorded,
                   rejected, dropped, lost, faultsLeft>>

DirectRejected ==
    /\ pc = "direct" /\ reply \in Permanent
    /\ Reject(current)
    /\ pc' = "drain" /\ current' = NoBatch /\ reply' = "none"
    /\ UNCHANGED <<pending, nextSequence, savedSequence, buffer,
                   backoff, captureVars, requests, centralVars, recorded,
                   dropped, lost, acked, faultsLeft>>

DirectFailed ==
    /\ pc = "direct" /\ reply = "transient"
    /\ pc' = "enqueue" /\ reply' = "none"
    /\ UNCHANGED <<pending, nextSequence, savedSequence, current,
                   buffer, backoff, captureVars, requests, centralVars,
                   fateVars, faultsLeft>>
-----------------------------------------------------------------------------
(***************************************************************************)
(* The agent: the disk buffer.  enqueue returns at once if the file of     *)
(* that sequence exists; by IssuedOnce it never does.                      *)
(***************************************************************************)
Size(batch) == Len(batch.states)

(* size_bytes, the file sizes of the buffer added up. *)
SizeBytes(buf) == MapThenSumSet(LAMBDA i : Size(buf[i]), DOMAIN buf)

TooBig(batch) == Size(batch) > MaxBytes
(* Mutant: one batch too many.                                             *)
OverflowsLate(buf, batch) ==
    Len(buf) > MaxBatches \/ SizeBytes(buf) + Size(batch) > MaxBytes

Overflows(buf, batch) ==
    Len(buf) >= MaxBatches \/ SizeBytes(buf) + Size(batch) > MaxBytes

(* Mutant: the evicted batch is not counted.                               *)
DropUncounted(batch) == UNCHANGED dropped

(* dropped_count and dropped_sequences. *)
CountDropped(batch) == dropped' = dropped \cup RangeOf(batch.states)

(* One turn of enqueue's loop: DROP_OLDEST unlinks the first file.  (With  *)
(* no file left it would raise; a batch that is not too big fits then.)    *)
EvictOldest ==
    /\ pc = "enqueue"
    /\ ~ TooBig(current)
    /\ Overflows(buffer, current)
    /\ buffer # <<>>
    /\ OverflowPolicy = "DROP_OLDEST"
    /\ CountDropped(Head(buffer))
    /\ buffer' = Tail(buffer)
    /\ UNCHANGED <<pc, pending, nextSequence, savedSequence, current,
                   backoff, captureVars, netVars, centralVars, recorded,
                   rejected, lost, acked, faultsLeft>>

(* Mutant: the files are not read in the order of their sequence numbers.  *)
WithFileFirst(buf, batch) == <<batch>> \o buf

(* The file names sort by sequence number. *)
WithFile(buf, batch) == Append(buf, batch)

Store ==
    /\ pc = "enqueue"
    /\ ~ TooBig(current)
    /\ ~ Overflows(buffer, current)
    /\ buffer' = WithFile(buffer, current)
    /\ pc' = "drain" /\ current' = NoBatch
    /\ UNCHANGED <<pending, nextSequence, savedSequence, backoff,
                   captureVars, netVars, centralVars, fateVars, faultsLeft>>

(* The batch file cannot be written: _drain_pending catches the OSError    *)
(* with every other exception, and the states are gone.                    *)
StoreFails ==
    /\ pc = "enqueue"
    /\ ~ TooBig(current)
    /\ ~ Overflows(buffer, current)
    /\ Fault("buffer_write")
    /\ lost' = lost \cup RangeOf(current.states)
    /\ pc' = "drain" /\ current' = NoBatch
    /\ UNCHANGED <<pending, nextSequence, savedSequence, buffer,
                   backoff, captureVars, netVars, centralVars, recorded,
                   rejected, dropped, acked>>

(* Mutant: the states go back to the wrong end of the queue.               *)
PutBehind == pending \o current.states

PutInFront == current.states \o pending

(* BufferFullError reaches _drain_pending, which puts the states back with *)
(* appendleft.  On a bounded deque appendleft discards at the other end:   *)
(* what the capture thread added in the meantime may not fit any more.     *)
(* One step here: a state that arrives between two appendlefts, or between *)
(* _on_state's check of the length and its append, is discarded likewise.  *)
PutBack ==
    /\ pc = "enqueue"
    /\ \/ TooBig(current)
       \/ OverflowPolicy = "REJECT_NEW" /\ Overflows(buffer, current)
    /\ pending' = SubSeq(PutInFront, 1, Least(PendingLimit, Len(PutInFront)))
    /\ pc' = "flush" /\ current' = NoBatch
    /\ UNCHANGED <<nextSequence, savedSequence, buffer, backoff,
                   captureVars, netVars, centralVars, fateVars, faultsLeft>>

(***************************************************************************)
(* The agent: flush_buffer, in sequence order.                             *)
(***************************************************************************)

(* The end of a turn; in the final pass the process exits, and what is     *)
(* still only in memory goes with it.                                      *)
EndTurn ==
    IF stopping
    THEN /\ pc' = "down"
         /\ pending' = <<>>
         /\ lost' = lost \cup RangeOf(pending)
    ELSE pc' = "top" /\ UNCHANGED <<pending, lost>>

FlushEnds ==
    /\ pc = "flush"
    /\ backoff \/ buffer = <<>>
    /\ EndTurn
    /\ UNCHANGED <<nextSequence, savedSequence, current, buffer,
                   backoff, captureVars, netVars, centralVars, recorded,
                   rejected, dropped, acked, faultsLeft>>

FlushSends ==
    /\ pc = "flush"
    /\ ~ backoff /\ buffer # <<>>
    /\ current' = Head(buffer)
    /\ SendLive(Head(buffer))
    /\ pc' = "deliver"
    /\ UNCHANGED <<pending, nextSequence, savedSequence, buffer,
                   backoff, captureVars, centralVars, fateVars, faultsLeft>>

FlushAcknowledged ==
    /\ pc = "deliver" /\ reply = "ack"
    /\ acked' = acked \cup {current.seq}
    /\ buffer' = Tail(buffer)
    /\ backoff' = FALSE
    /\ pc' = "flush" /\ current' = NoBatch /\ reply' = "none"
    /\ UNCHANGED <<pending, nextSequence, savedSequence, captureVars,
                   requests, centralVars, recorded, rejected, dropped, lost,
                   faultsLeft>>

FlushRejected ==
    /\ pc = "deliver" /\ reply \in Permanent
    /\ Reject(current)
    /\ buffer' = Tail(buffer)
    /\ pc' = "flush" /\ current' = NoBatch /\ reply' = "none"
    /\ UNCHANGED <<pending, nextSequence, savedSequence, backoff,
                   captureVars, requests, centralVars, recorded, dropped, lost,
                   acked, faultsLeft>>

FlushFailed ==
    /\ pc = "deliver" /\ reply = "transient"
    /\ backoff' = TRUE
    /\ EndTurn
    /\ current' = NoBatch /\ reply' = "none"
    /\ UNCHANGED <<nextSequence, savedSequence, buffer, captureVars,
                   requests, centralVars, recorded, rejected, dropped, acked,
                   faultsLeft>>

(* The clock passes _next_retry_at. *)
BackoffEnds ==
    /\ backoff
    /\ backoff' = FALSE
    /\ UNCHANGED <<pc, pending, nextSequence, savedSequence, current,
                   buffer, captureVars, netVars, centralVars, fateVars,
                   faultsLeft>>
-----------------------------------------------------------------------------
(***************************************************************************)
(* The agent process dies, and starts again from its files.                *)
(***************************************************************************)
Abandoned == {[batch |-> r.batch, live |-> FALSE] : r \in requests}

Crash ==
    /\ pc # "down"
    /\ Fault("crash")
    /\ pc' = "down"
    /\ pending' = <<>> /\ current' = NoBatch
    /\ lost' = lost \cup RangeOf(pending)
                    \cup IF pc \in {"direct", "enqueue"}
                         THEN RangeOf(current.states) ELSE {}
    /\ requests' = Abandoned /\ reply' = "none"
    /\ handling' = IF handling = NoBatch THEN NoBatch
                   ELSE [handling EXCEPT !.live = FALSE]
    /\ UNCHANGED <<nextSequence, savedSequence, buffer, backoff,
                   captureVars, registryVars, rtVars, recorded, rejected,
                   dropped, acked>>

StartAgent ==
    /\ pc = "down"
    /\ pc' = "top"
    /\ NewCollector
    /\ nextSequence' = savedSequence
    /\ backoff' = FALSE
    /\ UNCHANGED <<pending, savedSequence, current, buffer, captured, netVars,
                   centralVars, fateVars, faultsLeft>>
-----------------------------------------------------------------------------
(***************************************************************************)
(* The connection.                                                         *)
(***************************************************************************)
Waiting == pc \in {"direct", "deliver"}

(* A request never arrives: the service is down or the network is. *)
LoseRequest(request) ==
    /\ request \in requests
    /\ Fault("lose")
    /\ requests' = requests \ {request}
    /\ reply' = IF request.live THEN "transient" ELSE reply
    /\ UNCHANGED <<agentVars, captureVars, centralVars, fateVars>>

(* The agent stops waiting, before or after the service has answered.  The *)
(* request, or the handler that already runs, goes on without it.          *)
TimeOut ==
    /\ Waiting /\ reply # "transient"
    /\ Fault("timeout")
    /\ reply' = "transient"
    /\ requests' = Abandoned
    /\ handling' = IF handling = NoBatch THEN NoBatch
                   ELSE [handling EXCEPT !.live = FALSE]
    /\ UNCHANGED <<agentVars, captureVars, registryVars, rtVars, fateVars>>
-----------------------------------------------------------------------------
(***************************************************************************)
(* The central service: ingest_remote_telemetry.                           *)
(***************************************************************************)

(* Mutant: the batch rules are not checked.                                *)
WellFormedUnchecked(batch) == TRUE

(* One capture day, ten-second steps (the checks before admission). *)
WellFormed(batch) == Contiguous(batch.states)

Answer(request, status) ==
    reply' = IF request.live THEN status ELSE reply

Take(request) ==
    /\ handling = NoBatch
    /\ request \in requests
    /\ requests' = requests \ {request}

(* check_telemetry: the same sequence and payload as the last accepted. *)
IsDuplicate(batch) == registry.batch = batch
(* Mutant: an old sequence is not a conflict.                              *)
IsBehindUnchecked(batch) == FALSE

IsBehind(batch) == batch.seq <= registry.seq

(* Every answer given before the runtime is touched. *)
AnswerAtOnce(request) ==
    /\ Take(request)
    /\ LET batch == request.batch IN
       \/ ~ WellFormed(batch) /\ Answer(request, "invalid")
       \/ WellFormed(batch) /\ IsDuplicate(batch) /\ Answer(request, "ack")
       \/ /\ WellFormed(batch) /\ ~ IsDuplicate(batch) /\ IsBehind(batch)
          /\ Answer(request, "conflict")
    /\ UNCHANGED <<agentVars, captureVars, centralVars, fateVars, faultsLeft>>

(* The audit record of a duplicate or a conflict cannot be written: 500. *)
AnswerNotAudited(request) ==
    /\ Take(request)
    /\ WellFormed(request.batch)
    /\ IsDuplicate(request.batch) \/ IsBehind(request.batch)
    /\ Fault("audit")
    /\ Answer(request, "transient")
    /\ UNCHANGED <<agentVars, captureVars, centralVars, fateVars>>

Admissible(batch) ==
    WellFormed(batch) /\ ~ IsDuplicate(batch) /\ ~ IsBehind(batch)

LimitRate(request) ==
    /\ Take(request)
    /\ Admissible(request.batch)
    /\ Fault("rate_limit")
    /\ Answer(request, "transient")
    /\ UNCHANGED <<agentVars, captureVars, centralVars, fateVars>>

Admit(request) ==
    /\ Take(request)
    /\ Admissible(request.batch)
    /\ handling' = [batch |-> request.batch, live |-> request.live, next |-> 1]
    /\ UNCHANGED <<agentVars, captureVars, reply, registryVars, rtVars,
                   fateVars, faultsLeft>>

(* The runtime takes the next state of the batch. *)
Ingesting == handling # NoBatch /\ handling.next <= Size(handling.batch)
NextState == handling.batch.states[handling.next]

TakeState(slot) == RestartHistory(slot) \/ ExtendHistory(slot, TRUE)

IngestState ==
    /\ Ingesting
    /\ TakeState(NextState)
    /\ handling' = [handling EXCEPT !.next = @ + 1]
    /\ UNCHANGED <<agentVars, captureVars, netVars, registryVars, fateVars,
                   faultsLeft>>

(* The runtime refuses it: 422, and no record in the registry. *)
RefuseBatch ==
    /\ Ingesting
    /\ RefuseState(NextState)
    /\ Answer(handling, "invalid")
    /\ handling' = NoBatch
    /\ UNCHANGED <<agentVars, captureVars, requests, registryVars, fateVars,
                   faultsLeft>>

(* The inference raises after the state was pushed: a ValueError is        *)
(* answered 422, anything else 500.                                        *)
InferenceRaises(status) ==
    /\ Ingesting
    /\ Fault("inference")
    /\ ExtendHistory(NextState, FALSE)
    /\ Answer(handling, status)
    /\ handling' = NoBatch
    /\ UNCHANGED <<agentVars, captureVars, requests, registryVars, fateVars>>

Ingested == handling # NoBatch /\ handling.next > Size(handling.batch)
NewRecord == [seq |-> handling.batch.seq, batch |-> handling.batch]

(* Mutant: the answer does not wait for the registry file.                 *)
SaveRecordLater == UNCHANGED registryFile

SaveRecord == registryFile' = NewRecord

(* accept_telemetry: the record is made in memory, then saved. *)
Accept ==
    /\ Ingested
    /\ registry' = NewRecord /\ SaveRecord
    /\ recorded' = recorded \o handling.batch.states
    /\ Answer(handling, "ack")
    /\ handling' = NoBatch
    /\ UNCHANGED <<agentVars, captureVars, requests, rtVars, rejected, dropped,
                   lost, acked, faultsLeft>>

(* The audit file cannot be written, before or after accept_telemetry. *)
AuditRaises(accepted) ==
    /\ Ingested
    /\ Fault("audit")
    /\ IF accepted
       THEN /\ registry' = NewRecord /\ SaveRecord
            /\ recorded' = recorded \o handling.batch.states
       ELSE UNCHANGED <<registryVars, recorded>>
    /\ Answer(handling, "transient")
    /\ handling' = NoBatch
    /\ UNCHANGED <<agentVars, captureVars, requests, rtVars, rejected, dropped,
                   lost, acked>>

(* The registry file cannot be written: the record stays in memory. *)
SaveRaises ==
    /\ Ingested
    /\ Fault("registry_save")
    /\ registry' = NewRecord
    /\ recorded' = recorded \o handling.batch.states
    /\ Answer(handling, "transient")
    /\ handling' = NoBatch
    /\ UNCHANGED <<agentVars, captureVars, requests, registryFile, rtVars,
                   rejected, dropped, lost, acked>>

(* Any later save of the registry, such as a heartbeat's, also saves what  *)
(* an earlier one could not.  It waits for the lock a handler holds.       *)
SaveRegistry ==
    /\ handling = NoBatch
    /\ registryFile # registry
    /\ registryFile' = registry
    /\ UNCHANGED <<agentVars, captureVars, netVars, registry, handling, rtVars,
                   fateVars, faultsLeft>>

(* The service stops and starts: connections break, the registry is read   *)
(* from its file, the runtime is empty.                                    *)
RestartCentral ==
    /\ Fault("central_restart")
    /\ requests' = {}
    /\ reply' = IF Waiting /\ reply = "none" THEN "transient" ELSE reply
    /\ handling' = NoBatch
    /\ registry' = registryFile
    /\ LoseRuntime
    /\ UNCHANGED <<agentVars, captureVars, registryFile, fateVars>>
-----------------------------------------------------------------------------
MainThread ==
    \/ StartTurn
    \/ \E active \in ActiveWindows : LeaveLoop(active)
    \/ CollectorFlushed
    \/ Drained \/ BuildBatch \/ BuildFails
    \/ DirectAcknowledged \/ DirectRejected \/ DirectFailed
    \/ EvictOldest \/ Store \/ StoreFails \/ PutBack
    \/ FlushEnds \/ FlushSends
    \/ FlushAcknowledged \/ FlushRejected \/ FlushFailed

Central ==
    \/ \E request \in requests :
           \/ AnswerAtOnce(request) \/ AnswerNotAudited(request)
           \/ LimitRate(request) \/ Admit(request)
    \/ IngestState \/ RefuseBatch
    \/ \E status \in {"invalid", "transient"} : InferenceRaises(status)
    \/ Accept \/ SaveRaises
    \/ \E accepted \in BOOLEAN : AuditRaises(accepted)
    \/ SaveRegistry
    \/ RestartCentral

Next ==
    \/ Capture
    \/ MainThread
    \/ BackoffEnds
    \/ Crash
    \/ StartAgent
    \/ \E request \in requests : LoseRequest(request)
    \/ TimeOut
    \/ Central

Spec == Init /\ [][Next]_vars

(***************************************************************************)
(* Fairness.  An emission goes on, the main loop runs, its batch timer     *)
(* (5 s) cannot pass over waiting states for ever, the retry time is       *)
(* reached, systemd starts a stopped agent again, and the service answers  *)
(* what it has received.                                                   *)
(***************************************************************************)
ServeRequest ==
    \/ \E request \in requests : AnswerAtOnce(request) \/ Admit(request)
    \/ IngestState \/ RefuseBatch \/ Accept

Fairness ==
    /\ WF_vars(\E slot \in emitting : QueueState(slot)) /\ WF_vars(QueueFull)
    /\ WF_vars(MainThread) /\ SF_vars(BuildBatch)
    /\ WF_vars(BackoffEnds)
    /\ WF_vars(StartAgent)
    /\ WF_vars(ServeRequest)

FairSpec == Spec /\ Fairness
-----------------------------------------------------------------------------
Position == {"top", "collect", "drain", "direct", "enqueue", "flush",
             "deliver", "down"}
MaybeBatch == Batches \cup {NoBatch}
Records == [seq : Nat, batch : MaybeBatch]

AgentTypeOK ==
    /\ pc \in Position
    /\ pending \in Seq(Slots) /\ Len(pending) <= PendingLimit
    /\ nextSequence \in Nat \ {0} /\ savedSequence \in Nat \ {0}
    /\ current \in MaybeBatch
    /\ buffer \in Seq(Batches) /\ Len(buffer) <= MaxBatches
    /\ backoff \in BOOLEAN

CaptureTypeOK == CollectorTypeOK /\ captured \subseteq Slots

NetTypeOK ==
    /\ requests \subseteq [batch : Batches, live : BOOLEAN]
    /\ reply \in {"none", "ack", "invalid", "conflict", "transient"}

CentralTypeOK ==
    /\ registry \in Records /\ registryFile \in Records
    /\ handling \in [batch : Batches, live : BOOLEAN, next : Nat \ {0}]
                    \cup {NoBatch}
    /\ RuntimeTypeOK

FateTypeOK ==
    /\ recorded \in Seq(Slots) /\ rejected \subseteq Batches
    /\ dropped \subseteq Slots /\ lost \subseteq Slots
    /\ acked \subseteq Nat

TypeOK ==
    /\ AgentTypeOK /\ CaptureTypeOK /\ NetTypeOK /\ CentralTypeOK
    /\ FateTypeOK /\ faultsLeft \in Nat

(* What may still reach the service, and what the agent may still send. *)
Sent == {r.batch : r \in requests}
            \cup (IF handling = NoBatch THEN {} ELSE {handling.batch})
Held == RangeOf(buffer) \cup (IF current = NoBatch THEN {} ELSE {current})
Known == (Sent \cup Held \cup rejected \cup {registry.batch, registryFile.batch})
             \ {NoBatch}

(* A sequence number identifies one envelope for ever, through every crash *)
(* and restart of the agent: the number is on disk before the envelope is  *)
(* used ("This prevents a restart from reusing a sequence that may already *)
(* be buffered", REMOTE_TELEMETRY_CONTRACT.md).                            *)
IssuedOnce ==
    /\ \A b, c \in Known : b.seq = c.seq => b = c
    /\ \A b \in Known : b.seq < savedSequence

(* The agent never meets a sequence conflict, whatever is lost, delayed,   *)
(* answered late, evicted or retried: it never sends a newer sequence      *)
(* ahead of a buffered one (submit_states), so a 409 would throw away a    *)
(* batch that was in order.                                                *)
NoSpuriousConflict == reply # "conflict"

(* The order of capture survives batching, buffering and putting back: the *)
(* states the agent holds, from the oldest file to the newest queued one,  *)
(* are in the order they were captured, each once.  (Batches are put back  *)
(* under REJECT_NEW only, which the run does not have; the theorem does.)  *)
Ascending(seq) == \A i, j \in DOMAIN seq : i < j => seq[i] < seq[j]
Precedes(earlier, later) ==
    \A s \in RangeOf(earlier), t \in RangeOf(later) : s < t
HeldBatches ==
    IF pc \in {"direct", "enqueue"} THEN Append(buffer, current) ELSE buffer
AgentKeepsOrder ==
    /\ Ascending(pending)
    /\ \A i \in DOMAIN HeldBatches :
           /\ Ascending(HeldBatches[i].states)
           /\ Precedes(HeldBatches[i].states, pending)
           /\ \A j \in DOMAIN HeldBatches :
                  i < j => Precedes(HeldBatches[i].states, HeldBatches[j].states)

(* No captured state disappears without a trace: it is queued, buffered,   *)
(* being sent, recorded by the service, in a rejected or counted evicted   *)
(* batch, or it was only in memory when the process ended or a file could  *)
(* not be written.                                                         *)
Settled == RangeOf(recorded) \cup SlotsIn(rejected) \cup dropped \cup lost
CapturedAccounted ==
    captured \subseteq RangeOf(pending) \cup SlotsIn(Held) \cup Settled

(* Only what breaks the batch rules (one day, ten-second steps) is ever    *)
(* rejected for good: lost requests and answers, timeouts, 429s, crashes   *)
(* and restarts of either side end in a retry that succeeds ("Keep the     *)
(* batch in the bounded disk buffer and retry",                            *)
(* REMOTE_TELEMETRY_CONTRACT.md:93).  Excluded are failures between        *)
(* ingestion and record (inference, audit file): there a retry meets the   *)
(* batch's own states in the runtime, and it is thrown away.               *)
OnlyMalformedRejected == \A b \in rejected : ~ WellFormed(b)

(* A failure between ingestion and record costs the one batch it happens   *)
(* in: its states stay in the runtime, which refuses the retry, and every  *)
(* batch after it is taken, over restarts and late requests too.  So the   *)
(* good batches that were thrown away never outnumber the failures.        *)
FailureCostsOneBatch ==
    Cardinality({b \in rejected : WellFormed(b)}) <= MaxFaults - faultsLeft

(* While the service keeps running it records every state once and in time *)
(* order, although a full queue makes the collector emit windows again     *)
(* under new numbers: the sequence numbers of the repeated states are      *)
(* good, and only the runtime's history tells that they are not new.       *)
RecordedOnce ==
    /\ Ascending(recorded)
    /\ RangeOf(recorded) \subseteq captured

(* The agent sends only batches that keep those rules. *)
AgentSendsWellFormed == \A b \in Sent : WellFormed(b)

(* What the service has acknowledged is in its registry file, so a restart *)
(* of the service still knows it.                                          *)
AckedIsDurable == \A n \in acked : n <= registryFile.seq

(* No batch the agent saw acknowledged reaches the inference again.        *)
AckedNotIngestedAgain ==
    handling # NoBatch => handling.batch.seq \notin acked

(* The abstract promise: recorded in capture order, each at most once.     *)
Promise == INSTANCE OrderedDelivery WITH BatchLimit <- BatchSize
DeliversInOrder == Promise!Spec

(* Every captured state meets its fate: the queue and the buffer drain.    *)
EverythingSettles ==
    \A slot \in 1 .. MaxSlot : slot \in captured ~> slot \in Settled
=============================================================================
