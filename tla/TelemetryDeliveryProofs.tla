------------------------ MODULE TelemetryDeliveryProofs ------------------------
(***************************************************************************)
(* What telemetry delivery guarantees for every batch size, buffer size,   *)
(* overflow policy, set of failures and number of failures: proofs about   *)
(* TelemetryDelivery.                                                      *)
(***************************************************************************)
EXTENDS TelemetryDelivery, AgentCollectorProofs, SequenceTheorems

(***************************************************************************)
(* The sensor runtime, fed with any states (RemoteRuntime).                *)
(***************************************************************************)

(* Everything the three properties need of each other.  The history must   *)
(* be contiguous for a forecast that is kept to stay within its day, and   *)
(* the reported length must be the real one for the reset branches.        *)
RuntimeInvariant ==
    /\ RuntimeTypeOK
    /\ HistoryIsContiguous
    /\ HistoryLengthIsHonest
    /\ ForecastNeedsHistory

(* Each thing ingest can do with a state keeps the invariant, and so does  *)
(* a restart.                                                              *)
LEMMA IngestStep ==
    ASSUME RuntimeInvariant,
           NEW slot \in Slots,
           \/ RestartHistory(slot) \/ RefuseState(slot)
           \/ \E ok \in BOOLEAN : ExtendHistory(slot, ok)
           \/ LoseRuntime \/ UNCHANGED rtVars
    PROVE  RuntimeInvariant'
<1> USE DEF RuntimeInvariant
<1>1. CASE RestartHistory(slot)
  BY <1>1, BufferAssumption
     DEF RestartHistory, CountFirst, WithdrawForecast, RuntimeTypeOK,
         HistoryIsContiguous, Contiguous,
         HistoryLengthIsHonest, ForecastNeedsHistory
<1>2. ASSUME NEW ok \in BOOLEAN, ExtendHistory(slot, ok)
      PROVE  RuntimeInvariant'
  <2>1. states # <<>> => slot = Newest(states) + 1
                         /\ DayOf(slot) = DayOf(Newest(states))
    <3> SUFFICES ASSUME states # <<>>
                 PROVE  slot = Newest(states) + 1
                        /\ DayOf(slot) = DayOf(Newest(states))
      OBVIOUS
    <3>1. Newest(states) \in Slots
      BY DEF Newest, RuntimeTypeOK
    <3> QED
      BY <1>2, <3>1
         DEF ExtendHistory, DoesNotAdvance, LeavesGap, CrossesDay, Slots
  <2>2. /\ states' \in Seq(Slots)
        /\ Len(states') = IF Len(states) < SequenceLength
                          THEN Len(states) + 1 ELSE SequenceLength
        /\ Newest(states') = slot
        /\ Contiguous(states')
    <3>1. states' = Pushed(states, slot)
      BY <1>2 DEF ExtendHistory
    <3>2. states \in Seq(Slots) /\ Len(states) <= SequenceLength
          /\ Contiguous(states)
      BY DEF RuntimeTypeOK, HistoryIsContiguous
    <3> QED
      BY <2>1, <3>1, <3>2, PushedFacts
  <2>3. HistoryIsContiguous'
    BY <2>2 DEF HistoryIsContiguous
  <2>4. RuntimeTypeOK' /\ HistoryLengthIsHonest'
    BY <1>2, <2>2, BufferAssumption
       DEF ExtendHistory, RuntimeTypeOK, HistoryLengthIsHonest
  <2>5. ForecastNeedsHistory'
    <3> SUFFICES ASSUME latestForecast' # NoForecast
                 PROVE  /\ IsReady(states')
                        /\ latestForecast' <= Newest(states')
                        /\ DayOf(latestForecast') = DayOf(Newest(states'))
      BY DEF ForecastNeedsHistory
    <3>1. CASE IsReady(states') /\ ok
      BY <1>2, <2>2, <3>1 DEF ExtendHistory, Slots
    <3>2. CASE ~ (IsReady(states') /\ ok)
      <4>1. latestForecast' = latestForecast
        BY <1>2, <3>2 DEF ExtendHistory
      <4>2. /\ IsReady(states) /\ latestForecast \in Slots
            /\ latestForecast <= Newest(states)
            /\ DayOf(latestForecast) = DayOf(Newest(states))
        BY <4>1 DEF ForecastNeedsHistory, RuntimeTypeOK
      <4>3. states # <<>> /\ Newest(states) \in Slots
        BY <4>2, BufferAssumption DEF IsReady, Newest, RuntimeTypeOK
      <4> QED
        BY <2>1, <2>2, <4>1, <4>2, <4>3, BufferAssumption
           DEF IsReady, Slots
    <3> QED
      BY <3>1, <3>2
  <2> QED
    BY <2>3, <2>4, <2>5
<1>3. CASE LoseRuntime
  BY <1>3, BufferAssumption
     DEF LoseRuntime, RuntimeTypeOK, HistoryIsContiguous, Contiguous,
         HistoryLengthIsHonest, ForecastNeedsHistory
<1>4. CASE UNCHANGED rtVars
  BY <1>4 DEF rtVars, RuntimeTypeOK, HistoryIsContiguous, Contiguous,
              HistoryLengthIsHonest, ForecastNeedsHistory, IsReady, Newest
<1>5. CASE RefuseState(slot)
  BY <1>4, <1>5 DEF RefuseState
<1> QED
  BY <1>1, <1>2, <1>3, <1>4, <1>5

LEMMA RuntimeStep ==
    RuntimeInvariant /\ [RuntimeNext]_rtVars => RuntimeInvariant'
<1>1. 0 .. MaxSlot \subseteq Slots /\ 0 \in Slots
  BY RuntimeAssumption DEF Slots
<1> QED
  BY <1>1, IngestStep DEF RuntimeNext

LEMMA RuntimeInvariantHolds == RuntimeSpec => []RuntimeInvariant
<1>1. RuntimeInit => RuntimeInvariant
  BY BufferAssumption
     DEF RuntimeInit, RuntimeInvariant, RuntimeTypeOK, HistoryIsContiguous,
         Contiguous, HistoryLengthIsHonest, ForecastNeedsHistory
<1> QED
  BY <1>1, RuntimeStep, PTL DEF RuntimeSpec

(* Types, with the bound on the history: no input makes it grow past L.    *)
THEOREM RuntimeTypeCorrect == RuntimeSpec => []RuntimeTypeOK
<1>1. RuntimeInvariant => RuntimeTypeOK
  BY DEF RuntimeInvariant
<1> QED
  BY <1>1, RuntimeInvariantHolds, PTL

(* The buffered history is always consecutive states of one day.           *)
THEOREM RuntimeContiguous == RuntimeSpec => []HistoryIsContiguous
<1>1. RuntimeInvariant => HistoryIsContiguous
  BY DEF RuntimeInvariant
<1> QED
  BY <1>1, RuntimeInvariantHolds, PTL

(* The reported history length is the buffer's.                            *)
THEOREM RuntimeLengthHonest == RuntimeSpec => []HistoryLengthIsHonest
<1>1. RuntimeInvariant => HistoryLengthIsHonest
  BY DEF RuntimeInvariant
<1> QED
  BY <1>1, RuntimeInvariantHolds, PTL

(* A forecast exists only over a full history of its own day.              *)
THEOREM RuntimeForecastHonest == RuntimeSpec => []ForecastNeedsHistory
<1>1. RuntimeInvariant => ForecastNeedsHistory
  BY DEF RuntimeInvariant
<1> QED
  BY <1>1, RuntimeInvariantHolds, PTL
-----------------------------------------------------------------------------
(***************************************************************************)
(* Types and positions.                                                    *)
(***************************************************************************)

(* Where the main thread is says what it holds. *)
PositionOK ==
    /\ current # NoBatch <=> pc \in {"direct", "enqueue", "deliver"}
    /\ pc = "direct" => buffer = <<>>
    /\ pc = "deliver" => buffer # <<>> /\ current = Head(buffer)

TypeInv == TypeOK /\ RuntimeInvariant /\ PositionOK

(* At most one request is live: the one for the current batch, while the   *)
(* agent waits for its answer.                                             *)
LiveOK ==
    /\ \A r \in requests :
           r.live => Waiting /\ r.batch = current /\ reply = "none"
    /\ handling # NoBatch /\ handling.live =>
           /\ Waiting /\ handling.batch = current /\ reply = "none"
           /\ \A r \in requests : ~ r.live

RecordOK(record) ==
    record.seq = IF record.batch = NoBatch THEN 0 ELSE record.batch.seq

(* The buffer is in sequence order, and nothing that was sent or recorded  *)
(* has a later sequence number than anything the agent still holds.        *)
OrderOK ==
    /\ \A i, j \in DOMAIN buffer : i < j => buffer[i].seq < buffer[j].seq
    /\ pc = "enqueue" => \A b \in RangeOf(buffer) : b.seq < current.seq
    /\ \A h \in Held :
           /\ \A s \in Sent : s.seq <= h.seq
           /\ registry.seq <= h.seq /\ registryFile.seq <= h.seq
    /\ RecordOK(registry) /\ RecordOK(registryFile)

(* The inductive invariant.  NoSpuriousConflict is not inductive by itself: *)
(* that a live request is never behind the registry needs the order of the *)
(* buffer, that only the current batch is live, and that equal numbers are *)
(* equal envelopes.                                                        *)
DeliveryInv ==
    /\ TypeInv /\ LiveOK /\ OrderOK
    /\ IssuedOnce /\ savedSequence <= nextSequence

(* What every step but BuildBatch and FlushSends does with the batches. *)
RecordsMove ==
    /\ \/ registry' \in {registry, registryFile}
       \/ handling # NoBatch /\ registry' = NewRecord
    /\ \/ registryFile' \in {registry, registryFile}
       \/ handling # NoBatch /\ registryFile' = NewRecord

SequenceMoves == savedSequence' = savedSequence /\ savedSequence' <= nextSequence'

BufferMoves ==
    /\ \/ buffer' = buffer
       \/ buffer # <<>> /\ buffer' = Tail(buffer)
       \/ pc = "enqueue" /\ buffer' = Append(buffer, current)
    /\ pc' = "enqueue" =>
           \/ buffer' = <<>>
           \/ pc = "enqueue" /\ current' = current /\ Len(buffer') <= Len(buffer)

Moves ==
    /\ Held' \subseteq Held /\ Sent' \subseteq Sent
    /\ rejected' \subseteq rejected \cup Held
    /\ RecordsMove /\ SequenceMoves /\ BufferMoves
-----------------------------------------------------------------------------
(***************************************************************************)
(* Facts about the data the actions compute.                               *)
(***************************************************************************)
LEMMA LimitFacts == PendingLimit \in Nat /\ PendingLimit >= 1
BY DeliveryAssumption DEF PendingLimit

LEMMA RangeFacts == \A seq \in Seq(Slots) : RangeOf(seq) \subseteq Slots
BY DEF RangeOf

LEMMA BatchFields ==
    \A b \in Batches : b.seq \in Nat \ {0} /\ b.states \in Seq(Slots)
BY DEF Batches

(* _drain_pending takes a non-empty part of the queue and leaves the rest. *)
LEMMA BatchFacts ==
    ASSUME AgentTypeOK, pending # <<>>
    PROVE  /\ NextBatch \in Batches
           /\ NextBatch.seq = nextSequence
           /\ RestOfPending \in Seq(Slots)
           /\ Len(RestOfPending) <= PendingLimit
<1>1. BatchSize \in Nat /\ BatchSize >= 1
  BY DeliveryAssumption
<1>2. /\ NextBatchLength \in 1 .. Len(pending)
      /\ NextBatchLength + 1 \in 1 .. Len(pending) + 1
  BY <1>1 DEF AgentTypeOK, NextBatchLength, Least
<1>3. SubSeq(pending, 1, NextBatchLength) \in Seq(Slots)
  BY <1>2 DEF AgentTypeOK
<1>4. RestOfPending \in Seq(Slots) /\ Len(RestOfPending) <= Len(pending)
  BY <1>2 DEF AgentTypeOK, RestOfPending
<1> QED
  BY <1>1, <1>3, <1>4 DEF AgentTypeOK, NextBatch, Batches, PendingLimit

LEMMA BufferFacts ==
    ASSUME AgentTypeOK, buffer # <<>>
    PROVE  /\ Head(buffer) \in Batches /\ Head(buffer) = buffer[1]
           /\ Tail(buffer) \in Seq(Batches)
           /\ Len(Tail(buffer)) = Len(buffer) - 1
           /\ \A i \in 1 .. Len(buffer) - 1 : Tail(buffer)[i] = buffer[i + 1]
BY DEF AgentTypeOK

LEMMA HandlingFacts ==
    ASSUME CentralTypeOK, handling # NoBatch
    PROVE  /\ handling.batch \in Batches /\ handling.live \in BOOLEAN
           /\ NewRecord \in Records
           /\ Ingesting => NextState \in Slots
<1>1. handling.batch \in Batches /\ handling.live \in BOOLEAN
      /\ handling.next \in Nat \ {0}
  BY DEF CentralTypeOK
<1>2. NewRecord \in Records
  BY <1>1 DEF NewRecord, Records, MaybeBatch, Batches
<1>3. Ingesting => NextState \in Slots
  BY <1>1 DEF Ingesting, NextState, Size, Batches
<1> QED
  BY <1>1, <1>2, <1>3

(* A request the agent sends, and the requests it no longer waits for.     *)
LEMMA SendFacts ==
    ASSUME NetTypeOK, NEW batch \in Batches, SendLive(batch)
    PROVE  NetTypeOK'
<1>1. [batch |-> batch, live |-> TRUE] \in [batch : Batches, live : BOOLEAN]
  OBVIOUS
<1> QED
  BY <1>1 DEF NetTypeOK, SendLive

LEMMA AbandonedFacts ==
    ASSUME NetTypeOK
    PROVE  Abandoned \subseteq [batch : Batches, live : BOOLEAN]
<1> SUFFICES ASSUME NEW r \in requests
             PROVE  [batch |-> r.batch, live |-> FALSE]
                        \in [batch : Batches, live : BOOLEAN]
  BY DEF Abandoned
<1>1. r.batch \in Batches
  BY DEF NetTypeOK
<1> QED
  BY <1>1

LEMMA CurrentFacts ==
    ASSUME AgentTypeOK, PositionOK, pc \in {"direct", "enqueue", "deliver"}
    PROVE  current \in Batches
BY DEF AgentTypeOK, PositionOK, MaybeBatch
-----------------------------------------------------------------------------
(* The position of the main thread and what it holds change together.     *)
LEMMA PositionStep == TypeInv /\ [Next]_vars => PositionOK'
<1> SUFFICES ASSUME TypeInv, [Next]_vars
             PROVE  PositionOK'
  OBVIOUS
<1> USE NoBatchAssumption DEF TypeInv, TypeOK, AgentTypeOK, PositionOK
<1>1. CASE Capture
  BY <1>1 DEF Capture, FlowEnds, QueueState, QueueFull, agentVars
<1>2. CASE StartTurn
  BY <1>2 DEF StartTurn
<1>2a. ASSUME NEW active \in ActiveWindows, LeaveLoop(active)
       PROVE  PositionOK'
  BY <1>2a DEF LeaveLoop
<1>2b. CASE CollectorFlushed
  BY <1>2b DEF CollectorFlushed
<1>3. CASE Drained
  BY <1>3 DEF Drained
<1>4. CASE BuildBatch
  BY <1>4, BatchFacts DEF BuildBatch, HasBatch, SaveSequence, SendsAtOnce
<1>5. CASE BuildFails
  BY <1>5 DEF BuildFails, HasBatch
<1>6. CASE DirectAcknowledged
  BY <1>6 DEF DirectAcknowledged
<1>7. CASE DirectRejected
  BY <1>7 DEF DirectRejected, Reject
<1>8. CASE DirectFailed
  BY <1>8 DEF DirectFailed
<1>9. CASE EvictOldest
  BY <1>9 DEF EvictOldest, CountDropped
<1>10. CASE Store
  BY <1>10 DEF Store, WithFile
<1>11. CASE StoreFails
  BY <1>11 DEF StoreFails
<1>12. CASE PutBack
  BY <1>12 DEF PutBack, PutInFront
<1>13. CASE FlushEnds
  BY <1>13 DEF FlushEnds, EndTurn
<1>14. CASE FlushSends
  BY <1>14, BufferFacts DEF FlushSends
<1>15. CASE FlushAcknowledged
  BY <1>15 DEF FlushAcknowledged
<1>16. CASE FlushRejected
  BY <1>16 DEF FlushRejected, Reject
<1>17. CASE FlushFailed
  BY <1>17 DEF FlushFailed, EndTurn
<1>18. CASE BackoffEnds
  BY <1>18 DEF BackoffEnds
<1>19. CASE Crash
  BY <1>19 DEF Crash
<1>20. CASE StartAgent
  BY <1>20 DEF StartAgent
<1>21. ASSUME NEW request \in requests, LoseRequest(request)
       PROVE  PositionOK'
  BY <1>21 DEF LoseRequest, agentVars
<1>22. CASE TimeOut
  BY <1>22 DEF TimeOut, agentVars
<1>23. ASSUME NEW request \in requests, AnswerAtOnce(request)
       PROVE  PositionOK'
  BY <1>23 DEF AnswerAtOnce, agentVars
<1>24. ASSUME NEW request \in requests, AnswerNotAudited(request)
       PROVE  PositionOK'
  BY <1>24 DEF AnswerNotAudited, agentVars
<1>25. ASSUME NEW request \in requests, LimitRate(request)
       PROVE  PositionOK'
  BY <1>25 DEF LimitRate, agentVars
<1>26. ASSUME NEW request \in requests, Admit(request)
       PROVE  PositionOK'
  BY <1>26 DEF Admit, agentVars
<1>27. CASE IngestState
  BY <1>27 DEF IngestState, TakeState, agentVars
<1>28. CASE RefuseBatch
  BY <1>28 DEF RefuseBatch, agentVars
<1>29. ASSUME NEW status \in {"invalid", "transient"}, InferenceRaises(status)
       PROVE  PositionOK'
  BY <1>29 DEF InferenceRaises, agentVars
<1>30. CASE Accept
  BY <1>30 DEF Accept, SaveRecord, agentVars
<1>31. CASE SaveRaises
  BY <1>31 DEF SaveRaises, agentVars
<1>32. ASSUME NEW accepted \in BOOLEAN, AuditRaises(accepted)
       PROVE  PositionOK'
  BY <1>32 DEF AuditRaises, SaveRecord, agentVars
<1>33. CASE SaveRegistry
  BY <1>33 DEF SaveRegistry, agentVars
<1>34. CASE RestartCentral
  BY <1>34 DEF RestartCentral, agentVars
<1>35. CASE UNCHANGED vars
  BY <1>35 DEF vars, agentVars
<1> QED
  BY <1>1, <1>2, <1>2a, <1>2b, <1>3, <1>4, <1>5, <1>6, <1>7, <1>8, <1>9,
     <1>10, <1>11, <1>12, <1>13, <1>14, <1>15, <1>16, <1>17, <1>18, <1>19, <1>20, <1>21,
     <1>22, <1>23, <1>24, <1>25, <1>26, <1>27, <1>28, <1>29, <1>30, <1>31,
     <1>32, <1>33, <1>34, <1>35
     DEF Next, MainThread, Central

(* Every step keeps the types, and the runtime its own invariant.          *)
LEMMA TypeStep == TypeInv /\ [Next]_vars => TypeOK' /\ RuntimeInvariant'
<1> SUFFICES ASSUME TypeInv, [Next]_vars
             PROVE  TypeOK' /\ RuntimeInvariant'
  OBVIOUS
<1> USE DEF TypeInv, TypeOK
<1>A. ASSUME UNCHANGED agentVars PROVE AgentTypeOK'
  BY <1>A DEF agentVars, AgentTypeOK
<1>C. ASSUME UNCHANGED captureVars PROVE CaptureTypeOK'
  BY <1>C, CollectorTypeStep DEF captureVars, CaptureTypeOK
<1>D. ASSUME CollectorNext PROVE CollectorTypeOK'
  BY <1>D, CollectorTypeStep DEF CaptureTypeOK
<1>N. ASSUME UNCHANGED netVars PROVE NetTypeOK'
  BY <1>N DEF netVars, NetTypeOK
<1>R. ASSUME UNCHANGED rtVars PROVE RuntimeInvariant'
  BY <1>R, IngestStep, 0 \in Slots DEF Slots
<1>X. ASSUME UNCHANGED centralVars PROVE CentralTypeOK' /\ RuntimeInvariant'
  BY <1>X, <1>R DEF centralVars, registryVars, CentralTypeOK, RuntimeInvariant
<1>F. ASSUME UNCHANGED fateVars PROVE FateTypeOK'
  BY <1>F DEF fateVars, FateTypeOK
<1>G. ASSUME NEW kind, Fault(kind) PROVE faultsLeft' \in Nat
  BY <1>G DEF Fault
<1>1. CASE Capture
  <2>1. ASSUME NEW slot \in 1 .. MaxSlot, FlowEnds(slot)
        PROVE  TypeOK' /\ RuntimeInvariant'
    <3>1. CaptureTypeOK'
      BY <2>1, <1>D DEF FlowEnds, CollectorNext, PromptNext, CaptureTypeOK
    <3> QED
      BY <2>1, <3>1, <1>A, <1>N, <1>X, <1>F DEF FlowEnds
  <2>2. ASSUME NEW slot \in emitting, QueueState(slot)
        PROVE  TypeOK' /\ RuntimeInvariant'
    <3>1. slot \in Slots
      BY DEF CaptureTypeOK, CollectorTypeOK
    <3>2. AgentTypeOK'
      BY <2>2, <3>1, LimitFacts DEF QueueState, AgentTypeOK
    <3>3. CaptureTypeOK'
      BY <2>2, <3>1, <1>D
         DEF QueueState, CollectorNext, PromptNext, CaptureTypeOK
    <3> QED
      BY <2>2, <3>2, <3>3, <1>N, <1>X, <1>F DEF QueueState
  <2>3. CASE QueueFull
    <3>1. CaptureTypeOK'
      BY <2>3, <1>D DEF QueueFull, CollectorNext, CaptureTypeOK
    <3> QED
      BY <2>3, <3>1, <1>A, <1>N, <1>X, <1>F DEF QueueFull
  <2> QED
    BY <1>1, <2>1, <2>2, <2>3 DEF Capture
<1>2. CASE StartTurn
  <2>1. AgentTypeOK'
    BY <1>2 DEF StartTurn, AgentTypeOK, Position
  <2> QED
    BY <1>2, <2>1, <1>C, <1>N, <1>X, <1>F DEF StartTurn
<1>2a. ASSUME NEW active \in ActiveWindows, LeaveLoop(active)
       PROVE  TypeOK' /\ RuntimeInvariant'
  <2>1. AgentTypeOK'
    BY <1>2a DEF LeaveLoop, AgentTypeOK, Position
  <2>2. CaptureTypeOK'
    BY <1>2a, <1>D DEF LeaveLoop, CollectorNext, PromptNext, CaptureTypeOK
  <2> QED
    BY <1>2a, <2>1, <2>2, <1>N, <1>X, <1>F DEF LeaveLoop
<1>2b. CASE CollectorFlushed
  <2>1. AgentTypeOK'
    BY <1>2b DEF CollectorFlushed, AgentTypeOK, Position
  <2> QED
    BY <1>2b, <2>1, <1>C, <1>N, <1>X, <1>F DEF CollectorFlushed
<1>3. CASE Drained
  <2>1. AgentTypeOK'
    BY <1>3 DEF Drained, AgentTypeOK, Position
  <2> QED
    BY <1>3, <2>1, <1>C, <1>N, <1>X, <1>F DEF Drained
<1>4. CASE BuildBatch
  <2>1. AgentTypeOK'
    BY <1>4, BatchFacts
       DEF BuildBatch, HasBatch, SaveSequence, SendsAtOnce, AgentTypeOK,
           MaybeBatch, Position
  <2>2. NetTypeOK'
    BY <1>4, <1>N, BatchFacts, SendFacts
       DEF BuildBatch, HasBatch, SaveSequence, SendsAtOnce
  <2> QED
    BY <1>4, <2>1, <2>2, <1>C, <1>X, <1>F
       DEF BuildBatch, HasBatch, SaveSequence, SendsAtOnce
<1>5. CASE BuildFails
  <2>1. AgentTypeOK'
    BY <1>5, BatchFacts DEF BuildFails, HasBatch, AgentTypeOK
  <2>2. FateTypeOK'
    BY <1>5, BatchFacts, BatchFields, RangeFacts
       DEF BuildFails, HasBatch, FateTypeOK
  <2>3. faultsLeft' \in Nat
    BY <1>5, <1>G DEF BuildFails, HasBatch
  <2> QED
    BY <1>5, <2>1, <2>2, <2>3, <1>C, <1>N, <1>X DEF BuildFails, HasBatch
<1>6. CASE DirectAcknowledged
  <2>1. AgentTypeOK'
    BY <1>6 DEF DirectAcknowledged, AgentTypeOK, MaybeBatch, Position
  <2>2. NetTypeOK'
    BY <1>6 DEF DirectAcknowledged, NetTypeOK
  <2>3. FateTypeOK'
    BY <1>6, CurrentFacts, BatchFields DEF DirectAcknowledged, FateTypeOK
  <2> QED
    BY <1>6, <2>1, <2>2, <2>3, <1>C, <1>X DEF DirectAcknowledged
<1>7. CASE DirectRejected
  <2>1. AgentTypeOK'
    BY <1>7 DEF DirectRejected, Reject, AgentTypeOK, MaybeBatch, Position
  <2>2. NetTypeOK'
    BY <1>7 DEF DirectRejected, Reject, NetTypeOK
  <2>3. FateTypeOK'
    BY <1>7, CurrentFacts DEF DirectRejected, Reject, FateTypeOK
  <2> QED
    BY <1>7, <2>1, <2>2, <2>3, <1>C, <1>X DEF DirectRejected, Reject
<1>8. CASE DirectFailed
  <2>1. AgentTypeOK'
    BY <1>8 DEF DirectFailed, AgentTypeOK, Position
  <2>2. NetTypeOK'
    BY <1>8 DEF DirectFailed, NetTypeOK
  <2> QED
    BY <1>8, <2>1, <2>2, <1>C, <1>X, <1>F DEF DirectFailed
<1>9. CASE EvictOldest
  <2>1. AgentTypeOK'
    BY <1>9, BufferFacts, DeliveryAssumption
       DEF EvictOldest, CountDropped, AgentTypeOK
  <2>2. FateTypeOK'
    BY <1>9, BufferFacts, BatchFields, RangeFacts
       DEF EvictOldest, CountDropped, FateTypeOK
  <2> QED
    BY <1>9, <2>1, <2>2, <1>C, <1>N, <1>X DEF EvictOldest, CountDropped
<1>10. CASE Store
  <2>1. AgentTypeOK'
    BY <1>10, CurrentFacts, DeliveryAssumption
       DEF Store, WithFile, Overflows, AgentTypeOK, MaybeBatch, Position
  <2> QED
    BY <1>10, <2>1, <1>C, <1>N, <1>X, <1>F DEF Store, WithFile
<1>11. CASE StoreFails
  <2>1. AgentTypeOK'
    BY <1>11 DEF StoreFails, AgentTypeOK, MaybeBatch, Position
  <2>2. FateTypeOK'
    BY <1>11, CurrentFacts, BatchFields, RangeFacts DEF StoreFails, FateTypeOK
  <2>3. faultsLeft' \in Nat
    BY <1>11, <1>G DEF StoreFails
  <2> QED
    BY <1>11, <2>1, <2>2, <2>3, <1>C, <1>N, <1>X DEF StoreFails
<1>12. CASE PutBack
  <2>1. AgentTypeOK'
    <3>1. current.states \o pending \in Seq(Slots)
      BY <1>12, CurrentFacts, BatchFields DEF PutBack, PutInFront, AgentTypeOK
    <3>2. pending' \in Seq(Slots) /\ Len(pending') <= PendingLimit
      BY <1>12, <3>1, LimitFacts DEF PutBack, PutInFront, Least
    <3> QED
      BY <1>12, <3>2 DEF PutBack, PutInFront, AgentTypeOK, MaybeBatch, Position
  <2> QED
    BY <1>12, <2>1, <1>C, <1>N, <1>X, <1>F DEF PutBack, PutInFront
<1>13. CASE FlushEnds
  <2>1. AgentTypeOK'
    <3>1. CASE stopping
      BY <1>13, <3>1, LimitFacts
         DEF FlushEnds, EndTurn, AgentTypeOK, MaybeBatch, Position
    <3>2. CASE ~ stopping
      BY <1>13, <3>2 DEF FlushEnds, EndTurn, AgentTypeOK, MaybeBatch, Position
    <3> QED
      BY <3>1, <3>2
  <2>2. FateTypeOK'
    BY <1>13, RangeFacts DEF FlushEnds, EndTurn, AgentTypeOK, FateTypeOK
  <2> QED
    BY <1>13, <2>1, <2>2, <1>C, <1>N, <1>X DEF FlushEnds
<1>14. CASE FlushSends
  <2>1. AgentTypeOK'
    BY <1>14, BufferFacts DEF FlushSends, AgentTypeOK, MaybeBatch, Position
  <2>2. NetTypeOK'
    BY <1>14, BufferFacts, SendFacts DEF FlushSends
  <2> QED
    BY <1>14, <2>1, <2>2, <1>C, <1>X, <1>F DEF FlushSends
<1>15. CASE FlushAcknowledged
  <2>1. AgentTypeOK'
    <3>1. buffer' \in Seq(Batches) /\ Len(buffer') <= MaxBatches
      BY <1>15, BufferFacts, DeliveryAssumption
         DEF FlushAcknowledged, PositionOK, AgentTypeOK
    <3> QED
      BY <1>15, <3>1 DEF FlushAcknowledged, AgentTypeOK, MaybeBatch, Position
  <2>2. NetTypeOK'
    BY <1>15 DEF FlushAcknowledged, NetTypeOK
  <2>3. FateTypeOK'
    BY <1>15, CurrentFacts, BatchFields DEF FlushAcknowledged, FateTypeOK
  <2> QED
    BY <1>15, <2>1, <2>2, <2>3, <1>C, <1>X DEF FlushAcknowledged
<1>16. CASE FlushRejected
  <2>1. AgentTypeOK'
    <3>1. buffer' \in Seq(Batches) /\ Len(buffer') <= MaxBatches
      BY <1>16, BufferFacts, DeliveryAssumption
         DEF FlushRejected, Reject, PositionOK, AgentTypeOK
    <3> QED
      BY <1>16, <3>1
         DEF FlushRejected, Reject, AgentTypeOK, MaybeBatch, Position
  <2>2. NetTypeOK'
    BY <1>16 DEF FlushRejected, Reject, NetTypeOK
  <2>3. FateTypeOK'
    BY <1>16, CurrentFacts DEF FlushRejected, Reject, FateTypeOK
  <2> QED
    BY <1>16, <2>1, <2>2, <2>3, <1>C, <1>X DEF FlushRejected, Reject
<1>17. CASE FlushFailed
  <2>1. AgentTypeOK'
    <3>1. CASE stopping
      BY <1>17, <3>1, LimitFacts
         DEF FlushFailed, EndTurn, AgentTypeOK, MaybeBatch, Position
    <3>2. CASE ~ stopping
      BY <1>17, <3>2 DEF FlushFailed, EndTurn, AgentTypeOK, MaybeBatch, Position
    <3> QED
      BY <3>1, <3>2
  <2>2. NetTypeOK'
    BY <1>17 DEF FlushFailed, NetTypeOK
  <2>3. FateTypeOK'
    BY <1>17, RangeFacts DEF FlushFailed, EndTurn, AgentTypeOK, FateTypeOK
  <2> QED
    BY <1>17, <2>1, <2>2, <2>3, <1>C, <1>X DEF FlushFailed
<1>18. CASE BackoffEnds
  <2>1. AgentTypeOK'
    BY <1>18 DEF BackoffEnds, AgentTypeOK
  <2> QED
    BY <1>18, <2>1, <1>C, <1>N, <1>X, <1>F DEF BackoffEnds
<1>19. CASE Crash
  <2>1. AgentTypeOK'
    BY <1>19, LimitFacts DEF Crash, AgentTypeOK, MaybeBatch, Position
  <2>2. NetTypeOK'
    BY <1>19, AbandonedFacts DEF Crash, NetTypeOK
  <2>3. CentralTypeOK' /\ RuntimeInvariant'
    BY <1>19, <1>R DEF Crash, registryVars, CentralTypeOK, RuntimeInvariant
  <2>4. FateTypeOK'
    BY <1>19, CurrentFacts, BatchFields, RangeFacts
       DEF Crash, AgentTypeOK, FateTypeOK
  <2>5. faultsLeft' \in Nat
    BY <1>19, <1>G DEF Crash
  <2> QED
    BY <1>19, <2>1, <2>2, <2>3, <2>4, <2>5, <1>C DEF Crash
<1>20. CASE StartAgent
  <2>1. AgentTypeOK'
    BY <1>20 DEF StartAgent, AgentTypeOK, Position
  <2>2. CaptureTypeOK'
    BY <1>20, <1>D DEF StartAgent, CollectorNext, PromptNext, CaptureTypeOK
  <2> QED
    BY <1>20, <2>1, <2>2, <1>N, <1>X, <1>F DEF StartAgent
<1>21. ASSUME NEW request \in requests, LoseRequest(request)
       PROVE  TypeOK' /\ RuntimeInvariant'
  <2>1. NetTypeOK'
    BY <1>21 DEF LoseRequest, NetTypeOK
  <2>2. faultsLeft' \in Nat
    BY <1>21, <1>G DEF LoseRequest
  <2> QED
    BY <1>21, <2>1, <2>2, <1>A, <1>C, <1>X, <1>F DEF LoseRequest
<1>22. CASE TimeOut
  <2>1. NetTypeOK'
    BY <1>22, AbandonedFacts DEF TimeOut, NetTypeOK
  <2>2. CentralTypeOK' /\ RuntimeInvariant'
    BY <1>22, <1>R DEF TimeOut, registryVars, CentralTypeOK, RuntimeInvariant
  <2>3. faultsLeft' \in Nat
    BY <1>22, <1>G DEF TimeOut
  <2> QED
    BY <1>22, <2>1, <2>2, <2>3, <1>A, <1>C, <1>F DEF TimeOut
<1>23. ASSUME NEW request \in requests, AnswerAtOnce(request)
       PROVE  TypeOK' /\ RuntimeInvariant'
  <2>1. NetTypeOK'
    BY <1>23 DEF AnswerAtOnce, Take, Answer, NetTypeOK
  <2> QED
    BY <1>23, <2>1, <1>A, <1>C, <1>X, <1>F DEF AnswerAtOnce
<1>24. ASSUME NEW request \in requests, AnswerNotAudited(request)
       PROVE  TypeOK' /\ RuntimeInvariant'
  <2>1. NetTypeOK'
    BY <1>24 DEF AnswerNotAudited, Take, Answer, NetTypeOK
  <2>2. faultsLeft' \in Nat
    BY <1>24, <1>G DEF AnswerNotAudited
  <2> QED
    BY <1>24, <2>1, <2>2, <1>A, <1>C, <1>X, <1>F DEF AnswerNotAudited
<1>25. ASSUME NEW request \in requests, LimitRate(request)
       PROVE  TypeOK' /\ RuntimeInvariant'
  <2>1. NetTypeOK'
    BY <1>25 DEF LimitRate, Take, Answer, NetTypeOK
  <2>2. faultsLeft' \in Nat
    BY <1>25, <1>G DEF LimitRate
  <2> QED
    BY <1>25, <2>1, <2>2, <1>A, <1>C, <1>X, <1>F DEF LimitRate
<1>26. ASSUME NEW request \in requests, Admit(request)
       PROVE  TypeOK' /\ RuntimeInvariant'
  <2>1. NetTypeOK'
    BY <1>26 DEF Admit, Take, NetTypeOK
  <2>2. CentralTypeOK' /\ RuntimeInvariant'
    BY <1>26, <1>R
       DEF Admit, Take, registryVars, NetTypeOK, CentralTypeOK, RuntimeInvariant
  <2> QED
    BY <1>26, <2>1, <2>2, <1>A, <1>C, <1>F DEF Admit
<1>27. CASE IngestState
  <2>1. CentralTypeOK' /\ RuntimeInvariant'
    <3>1. RuntimeInvariant'
      BY <1>27, HandlingFacts, IngestStep DEF IngestState, TakeState, Ingesting
    <3>2. handling' \in [batch : Batches, live : BOOLEAN, next : Nat \ {0}]
      BY <1>27 DEF IngestState, TakeState, Ingesting, CentralTypeOK
    <3> QED
      BY <1>27, <3>1, <3>2
         DEF IngestState, TakeState, registryVars, CentralTypeOK,
             RuntimeInvariant
  <2> QED
    BY <1>27, <2>1, <1>A, <1>C, <1>N, <1>F DEF IngestState, TakeState
<1>28. CASE RefuseBatch
  <2>1. NetTypeOK'
    BY <1>28, HandlingFacts DEF RefuseBatch, Ingesting, Answer, NetTypeOK
  <2>2. CentralTypeOK' /\ RuntimeInvariant'
    BY <1>28, <1>R
       DEF RefuseBatch, RefuseState, registryVars, CentralTypeOK,
           RuntimeInvariant
  <2> QED
    BY <1>28, <2>1, <2>2, <1>A, <1>C, <1>F DEF RefuseBatch
<1>29. ASSUME NEW status \in {"invalid", "transient"}, InferenceRaises(status)
       PROVE  TypeOK' /\ RuntimeInvariant'
  <2>1. NetTypeOK'
    BY <1>29, HandlingFacts DEF InferenceRaises, Ingesting, Answer, NetTypeOK
  <2>2. CentralTypeOK' /\ RuntimeInvariant'
    <3>1. RuntimeInvariant'
      BY <1>29, HandlingFacts, IngestStep DEF InferenceRaises, Ingesting
    <3> QED
      BY <1>29, <3>1
         DEF InferenceRaises, registryVars, CentralTypeOK, RuntimeInvariant
  <2>3. faultsLeft' \in Nat
    BY <1>29, <1>G DEF InferenceRaises
  <2> QED
    BY <1>29, <2>1, <2>2, <2>3, <1>A, <1>C, <1>F DEF InferenceRaises
<1>30. CASE Accept
  <2>1. NetTypeOK'
    BY <1>30, HandlingFacts DEF Accept, SaveRecord, Ingested, Answer, NetTypeOK
  <2>2. CentralTypeOK' /\ RuntimeInvariant'
    BY <1>30, <1>R, HandlingFacts
       DEF Accept, SaveRecord, Ingested, registryVars, CentralTypeOK,
           RuntimeInvariant
  <2>3. FateTypeOK'
    BY <1>30, HandlingFacts, BatchFields
       DEF Accept, SaveRecord, Ingested, FateTypeOK
  <2> QED
    BY <1>30, <2>1, <2>2, <2>3, <1>A, <1>C DEF Accept, SaveRecord
<1>31. CASE SaveRaises
  <2>1. NetTypeOK'
    BY <1>31, HandlingFacts DEF SaveRaises, Ingested, Answer, NetTypeOK
  <2>2. CentralTypeOK' /\ RuntimeInvariant'
    BY <1>31, <1>R, HandlingFacts
       DEF SaveRaises, Ingested, registryVars, CentralTypeOK, RuntimeInvariant
  <2>3. FateTypeOK'
    BY <1>31, HandlingFacts, BatchFields
       DEF SaveRaises, Ingested, FateTypeOK
  <2>4. faultsLeft' \in Nat
    BY <1>31, <1>G DEF SaveRaises
  <2> QED
    BY <1>31, <2>1, <2>2, <2>3, <2>4, <1>A, <1>C DEF SaveRaises
<1>32. ASSUME NEW accepted \in BOOLEAN, AuditRaises(accepted)
       PROVE  TypeOK' /\ RuntimeInvariant'
  <2>1. NetTypeOK'
    BY <1>32, HandlingFacts
       DEF AuditRaises, SaveRecord, Ingested, Answer, NetTypeOK
  <2>2. CentralTypeOK' /\ RuntimeInvariant'
    BY <1>32, <1>R, HandlingFacts
       DEF AuditRaises, SaveRecord, Ingested, registryVars, CentralTypeOK,
           RuntimeInvariant
  <2>3. FateTypeOK'
    <3>1. CASE accepted
      <4>1. handling.batch.states \in Seq(Slots)
        BY <1>32, HandlingFacts, BatchFields
           DEF AuditRaises, SaveRecord, Ingested
      <4>2. recorded' = recorded \o handling.batch.states
        BY <1>32, <3>1, Zenon DEF AuditRaises, SaveRecord
      <4> QED
        BY <1>32, <4>1, <4>2 DEF AuditRaises, SaveRecord, FateTypeOK
    <3>2. CASE ~ accepted
      BY <1>32, <3>2 DEF AuditRaises, SaveRecord, FateTypeOK
    <3> QED
      BY <3>1, <3>2
  <2>4. faultsLeft' \in Nat
    BY <1>32, <1>G DEF AuditRaises, SaveRecord
  <2> QED
    BY <1>32, <2>1, <2>2, <2>3, <2>4, <1>A, <1>C DEF AuditRaises, SaveRecord
<1>33. CASE SaveRegistry
  <2>1. CentralTypeOK' /\ RuntimeInvariant'
    BY <1>33, <1>R DEF SaveRegistry, CentralTypeOK, RuntimeInvariant
  <2> QED
    BY <1>33, <2>1, <1>A, <1>C, <1>N, <1>F DEF SaveRegistry
<1>34. CASE RestartCentral
  <2>1. NetTypeOK'
    BY <1>34 DEF RestartCentral, NetTypeOK
  <2>2. CentralTypeOK' /\ RuntimeInvariant'
    <3>1. RuntimeInvariant'
      BY <1>34, IngestStep, 0 \in Slots DEF RestartCentral, Slots
    <3> QED
      BY <1>34, <3>1 DEF RestartCentral, CentralTypeOK, RuntimeInvariant
  <2>3. faultsLeft' \in Nat
    BY <1>34, <1>G DEF RestartCentral
  <2> QED
    BY <1>34, <2>1, <2>2, <2>3, <1>A, <1>C, <1>F DEF RestartCentral
<1>35. CASE UNCHANGED vars
  <2> QED
    BY <1>35, <1>A, <1>C, <1>N, <1>X, <1>F DEF vars
<1> QED
  BY <1>1, <1>2, <1>2a, <1>2b, <1>3, <1>4, <1>5, <1>6, <1>7, <1>8, <1>9,
     <1>10, <1>11, <1>12, <1>13, <1>14, <1>15, <1>16, <1>17, <1>18, <1>19, <1>20, <1>21,
     <1>22, <1>23, <1>24, <1>25, <1>26, <1>27, <1>28, <1>29, <1>30, <1>31,
     <1>32, <1>33, <1>34, <1>35
     DEF Next, MainThread, Central

LEMMA RequestsEqual ==
    ASSUME NetTypeOK, NEW r \in requests, NEW q \in requests,
           r.batch = q.batch, r.live = q.live
    PROVE  r = q
BY DEF NetTypeOK

(* Only an answer to the request the agent waits for reaches it. *)
LEMMA LiveStep == TypeInv /\ LiveOK /\ [Next]_vars => LiveOK'
<1> SUFFICES ASSUME TypeInv, LiveOK, [Next]_vars
             PROVE  LiveOK'
  OBVIOUS
<1> USE NoBatchAssumption
    DEF LiveOK, Waiting, TypeInv, TypeOK, PositionOK, agentVars, netVars
<1>1. CASE Capture
  BY <1>1 DEF Capture, FlowEnds, QueueState, QueueFull, centralVars
<1>2. CASE StartTurn
  BY <1>2 DEF StartTurn, centralVars
<1>2a. ASSUME NEW active \in ActiveWindows, LeaveLoop(active)
       PROVE  LiveOK'
  BY <1>2a DEF LeaveLoop, centralVars
<1>2b. CASE CollectorFlushed
  BY <1>2b DEF CollectorFlushed, centralVars
<1>3. CASE Drained
  BY <1>3 DEF Drained, centralVars
<1>4. CASE BuildBatch
  BY <1>4
     DEF BuildBatch, HasBatch, SaveSequence, SendsAtOnce, centralVars, SendLive
<1>5. CASE BuildFails
  BY <1>5 DEF BuildFails, HasBatch, centralVars
<1>6. CASE DirectAcknowledged
  BY <1>6 DEF DirectAcknowledged, centralVars
<1>7. CASE DirectRejected
  BY <1>7 DEF DirectRejected, Reject, centralVars, Permanent
<1>8. CASE DirectFailed
  BY <1>8 DEF DirectFailed, centralVars
<1>9. CASE EvictOldest
  BY <1>9 DEF EvictOldest, CountDropped, centralVars
<1>10. CASE Store
  BY <1>10 DEF Store, WithFile, centralVars
<1>11. CASE StoreFails
  BY <1>11 DEF StoreFails, centralVars
<1>12. CASE PutBack
  BY <1>12 DEF PutBack, PutInFront, centralVars
<1>13. CASE FlushEnds
  BY <1>13 DEF FlushEnds, centralVars, EndTurn
<1>14. CASE FlushSends
  BY <1>14 DEF FlushSends, centralVars, SendLive
<1>15. CASE FlushAcknowledged
  BY <1>15 DEF FlushAcknowledged, centralVars
<1>16. CASE FlushRejected
  BY <1>16 DEF FlushRejected, Reject, centralVars, Permanent
<1>17. CASE FlushFailed
  BY <1>17 DEF FlushFailed, centralVars, EndTurn
<1>18. CASE BackoffEnds
  BY <1>18 DEF BackoffEnds, centralVars
<1>19. CASE Crash
  BY <1>19 DEF Crash, Abandoned
<1>20. CASE StartAgent
  BY <1>20 DEF StartAgent, centralVars
<1>21. ASSUME NEW request \in requests, LoseRequest(request)
       PROVE  LiveOK'
  BY <1>21, RequestsEqual DEF LoseRequest, centralVars
<1>22. CASE TimeOut
  BY <1>22 DEF TimeOut, Abandoned
<1>23. ASSUME NEW request \in requests, AnswerAtOnce(request)
       PROVE  LiveOK'
  BY <1>23, RequestsEqual DEF AnswerAtOnce, centralVars, Take, Answer
<1>24. ASSUME NEW request \in requests, AnswerNotAudited(request)
       PROVE  LiveOK'
  BY <1>24, RequestsEqual DEF AnswerNotAudited, centralVars, Take, Answer
<1>25. ASSUME NEW request \in requests, LimitRate(request)
       PROVE  LiveOK'
  BY <1>25, RequestsEqual DEF LimitRate, centralVars, Take, Answer
<1>26. ASSUME NEW request \in requests, Admit(request)
       PROVE  LiveOK'
  BY <1>26, RequestsEqual DEF Admit, Take
<1>27. CASE IngestState
  BY <1>27 DEF IngestState, TakeState, Ingesting
<1>28. CASE RefuseBatch
  BY <1>28 DEF RefuseBatch, Answer, Ingesting
<1>29. ASSUME NEW status \in {"invalid", "transient"}, InferenceRaises(status)
       PROVE  LiveOK'
  BY <1>29 DEF InferenceRaises, Answer, Ingesting
<1>30. CASE Accept
  BY <1>30 DEF Accept, SaveRecord, Answer, Ingested
<1>31. CASE SaveRaises
  BY <1>31 DEF SaveRaises, Answer, Ingested
<1>32. ASSUME NEW accepted \in BOOLEAN, AuditRaises(accepted)
       PROVE  LiveOK'
  BY <1>32 DEF AuditRaises, SaveRecord, Answer, Ingested
<1>33. CASE SaveRegistry
  BY <1>33 DEF SaveRegistry
<1>34. CASE RestartCentral
  BY <1>34 DEF RestartCentral
<1>35. CASE UNCHANGED vars
  BY <1>35 DEF vars, centralVars
<1> QED
  BY <1>1, <1>2, <1>2a, <1>2b, <1>3, <1>4, <1>5, <1>6, <1>7, <1>8, <1>9,
     <1>10, <1>11, <1>12, <1>13, <1>14, <1>15, <1>16, <1>17, <1>18, <1>19, <1>20, <1>21,
     <1>22, <1>23, <1>24, <1>25, <1>26, <1>27, <1>28, <1>29, <1>30, <1>31,
     <1>32, <1>33, <1>34, <1>35
     DEF Next, MainThread, Central

(***************************************************************************)
(* Where a batch can go: everything but a new batch and a flush only moves *)
(* or forgets what is held, sent, rejected and recorded.                   *)
(***************************************************************************)
LEMMA HeldFacts ==
    ASSUME AgentTypeOK,
           buffer # <<>>, buffer' = Tail(buffer),
           current' \in {current, NoBatch}
    PROVE  Held' \subseteq Held
<1>1. RangeOf(buffer)' \subseteq RangeOf(buffer)
  BY BufferFacts DEF AgentTypeOK, RangeOf
<1> QED
  BY <1>1 DEF Held

LEMMA SentFacts ==
    ASSUME \A r \in requests' : \E q \in requests : q.batch = r.batch,
           \/ handling' = NoBatch
           \/ handling # NoBatch /\ handling'.batch = handling.batch
           \/ \E q \in requests : handling'.batch = q.batch
    PROVE  Sent' \subseteq Sent
<1>1. \A r \in requests' : r.batch \in Sent
  BY DEF Sent
<1>2. handling' # NoBatch => handling'.batch \in Sent
  BY DEF Sent
<1> QED
  BY <1>1, <1>2 DEF Sent

LEMMA MovesStep ==
    ASSUME TypeInv, savedSequence <= nextSequence, [Next]_vars,
           ~ BuildBatch, ~ FlushSends
    PROVE  Moves
<1> USE NoBatchAssumption DEF TypeInv, TypeOK
<1>H. ASSUME UNCHANGED <<current, buffer>> PROVE Held' \subseteq Held
  BY <1>H DEF Held
<1>K. ASSUME buffer' = buffer, current' = NoBatch PROVE Held' \subseteq Held
  BY <1>K DEF Held
<1>S. ASSUME UNCHANGED <<requests, handling>> PROVE Sent' \subseteq Sent
  BY <1>S DEF Sent
<1>R. ASSUME UNCHANGED registryVars PROVE RecordsMove
  BY <1>R DEF registryVars, RecordsMove
<1>B. ASSUME buffer' = buffer, pc' # "enqueue" \/ UNCHANGED <<pc, current>>
      PROVE  BufferMoves
  BY <1>B DEF AgentTypeOK, BufferMoves
<1>N. ASSUME UNCHANGED <<savedSequence, nextSequence>> PROVE SequenceMoves
  BY <1>N DEF SequenceMoves
<1>1. CASE Capture
  BY <1>1, <1>H, <1>S, <1>R, <1>N, <1>B
     DEF Capture, FlowEnds, QueueState, QueueFull, Moves, agentVars, netVars,
         centralVars, registryVars, fateVars
<1>2. CASE StartTurn
  BY <1>2, <1>H, <1>S, <1>R, <1>N, <1>B
     DEF StartTurn, Moves, netVars, centralVars, registryVars, fateVars
<1>2a. ASSUME NEW active \in ActiveWindows, LeaveLoop(active)
       PROVE  Moves
  BY <1>2a, <1>H, <1>S, <1>R, <1>N, <1>B
     DEF LeaveLoop, Moves, netVars, centralVars, registryVars, fateVars
<1>2b. CASE CollectorFlushed
  BY <1>2b, <1>H, <1>S, <1>R, <1>N, <1>B
     DEF CollectorFlushed, Moves, netVars, centralVars, registryVars, fateVars
<1>3. CASE Drained
  BY <1>3, <1>H, <1>S, <1>R, <1>N, <1>B
     DEF Drained, Moves, netVars, centralVars, registryVars, fateVars
<1>5. CASE BuildFails
  <2>1. SequenceMoves
    BY <1>5 DEF BuildFails, HasBatch, AgentTypeOK, SequenceMoves
  <2> QED
    BY <1>5, <2>1, <1>H, <1>S, <1>R, <1>B
       DEF BuildFails, HasBatch, Moves, netVars, centralVars, registryVars,
           fateVars
<1>6. CASE DirectAcknowledged
  <2>1. Held' \subseteq Held
    BY <1>6, <1>K DEF DirectAcknowledged
  <2> QED
    BY <1>6, <2>1, <1>S, <1>R, <1>N, <1>B
       DEF DirectAcknowledged, Moves, netVars, centralVars, registryVars,
           fateVars
<1>7. CASE DirectRejected
  <2>1. Held' \subseteq Held
    BY <1>7, <1>K DEF DirectRejected, Reject
  <2>2. rejected' \subseteq rejected \cup Held
    BY <1>7, CurrentFacts DEF DirectRejected, Reject, Held
  <2> QED
    BY <1>7, <2>1, <2>2, <1>S, <1>R, <1>N, <1>B
       DEF DirectRejected, Reject, Moves, netVars, centralVars, registryVars
<1>8. CASE DirectFailed
  <2>1. BufferMoves
    BY <1>8 DEF DirectFailed, PositionOK, BufferMoves
  <2> QED
    BY <1>8, <2>1, <1>H, <1>S, <1>R, <1>N
       DEF DirectFailed, Moves, netVars, centralVars, registryVars, fateVars
<1>9. CASE EvictOldest
  <2>1. Held' \subseteq Held
    BY <1>9, HeldFacts DEF EvictOldest, CountDropped
  <2>2. BufferMoves
    <3>1. Len(Tail(buffer)) <= Len(buffer)
      BY <1>9, BufferFacts DEF EvictOldest, CountDropped, AgentTypeOK
    <3> QED
      BY <1>9, <3>1 DEF EvictOldest, CountDropped, BufferMoves
  <2> QED
    BY <1>9, <2>1, <2>2, <1>S, <1>R, <1>N
       DEF EvictOldest, CountDropped, Moves, netVars, centralVars,
           registryVars, fateVars
<1>10. CASE Store
  <2>1. Held' \subseteq Held
    <3>1. RangeOf(buffer)' = RangeOf(buffer) \cup {current}
      BY <1>10 DEF Store, WithFile, AgentTypeOK, RangeOf
    <3>2. current # NoBatch
      BY <1>10 DEF Store, WithFile, PositionOK
    <3> QED
      BY <1>10, <3>1, <3>2 DEF Store, WithFile, Held
  <2>2. BufferMoves
    BY <1>10 DEF Store, WithFile, BufferMoves
  <2> QED
    BY <1>10, <2>1, <2>2, <1>S, <1>R, <1>N
       DEF Store, WithFile, Moves, netVars, centralVars, registryVars, fateVars
<1>11. CASE StoreFails
  <2>1. Held' \subseteq Held
    BY <1>11, <1>K DEF StoreFails
  <2> QED
    BY <1>11, <2>1, <1>S, <1>R, <1>N, <1>B
       DEF StoreFails, Moves, netVars, centralVars, registryVars, fateVars
<1>12. CASE PutBack
  <2>1. Held' \subseteq Held
    BY <1>12, <1>K DEF PutBack, PutInFront
  <2> QED
    BY <1>12, <2>1, <1>S, <1>R, <1>N, <1>B
       DEF PutBack, PutInFront, Moves, netVars, centralVars, registryVars,
           fateVars
<1>13. CASE FlushEnds
  BY <1>13, <1>H, <1>S, <1>R, <1>N, <1>B
     DEF FlushEnds, Moves, netVars, centralVars, registryVars, fateVars, EndTurn
<1>15. CASE FlushAcknowledged
  <2>1. Held' \subseteq Held
    BY <1>15, HeldFacts DEF FlushAcknowledged, PositionOK
  <2>2. BufferMoves
    BY <1>15 DEF FlushAcknowledged, PositionOK, BufferMoves
  <2> QED
    BY <1>15, <2>1, <2>2, <1>S, <1>R, <1>N
       DEF FlushAcknowledged, Moves, netVars, centralVars, registryVars,
           fateVars
<1>16. CASE FlushRejected
  <2>1. Held' \subseteq Held
    BY <1>16, HeldFacts DEF FlushRejected, Reject, PositionOK
  <2>2. rejected' \subseteq rejected \cup Held
    BY <1>16, CurrentFacts DEF FlushRejected, Reject, Held
  <2>3. BufferMoves
    BY <1>16 DEF FlushRejected, Reject, PositionOK, BufferMoves
  <2> QED
    BY <1>16, <2>1, <2>2, <2>3, <1>S, <1>R, <1>N
       DEF FlushRejected, Reject, Moves, netVars, centralVars, registryVars
<1>17. CASE FlushFailed
  <2>1. Held' \subseteq Held
    BY <1>17, <1>K DEF FlushFailed
  <2> QED
    BY <1>17, <2>1, <1>S, <1>R, <1>N, <1>B
       DEF FlushFailed, Moves, netVars, centralVars, registryVars, fateVars,
           EndTurn
<1>18. CASE BackoffEnds
  BY <1>18, <1>H, <1>S, <1>R, <1>N, <1>B
     DEF BackoffEnds, Moves, netVars, centralVars, registryVars, fateVars
<1>19. CASE Crash
  <2>1. Held' \subseteq Held
    BY <1>19, <1>K DEF Crash
  <2>2. Sent' \subseteq Sent
    <3>1. \A r \in requests' : \E q \in requests : q.batch = r.batch
      BY <1>19 DEF Crash, Abandoned
    <3>2. handling # NoBatch => handling'.batch = handling.batch
      BY <1>19 DEF Crash, CentralTypeOK
    <3> QED
      BY <1>19, <3>1, <3>2, SentFacts DEF Crash
  <2> QED
    BY <1>19, <2>1, <2>2, <1>R, <1>N, <1>B
       DEF Crash, Moves, centralVars, registryVars, fateVars
<1>20. CASE StartAgent
  <2>1. SequenceMoves
    BY <1>20 DEF StartAgent, AgentTypeOK, SequenceMoves
  <2> QED
    BY <1>20, <2>1, <1>H, <1>S, <1>R, <1>B
       DEF StartAgent, Moves, netVars, centralVars, registryVars, fateVars
<1>21. ASSUME NEW request \in requests, LoseRequest(request)
       PROVE  Moves
  <2>1. Sent' \subseteq Sent
    BY <1>21, SentFacts DEF LoseRequest, centralVars
  <2> QED
    BY <1>21, <2>1, <1>H, <1>R, <1>N, <1>B
       DEF LoseRequest, Moves, agentVars, centralVars, registryVars, fateVars
<1>22. CASE TimeOut
  <2>1. Sent' \subseteq Sent
    <3>1. \A r \in requests' : \E q \in requests : q.batch = r.batch
      BY <1>22 DEF TimeOut, Abandoned
    <3>2. handling # NoBatch => handling'.batch = handling.batch
      BY <1>22 DEF TimeOut, CentralTypeOK
    <3> QED
      BY <1>22, <3>1, <3>2, SentFacts DEF TimeOut
  <2> QED
    BY <1>22, <2>1, <1>H, <1>R, <1>N, <1>B
       DEF TimeOut, Moves, agentVars, centralVars, registryVars, fateVars
<1>23. ASSUME NEW request \in requests, AnswerAtOnce(request)
       PROVE  Moves
  <2>1. Sent' \subseteq Sent
    BY <1>23, SentFacts DEF AnswerAtOnce, Take, centralVars
  <2> QED
    BY <1>23, <2>1, <1>H, <1>R, <1>N, <1>B
       DEF AnswerAtOnce, Moves, agentVars, centralVars, registryVars, fateVars
<1>24. ASSUME NEW request \in requests, AnswerNotAudited(request)
       PROVE  Moves
  <2>1. Sent' \subseteq Sent
    BY <1>24, SentFacts DEF AnswerNotAudited, Take, centralVars
  <2> QED
    BY <1>24, <2>1, <1>H, <1>R, <1>N, <1>B
       DEF AnswerNotAudited, Moves, agentVars, centralVars, registryVars,
           fateVars
<1>25. ASSUME NEW request \in requests, LimitRate(request)
       PROVE  Moves
  <2>1. Sent' \subseteq Sent
    BY <1>25, SentFacts DEF LimitRate, Take, centralVars
  <2> QED
    BY <1>25, <2>1, <1>H, <1>R, <1>N, <1>B
       DEF LimitRate, Moves, agentVars, centralVars, registryVars, fateVars
<1>26. ASSUME NEW request \in requests, Admit(request)
       PROVE  Moves
  <2>1. Sent' \subseteq Sent
    BY <1>26, SentFacts DEF Admit, Take
  <2> QED
    BY <1>26, <2>1, <1>H, <1>R, <1>N, <1>B
       DEF Admit, Moves, agentVars, centralVars, registryVars, fateVars
<1>27. CASE IngestState
  <2>1. Sent' \subseteq Sent
    BY <1>27, SentFacts
       DEF IngestState, TakeState, Ingesting, netVars, CentralTypeOK
  <2> QED
    BY <1>27, <2>1, <1>H, <1>R, <1>N, <1>B
       DEF IngestState, TakeState, Moves, agentVars, centralVars,
           registryVars, fateVars
<1>28. CASE RefuseBatch
  <2>1. Sent' \subseteq Sent
    BY <1>28, SentFacts DEF RefuseBatch
  <2> QED
    BY <1>28, <2>1, <1>H, <1>R, <1>N, <1>B
       DEF RefuseBatch, Moves, agentVars, centralVars, registryVars, fateVars
<1>29. ASSUME NEW status \in {"invalid", "transient"}, InferenceRaises(status)
       PROVE  Moves
  <2>1. Sent' \subseteq Sent
    BY <1>29, SentFacts DEF InferenceRaises
  <2> QED
    BY <1>29, <2>1, <1>H, <1>R, <1>N, <1>B
       DEF InferenceRaises, Moves, agentVars, centralVars, registryVars,
           fateVars
<1>30. CASE Accept
  <2>1. Sent' \subseteq Sent
    BY <1>30, SentFacts DEF Accept, SaveRecord
  <2>2. RecordsMove
    BY <1>30 DEF Accept, SaveRecord, Ingested, registryVars, RecordsMove
  <2> QED
    BY <1>30, <2>1, <2>2, <1>H, <1>N, <1>B
       DEF Accept, SaveRecord, Moves, agentVars, fateVars
<1>31. CASE SaveRaises
  <2>1. Sent' \subseteq Sent
    BY <1>31, SentFacts DEF SaveRaises
  <2>2. RecordsMove
    BY <1>31 DEF SaveRaises, Ingested, registryVars, RecordsMove
  <2> QED
    BY <1>31, <2>1, <2>2, <1>H, <1>N, <1>B
       DEF SaveRaises, Moves, agentVars, fateVars
<1>32. ASSUME NEW accepted \in BOOLEAN, AuditRaises(accepted)
       PROVE  Moves
  <2>1. Sent' \subseteq Sent
    BY <1>32, SentFacts DEF AuditRaises, SaveRecord
  <2>2. RecordsMove
    BY <1>32 DEF AuditRaises, SaveRecord, Ingested, registryVars, RecordsMove
  <2> QED
    BY <1>32, <2>1, <2>2, <1>H, <1>N, <1>B
       DEF AuditRaises, SaveRecord, Moves, agentVars, fateVars
<1>33. CASE SaveRegistry
  <2>1. RecordsMove
    BY <1>33 DEF SaveRegistry, RecordsMove
  <2> QED
    BY <1>33, <2>1, <1>H, <1>S, <1>N, <1>B
       DEF SaveRegistry, Moves, agentVars, netVars, centralVars, registryVars,
           fateVars
<1>34. CASE RestartCentral
  <2>1. Sent' \subseteq Sent
    BY <1>34, SentFacts DEF RestartCentral
  <2>2. RecordsMove
    BY <1>34 DEF RestartCentral, RecordsMove
  <2> QED
    BY <1>34, <2>1, <2>2, <1>H, <1>N, <1>B
       DEF RestartCentral, Moves, agentVars, fateVars
<1>35. CASE UNCHANGED vars
  BY <1>35, <1>H, <1>S, <1>R, <1>N, <1>B
     DEF vars, Moves, agentVars, netVars, centralVars, registryVars, fateVars
<1> QED
  BY <1>1, <1>2, <1>2a, <1>2b, <1>3, <1>5, <1>6, <1>7, <1>8, <1>9, <1>10,
     <1>11, <1>12, <1>13, <1>15, <1>16, <1>17, <1>18, <1>19, <1>20, <1>21, <1>22, <1>23,
     <1>24, <1>25, <1>26, <1>27, <1>28, <1>29, <1>30, <1>31, <1>32, <1>33,
     <1>34, <1>35
     DEF Next, MainThread, Central

LEMMA KnownTypes == ASSUME TypeOK PROVE Known \subseteq Batches
BY DEF TypeOK, AgentTypeOK, NetTypeOK, CentralTypeOK, FateTypeOK, MaybeBatch,
       Records, Known, Sent, Held, RangeOf

(* Only BuildBatch makes a batch nobody knew. *)
LEMMA KnownStep ==
    ASSUME TypeInv, savedSequence <= nextSequence, [Next]_vars
    PROVE  \/ Known' \subseteq Known /\ SequenceMoves
           \/ BuildBatch /\ Known' \subseteq Known \cup {NextBatch}
<1>1. CASE BuildBatch
  <2>1. Held' \subseteq Held \cup {NextBatch}
    BY <1>1 DEF BuildBatch, HasBatch, SaveSequence, SendsAtOnce, Held
  <2>2. Sent' \subseteq Sent \cup {NextBatch}
    BY <1>1
       DEF BuildBatch, HasBatch, SaveSequence, SendsAtOnce, SendLive, Sent,
           netVars, centralVars
  <2> QED
    BY <1>1, <2>1, <2>2
       DEF BuildBatch, HasBatch, SaveSequence, SendsAtOnce, Known,
           centralVars, registryVars, fateVars
<1>2. CASE FlushSends
  <2>1. Head(buffer) \in Held
    BY <1>2, BufferFacts DEF TypeInv, TypeOK, FlushSends, Held, RangeOf,
                             AgentTypeOK
  <2>2. Held' \subseteq Held
    BY <1>2, <2>1 DEF FlushSends, Held
  <2>3. Sent' \subseteq Sent \cup Held
    BY <1>2, <2>1 DEF FlushSends, SendLive, Sent, centralVars
  <2> QED
    BY <1>2, <2>2, <2>3 DEF FlushSends, Known, centralVars, registryVars,
                            fateVars, SequenceMoves
<1>3. CASE ~ BuildBatch /\ ~ FlushSends
  <2>1. Moves
    BY <1>3, MovesStep
  <2>2. {registry.batch, registryFile.batch}' \ {NoBatch}
            \subseteq {registry.batch, registryFile.batch} \cup Sent
    BY <2>1 DEF Moves, RecordsMove, NewRecord, Sent
  <2> QED
    BY <2>1, <2>2 DEF Moves, Known
<1> QED
  BY <1>1, <1>2, <1>3

(* A new batch takes a number above all that are known.                    *)
LEMMA IssuedStep ==
    ASSUME DeliveryInv, [Next]_vars
    PROVE  IssuedOnce' /\ savedSequence' <= nextSequence'
<1> USE DEF DeliveryInv
<1>1. CASE Known' \subseteq Known /\ SequenceMoves
  BY <1>1 DEF IssuedOnce, SequenceMoves
<1>2. CASE BuildBatch /\ Known' \subseteq Known \cup {NextBatch}
  <2>1. NextBatch.seq = nextSequence /\ nextSequence \in Nat
        /\ savedSequence \in Nat
    BY <1>2, BatchFacts
       DEF TypeInv, TypeOK, AgentTypeOK, BuildBatch, HasBatch, SaveSequence,
           SendsAtOnce
  <2>2. savedSequence' = nextSequence + 1 /\ nextSequence' = nextSequence + 1
    BY <1>2 DEF BuildBatch, HasBatch, SaveSequence, SendsAtOnce
  <2>3. \A b \in Known : b.seq \in Nat /\ b.seq < nextSequence
    BY <2>1, KnownTypes, BatchFields DEF TypeInv, IssuedOnce
  <2>4. ASSUME NEW b \in Known \cup {NextBatch}, NEW c \in Known \cup {NextBatch},
               b.seq = c.seq
        PROVE  b = c
    BY <2>1, <2>3, <2>4 DEF IssuedOnce
  <2>5. \A b \in Known \cup {NextBatch} : b.seq < nextSequence + 1
    BY <2>1, <2>3
  <2> QED
    BY <1>2, <2>1, <2>2, <2>4, <2>5 DEF IssuedOnce
<1> QED
  BY <1>1, <1>2, KnownStep

(* Numbers of what is sent and recorded stay at or below what is held.     *)
LEMMA OrderStep ==
    ASSUME DeliveryInv, [Next]_vars
    PROVE  OrderOK'
<1> USE DEF DeliveryInv
<1>t. TypeOK /\ AgentTypeOK /\ CentralTypeOK /\ PositionOK
  BY DEF TypeInv, TypeOK
<1>h. Held \subseteq Batches /\ Sent \subseteq Batches
      /\ RangeOf(buffer) \subseteq Held
  BY <1>t DEF TypeOK, AgentTypeOK, NetTypeOK, CentralTypeOK, MaybeBatch,
              Sent, Held, RangeOf
<1>r. /\ registry.seq \in Nat /\ registryFile.seq \in Nat
      /\ registry.batch = NoBatch \/ registry.batch \in Known
      /\ registryFile.batch = NoBatch \/ registryFile.batch \in Known
  BY <1>t DEF CentralTypeOK, Records, Known
<1>1. CASE BuildBatch
  <2>1. /\ NextBatch \in Batches /\ NextBatch.seq = nextSequence
        /\ savedSequence <= nextSequence
        /\ savedSequence \in Nat /\ nextSequence \in Nat
    BY <1>1, <1>t, BatchFacts
       DEF BuildBatch, HasBatch, SaveSequence, SendsAtOnce, AgentTypeOK
  <2>2. \A b \in Known : b.seq \in Nat /\ b.seq < nextSequence
    BY <1>t, <2>1, KnownTypes, BatchFields DEF IssuedOnce
  <2>3. Sent \subseteq Known /\ RangeOf(buffer) \subseteq Known
    BY <1>h, NoBatchAssumption DEF Known
  <2>4. registry.seq <= nextSequence /\ registryFile.seq <= nextSequence
    BY <1>r, <2>1, <2>2 DEF OrderOK, RecordOK
  <2>5. current = NoBatch
    BY <1>1, <1>t
       DEF BuildBatch, HasBatch, SaveSequence, SendsAtOnce, PositionOK
  <2>6. Held' = RangeOf(buffer) \cup {NextBatch}
        /\ Sent' \subseteq Sent \cup {NextBatch}
        /\ UNCHANGED <<buffer, registry, registryFile>>
        /\ current' = NextBatch
        /\ RangeOf(buffer)' = RangeOf(buffer)
    BY <1>1, <2>1, NoBatchAssumption
       DEF BuildBatch, HasBatch, SaveSequence, SendsAtOnce, Held, Sent,
           SendLive, netVars, centralVars, registryVars
  <2>6a. /\ pc' = "enqueue" => Sent' = Sent
         /\ pc' # "enqueue" => RangeOf(buffer) = {}
    BY <1>1
       DEF BuildBatch, HasBatch, SaveSequence, SendsAtOnce, Sent, netVars,
           centralVars, RangeOf
  <2>7. \A b \in RangeOf(buffer) :
            /\ b.seq < nextSequence
            /\ \A s \in Sent : s.seq <= b.seq
            /\ registry.seq <= b.seq /\ registryFile.seq <= b.seq
    BY <1>h, <2>2, <2>3 DEF OrderOK
  <2>8. \A s \in Sent : s.seq <= nextSequence
    BY <2>1, <2>2, <2>3
  <2>9. \A h \in Held' :
            /\ \A s \in Sent' : s.seq <= h.seq
            /\ registry'.seq <= h.seq /\ registryFile'.seq <= h.seq
    BY <2>1, <2>4, <2>6, <2>6a, <2>7, <2>8
  <2>10. pc' = "enqueue" => \A b \in RangeOf(buffer)' : b.seq < current'.seq
    BY <2>1, <2>6, <2>7
  <2> QED
    BY <2>6, <2>9, <2>10 DEF OrderOK, RecordOK
<1>2. CASE FlushSends
  <2>1. buffer # <<>> /\ current = NoBatch
    BY <1>2, <1>t DEF FlushSends, PositionOK
  <2>2. \A b \in RangeOf(buffer) : Head(buffer).seq <= b.seq
    <3> SUFFICES ASSUME NEW i \in 1 .. Len(buffer)
                 PROVE  buffer[1].seq <= buffer[i].seq
      BY <2>1, <1>t, BufferFacts DEF RangeOf
    <3>1. buffer[i].seq \in Nat /\ buffer[1].seq \in Nat
      BY <1>t, BatchFields DEF AgentTypeOK
    <3> QED
      BY <1>t, <3>1 DEF OrderOK, AgentTypeOK
  <2>3. Head(buffer) \in RangeOf(buffer)
    BY <2>1, <1>t DEF RangeOf, AgentTypeOK
  <2>4. UNCHANGED <<buffer, registry, registryFile>> /\ pc' # "enqueue"
    BY <1>2 DEF FlushSends, centralVars, registryVars
  <2>5. Held' \subseteq RangeOf(buffer)
    BY <1>2, <2>3 DEF FlushSends, Held
  <2>6. Sent' \subseteq Sent \cup {Head(buffer)}
    BY <1>2 DEF FlushSends, Sent, SendLive, centralVars
  <2> QED
    BY <1>h, <2>2, <2>4, <2>5, <2>6 DEF OrderOK, RecordOK
<1>3. CASE ~ BuildBatch /\ ~ FlushSends
  <2>1. Moves
    BY <1>3, MovesStep
  <2>2. \A i, j \in DOMAIN buffer' : i < j => buffer'[i].seq < buffer'[j].seq
    <3>1. CASE buffer' = buffer
      BY <3>1 DEF OrderOK
    <3>2. CASE buffer # <<>> /\ buffer' = Tail(buffer)
      BY <3>2, <1>t, BufferFacts DEF OrderOK, AgentTypeOK
    <3>3. CASE pc = "enqueue" /\ buffer' = Append(buffer, current)
      <4>1. \A i \in DOMAIN buffer : buffer[i].seq < current.seq
        BY <3>3 DEF OrderOK, RangeOf
      <4>2. /\ DOMAIN buffer' = 1 .. Len(buffer) + 1
            /\ buffer'[Len(buffer) + 1] = current
            /\ \A i \in DOMAIN buffer : buffer'[i] = buffer[i]
            /\ DOMAIN buffer = 1 .. Len(buffer) /\ Len(buffer) \in Nat
        BY <3>3, <1>t DEF AgentTypeOK
      <4> QED
        BY <4>1, <4>2 DEF OrderOK
    <3> QED
      BY <2>1, <3>1, <3>2, <3>3 DEF Moves, BufferMoves
  <2>3. pc' = "enqueue" => \A b \in RangeOf(buffer)' : b.seq < current'.seq
    <3> SUFFICES ASSUME pc' = "enqueue", buffer' # <<>>
                 PROVE  \A b \in RangeOf(buffer)' : b.seq < current'.seq
      BY DEF RangeOf
    <3>1. pc = "enqueue" /\ current' = current /\ Len(buffer') <= Len(buffer)
      BY <2>1 DEF Moves, BufferMoves
    <3>2. RangeOf(buffer)' \subseteq RangeOf(buffer)
      BY <2>1, <3>1, <1>t, BufferFacts
         DEF Moves, BufferMoves, RangeOf, AgentTypeOK
    <3> QED
      BY <3>1, <3>2 DEF OrderOK
  <2>4. RecordOK(registry)' /\ RecordOK(registryFile)'
    <3>1. handling # NoBatch => RecordOK(NewRecord)
      BY <1>t, HandlingFacts, NoBatchAssumption DEF RecordOK, NewRecord
    <3> QED
      BY <2>1, <3>1 DEF Moves, RecordsMove, OrderOK, RecordOK
  <2>5. \A h \in Held : registry'.seq <= h.seq /\ registryFile'.seq <= h.seq
    <3>1. handling # NoBatch => \A h \in Held : NewRecord.seq <= h.seq
      BY DEF OrderOK, NewRecord, Sent
    <3> QED
      BY <2>1, <3>1 DEF Moves, RecordsMove, OrderOK
  <2>6. \A h \in Held' :
            /\ \A s \in Sent' : s.seq <= h.seq
            /\ registry'.seq <= h.seq /\ registryFile'.seq <= h.seq
    BY <2>1, <2>5 DEF Moves, OrderOK
  <2> QED
    BY <2>2, <2>3, <2>4, <2>6 DEF OrderOK
<1> QED
  BY <1>1, <1>2, <1>3

(* The service answers the agent with a conflict only for a sequence it    *)
(* recorded after a batch that the agent still holds, and there is none.   *)
LEMMA ConflictStep ==
    ASSUME DeliveryInv, reply # "conflict", [Next]_vars
    PROVE  reply' # "conflict"
<1> USE DEF DeliveryInv, TypeInv, TypeOK
<1>1. ASSUME NEW request \in requests, AnswerAtOnce(request)
      PROVE  reply' # "conflict"
  <2> DEFINE batch == request.batch
  <2> SUFFICES ASSUME request.live, ~ IsDuplicate(batch), IsBehind(batch)
               PROVE  FALSE
    BY <1>1 DEF AnswerAtOnce, Answer
  <2>1. batch = current /\ current \in Batches /\ current \in Held
    BY NoBatchAssumption
       DEF LiveOK, Waiting, PositionOK, AgentTypeOK, MaybeBatch, Held
  <2>2. registry.seq = batch.seq /\ registry.seq \in Nat \ {0}
    BY <2>1, BatchFields DEF OrderOK, IsBehind, CentralTypeOK, Records
  <2>3. registry.batch # NoBatch /\ registry.batch.seq = batch.seq
    BY <2>2 DEF OrderOK, RecordOK
  <2>4. registry.batch \in Known /\ batch \in Known
    BY <2>1, <2>3, NoBatchAssumption DEF Known
  <2> QED
    BY <2>3, <2>4 DEF IssuedOnce, IsDuplicate
<1>2. MainThread => reply' # "conflict"
  BY DEF MainThread, StartTurn, LeaveLoop, CollectorFlushed, Drained,
         BuildBatch, HasBatch, SaveSequence, SendsAtOnce, BuildFails, HasBatch,
         DirectAcknowledged, DirectRejected, DirectFailed, EvictOldest, Store,
         StoreFails, PutBack, FlushEnds, FlushSends, FlushAcknowledged,
         FlushRejected, FlushFailed, SendLive, netVars
<1>3. ASSUME NEW request \in requests,
             AnswerNotAudited(request) \/ LimitRate(request) \/ Admit(request)
      PROVE  reply' # "conflict"
  BY <1>3 DEF AnswerNotAudited, LimitRate, Admit, Answer
<1>4. IngestState \/ RefuseBatch \/ Accept \/ SaveRaises \/ SaveRegistry
          \/ RestartCentral => reply' # "conflict"
  BY DEF IngestState, TakeState, RefuseBatch, Accept, SaveRecord, SaveRaises,
         SaveRegistry,
         RestartCentral, Answer, netVars
<1>5. ASSUME NEW status \in {"invalid", "transient"}, InferenceRaises(status)
      PROVE  reply' # "conflict"
  BY <1>5 DEF InferenceRaises, Answer
<1>6. ASSUME NEW accepted \in BOOLEAN, AuditRaises(accepted)
      PROVE  reply' # "conflict"
  BY <1>6 DEF AuditRaises, SaveRecord, Answer
<1>7. \/ Capture \/ BackoffEnds \/ Crash \/ StartAgent \/ TimeOut
      \/ \E request \in requests : LoseRequest(request)
      => reply' # "conflict"
  BY DEF Capture, FlowEnds, QueueState, QueueFull, BackoffEnds, Crash,
         StartAgent, TimeOut, LoseRequest, netVars
<1>8. CASE UNCHANGED vars
  BY <1>8 DEF vars, netVars
<1> QED
  BY <1>1, <1>2, <1>3, <1>4, <1>5, <1>6, <1>7, <1>8 DEF Next, Central
-----------------------------------------------------------------------------
LEMMA InitInv == Init => DeliveryInv
<1> SUFFICES ASSUME Init PROVE DeliveryInv
  OBVIOUS
<1>1. RuntimeInvariant
  BY BufferAssumption
     DEF Init, RuntimeInit, RuntimeInvariant, RuntimeTypeOK,
         HistoryIsContiguous, Contiguous, HistoryLengthIsHonest,
         ForecastNeedsHistory
<1>2. TypeOK
  <2>1. AgentTypeOK
    <3>1. Len(pending) <= PendingLimit /\ Len(buffer) <= MaxBatches
      BY DeliveryAssumption, LimitFacts DEF Init
    <3>2. pending \in Seq(Slots) /\ buffer \in Seq(Batches)
      BY DEF Init
    <3>3. backoff \in BOOLEAN
      BY Zenon DEF Init
    <3>4. /\ pc \in Position /\ current \in MaybeBatch
          /\ nextSequence \in Nat \ {0} /\ savedSequence \in Nat \ {0}
      BY DEF Init, MaybeBatch, Position
    <3> QED
      BY <3>1, <3>2, <3>3, <3>4 DEF AgentTypeOK
  <2>2. CaptureTypeOK /\ NetTypeOK /\ FateTypeOK /\ faultsLeft \in Nat
    BY DeliveryAssumption, CollectorTypeInit
       DEF Init, CaptureTypeOK, NetTypeOK, FateTypeOK, Slots
  <2>3. NoRecord \in Records
    BY DEF NoRecord, Records, MaybeBatch
  <2>4. CentralTypeOK
    BY <1>1, <2>3 DEF Init, CentralTypeOK, RuntimeInvariant
  <2> QED
    BY <2>1, <2>2, <2>4 DEF TypeOK
<1>3. PositionOK /\ LiveOK
  BY DEF Init, PositionOK, LiveOK
<1>4. Held = {} /\ Sent = {} /\ Known = {}
  BY DEF Init, Held, Sent, Known, NoRecord, RangeOf
<1>5. OrderOK
  BY <1>4 DEF Init, OrderOK, RecordOK, NoRecord
<1> QED
  BY <1>1, <1>2, <1>3, <1>4, <1>5 DEF Init, DeliveryInv, TypeInv, IssuedOnce

LEMMA DeliveryInvariant == Spec => []DeliveryInv
<1>1. DeliveryInv /\ [Next]_vars => DeliveryInv'
  <2> SUFFICES ASSUME DeliveryInv, [Next]_vars
               PROVE  DeliveryInv'
    OBVIOUS
  <2>1. TypeInv'
    BY PositionStep, TypeStep DEF DeliveryInv, TypeInv
  <2>2. LiveOK'
    BY LiveStep DEF DeliveryInv
  <2> QED
    BY <2>1, <2>2, IssuedStep, OrderStep DEF DeliveryInv
<1> QED
  BY <1>1, InitInv, PTL DEF Spec

(* Types, and the bounds of the two queues: the deque and the disk buffer. *)
THEOREM DeliveryTypeCorrect == Spec => []TypeOK
<1>1. DeliveryInv => TypeOK
  BY DEF DeliveryInv, TypeInv
<1> QED
  BY <1>1, DeliveryInvariant, PTL

(* No sequence number ever names two envelopes, whatever crashes, and      *)
(* every number in use is below the one in the configuration file.         *)
THEOREM SequencesIssuedOnce == Spec => []IssuedOnce
<1>1. DeliveryInv => IssuedOnce
  BY DEF DeliveryInv
<1> QED
  BY <1>1, DeliveryInvariant, PTL

(* The agent never meets a sequence conflict, whatever is lost, delayed,   *)
(* evicted, put back, half recorded or restarted, under either policy.     *)
THEOREM NeverConflicts == Spec => []NoSpuriousConflict
<1>1. Init => NoSpuriousConflict
  BY DEF Init, NoSpuriousConflict
<1>2. DeliveryInv /\ NoSpuriousConflict /\ [Next]_vars => NoSpuriousConflict'
  BY ConflictStep DEF NoSpuriousConflict
<1> QED
  BY <1>1, <1>2, DeliveryInvariant, PTL DEF Spec

-----------------------------------------------------------------------------
(***************************************************************************)
(* What becomes of the states that telemetry delivery carries: their       *)
(* order, their fate, and the promise of OrderedDelivery.  The inductive   *)
(* invariants build on DeliveryInv; each is proved from the few ways a     *)
(* step can move states (QueueMoves) and the few things it can do to the   *)
(* service's records (ServiceMoves).                                       *)
(***************************************************************************)

(* What the deployment must grant for some of the theorems. *)

(* A batch of the configured size fits the configured buffer, so the       *)
(* buffer never refuses a batch that was sent before.                      *)
BatchFits == BatchSize <= MaxBytes

(* An agent is not back within the window its predecessor died in.         *)
RestartsLater == RestartGap >= 1

(* A restart of the service never finds a registry file that a failed      *)
(* write left behind the registry in memory.                               *)
RegistrySurvives == ~ ({"registry_save", "central_restart"} \subseteq Faults)

(* The handler does not fail between the first ingested state and the      *)
(* record of the batch.                                                    *)
HandlerCompletes == Faults \cap {"inference", "audit"} = {}

(* Every window is one of the instance; what is queued was captured, and   *)
(* every batch is a non-empty part of what was.                            *)
ContentOK ==
    /\ windows \subseteq 1 .. MaxSlot /\ emitting \subseteq 1 .. MaxSlot
    /\ captured \subseteq 1 .. MaxSlot
    /\ RangeOf(pending) \subseteq captured
    /\ \A b \in Known : /\ Size(b) \in 1 .. BatchSize
                        /\ RangeOf(b.states) \subseteq captured

ContentInv == DeliveryInv /\ ContentOK

(* An answer is for the batch the agent waits about, and an                *)
(* acknowledgement means that its states are recorded.                     *)
AnswerOK ==
    /\ reply # "none" => Waiting
    /\ reply = "ack" => RangeOf(current.states) \subseteq RangeOf(recorded)
    /\ \A record \in {registry, registryFile} :
           record.batch # NoBatch =>
               RangeOf(record.batch.states) \subseteq RangeOf(recorded)

FateInv == ContentInv /\ AnswerOK /\ CapturedAccounted

(* The handler works on a batch that is well formed and newer than the     *)
(* registry's record.                                                      *)
HandlingOK ==
    handling # NoBatch =>
        /\ WellFormed(handling.batch) /\ registry.seq < handling.batch.seq
        /\ handling.next <= Size(handling.batch) + 1

(* What is acknowledged is not newer than the record in memory; without a  *)
(* failed write the record in the file is the same.                        *)
AckOK ==
    /\ reply # "none" => Waiting
    /\ reply = "ack" => current.seq <= registry.seq
    /\ \A n \in acked : n <= registry.seq
    /\ "registry_save" \notin Faults => registryFile = registry

AckInv == DeliveryInv /\ HandlingOK /\ AckOK

Answered == acked \cup (IF reply = "ack" THEN {current.seq} ELSE {})

(* What is acknowledged is older than all that the agent holds, and the    *)
(* registry in memory knows it for as long as it is under way to it.       *)
FinalOK ==
    /\ reply # "none" => Waiting
    /\ \A n \in acked : n < savedSequence /\ \A h \in Held : n < h.seq
    /\ \A b \in Sent : b.seq \in Answered => b.seq <= registry.seq

FinalInv == DeliveryInv /\ HandlingOK /\ FinalOK

(* Emission only goes forward, also across restarts of the agent.          *)
ClockOK ==
    /\ PromptInv
    /\ lastWindow < clock + RestartGap
    /\ \A slot \in captured : slot <= lastWindow

(* Whatever is known, queued or both is in the order of capture; a batch   *)
(* that may still be put back was never sent.                              *)
StatesInOrder ==
    /\ Ascending(pending)
    /\ \A b \in Known : Ascending(b.states) /\ Precedes(b.states, pending)
    /\ \A b, c \in Known : b.seq < c.seq => Precedes(b.states, c.states)
    /\ pc = "enqueue" /\ buffer # <<>> =>
           \A b \in Known : b # current => b.seq < current.seq
    /\ pc = "enqueue" /\ buffer # <<>> =>
           current \notin Sent \cup rejected \cup {registry.batch, registryFile.batch}

OrderInv == ContentInv /\ HandlingOK /\ ClockOK /\ StatesInOrder

(* The last recorded state belongs to the batch of the registry's record.  *)
RecordedOK ==
    recorded # <<>> =>
        /\ registry.batch # NoBatch
        /\ Newest(recorded) <= Newest(registry.batch.states)

PromiseInv == OrderInv /\ AckInv /\ RecordedOK

(* What is recorded is in the runtime's history or older, and the states   *)
(* of a batch under way are newer than all that is recorded.               *)
OnceOK ==
    /\ RecordedOnce
    /\ recorded # <<>> => states # <<>> /\ Newest(recorded) <= Newest(states)
    /\ handling # NoBatch /\ handling.next > 1 =>
           /\ states # <<>>
           /\ Newest(states) = handling.batch.states[handling.next - 1]
           /\ recorded # <<>> => Newest(recorded) < handling.batch.states[1]

OnceInv == ContentInv /\ HandlingOK /\ OnceOK

(* The runtime's history ends before the next state it is given; only a    *)
(* malformed batch is refused.                                             *)
HistoryOK ==
    states # <<>> =>
        IF handling # NoBatch /\ handling.next > 1
        THEN Newest(states) = handling.batch.states[handling.next - 1]
        ELSE /\ registry.batch # NoBatch
             /\ Newest(states) <= Newest(registry.batch.states)

RefusalOK ==
    /\ reply # "none" => Waiting
    /\ reply = "invalid" => ~ WellFormed(current)

RefusalInv ==
    OrderInv /\ NoSpuriousConflict /\ HistoryOK /\ RefusalOK
    /\ OnlyMalformedRejected
-----------------------------------------------------------------------------
(***************************************************************************)
(* What a step can do.                                                     *)
(***************************************************************************)
QueueMoves ==
    \/ \E slot \in emitting : QueueState(slot)
    \/ BuildBatch
    \/ PutBack
    \/ /\ captured' = captured
       /\ \/ pending' = pending
          \/ pending' = <<>>
          \/ pending # <<>> /\ pending' = RestOfPending

RecordsBatch ==
    /\ Ingested
    /\ handling' = NoBatch
    /\ registry' = NewRecord /\ recorded' = recorded \o handling.batch.states
    /\ \/ registryFile' = NewRecord
       \/ "registry_save" \in Faults /\ registryFile' = registryFile

ServiceMoves ==
    \/ /\ UNCHANGED <<registry, registryFile, recorded>>
       /\ \/ /\ handling' = NoBatch
             /\ handling = NoBatch \/ RefuseBatch \/ ~ HandlerCompletes
          \/ /\ handling # NoBatch /\ handling' # NoBatch
             /\ handling'.batch = handling.batch
             /\ handling'.next = handling.next
    \/ \E request \in requests : Admit(request)
    \/ IngestState
    \/ RecordsBatch
    \/ SaveRegistry
    \/ RestartCentral

AnswerMoves ==
    \/ reply' = "none"
    \/ /\ Waiting /\ UNCHANGED <<pc, current>>
       /\ \/ reply' = reply
          \/ reply' = "transient"
          \/ reply' = "conflict"
          \/ /\ reply' = "ack" /\ registry.batch = current
             /\ UNCHANGED <<registry, registryFile, recorded>>
          \/ /\ reply' = "ack" /\ RecordsBatch /\ handling.batch = current
          \/ reply' = "invalid" /\ ~ WellFormed(current)
          \/ /\ reply' = "invalid" /\ handling # NoBatch /\ handling.batch = current
             /\ RefuseBatch \/ InferenceRaises("invalid")

VerdictMoves ==
    /\ \/ acked' = acked
       \/ Waiting /\ reply = "ack" /\ acked' = acked \cup {current.seq}
    /\ \/ rejected' = rejected
       \/ Waiting /\ reply \in Permanent /\ rejected' = rejected \cup {current}

LEMMA QueueStep == ASSUME [Next]_vars PROVE QueueMoves
<1>1. Capture => QueueMoves
  BY DEF Capture, FlowEnds, QueueFull, agentVars, QueueMoves
<1>2. MainThread => QueueMoves
  BY DEF MainThread, StartTurn, LeaveLoop, CollectorFlushed, Drained,
         BuildFails, HasBatch, DirectAcknowledged, DirectRejected,
         DirectFailed, EvictOldest, Store, StoreFails, FlushEnds, FlushSends,
         FlushAcknowledged, FlushRejected, FlushFailed, EndTurn, captureVars,
         QueueMoves
<1>3. BackoffEnds \/ Crash \/ StartAgent \/ TimeOut
          \/ (\E request \in requests : LoseRequest(request)) => QueueMoves
  BY DEF BackoffEnds, Crash, StartAgent, TimeOut, LoseRequest, agentVars,
         captureVars, QueueMoves
<1>4. Central => UNCHANGED <<agentVars, captureVars>>
  BY DEF Central, AnswerAtOnce, AnswerNotAudited, LimitRate, Admit,
         IngestState, TakeState, RefuseBatch, InferenceRaises, Accept, SaveRecord,
         SaveRaises, AuditRaises, SaveRegistry, RestartCentral
<1>5. UNCHANGED vars => UNCHANGED <<agentVars, captureVars>>
  BY DEF vars
<1>6. UNCHANGED <<agentVars, captureVars>> => QueueMoves
  BY DEF agentVars, captureVars, QueueMoves
<1> QED
  BY <1>1, <1>2, <1>3, <1>4, <1>5, <1>6 DEF Next

LEMMA ServiceStep == ASSUME TypeInv, [Next]_vars PROVE ServiceMoves
<1> USE NoBatchAssumption DEF TypeInv, TypeOK, CentralTypeOK
<1>0. UNCHANGED <<registry, registryFile, recorded, handling>> => ServiceMoves
  BY DEF ServiceMoves
<1>1. Capture \/ BackoffEnds \/ StartAgent \/ UNCHANGED vars
          \/ (\E request \in requests : LoseRequest(request)) => ServiceMoves
  BY <1>0 DEF Capture, FlowEnds, QueueState, QueueFull, BackoffEnds, StartAgent,
              LoseRequest, vars, centralVars, registryVars, fateVars
<1>2. MainThread => UNCHANGED <<centralVars, recorded>>
  BY DEF MainThread, StartTurn, LeaveLoop, CollectorFlushed, Drained,
         BuildBatch, HasBatch, SaveSequence, SendsAtOnce, BuildFails,
         DirectAcknowledged, DirectRejected, DirectFailed, EvictOldest,
         CountDropped, Store, StoreFails, PutBack, FlushEnds, FlushSends,
         FlushAcknowledged, FlushRejected, FlushFailed, fateVars
<1>3. CASE Crash \/ TimeOut
  <2>1. UNCHANGED <<registry, registryFile, recorded>>
        /\ handling' = IF handling = NoBatch THEN NoBatch
                       ELSE [handling EXCEPT !.live = FALSE]
    BY <1>3 DEF Crash, TimeOut, registryVars, fateVars
  <2>2. CASE handling = NoBatch
    BY <2>1, <2>2 DEF ServiceMoves
  <2>3. CASE handling # NoBatch
    BY <2>1, <2>3 DEF ServiceMoves
  <2> QED
    BY <2>2, <2>3
<1>4. ASSUME NEW request \in requests,
             \/ AnswerAtOnce(request) \/ AnswerNotAudited(request)
             \/ LimitRate(request)
      PROVE  ServiceMoves
  BY <1>0, <1>4 DEF AnswerAtOnce, AnswerNotAudited, LimitRate, centralVars,
                    registryVars, fateVars
<1>5. ASSUME NEW status \in {"invalid", "transient"},
             RefuseBatch \/ InferenceRaises(status)
      PROVE  ServiceMoves
  <2>1. UNCHANGED <<registry, registryFile, recorded>> /\ handling' = NoBatch
    BY <1>5 DEF RefuseBatch, InferenceRaises, registryVars, fateVars
  <2>2. InferenceRaises(status) => ~ HandlerCompletes
    BY DEF InferenceRaises, Fault, HandlerCompletes
  <2> QED
    BY <1>5, <2>1, <2>2 DEF ServiceMoves
<1>6. Accept \/ SaveRaises => RecordsBatch
  BY DEF Accept, SaveRecord, SaveRaises, Fault, RecordsBatch
<1>7. ASSUME NEW accepted \in BOOLEAN, AuditRaises(accepted)
      PROVE  ServiceMoves
  <2>1. CASE accepted
    <3>1. registry' = NewRecord /\ registryFile' = NewRecord
          /\ recorded' = recorded \o handling.batch.states
      BY <1>7, <2>1, Zenon DEF AuditRaises, SaveRecord
    <3> QED
      BY <1>7, <3>1 DEF AuditRaises, RecordsBatch, ServiceMoves
  <2>2. CASE ~ accepted
    <3>1. UNCHANGED <<registryVars, recorded>>
      BY <1>7, <2>2, Zenon DEF AuditRaises
    <3> QED
      BY <1>7, <3>1
         DEF AuditRaises, Fault, HandlerCompletes, registryVars, ServiceMoves
  <2> QED
    BY <2>1, <2>2
<1> QED
  BY <1>0, <1>1, <1>2, <1>3, <1>4, <1>5, <1>6, <1>7
     DEF Next, Central, ServiceMoves, centralVars, registryVars

LEMMA AnswerStep ==
    ASSUME TypeInv, LiveOK, reply # "none" => Waiting, [Next]_vars
    PROVE  AnswerMoves
<1> USE NoBatchAssumption DEF TypeInv, TypeOK, CentralTypeOK
<1>0. UNCHANGED <<pc, current, reply>> => AnswerMoves
  BY DEF AnswerMoves
<1>A. UNCHANGED <<agentVars, reply>> => AnswerMoves
  BY <1>0 DEF agentVars
<1>1. Capture \/ BackoffEnds \/ Crash \/ StartAgent \/ UNCHANGED vars => AnswerMoves
  BY <1>0
     DEF Capture, FlowEnds, QueueState, QueueFull, BackoffEnds, Crash,
         StartAgent, Waiting, AnswerMoves, vars, agentVars, netVars
<1>2. MainThread => AnswerMoves
  BY <1>0
     DEF MainThread, StartTurn, LeaveLoop, CollectorFlushed, Drained,
         BuildBatch, HasBatch, SaveSequence, SendsAtOnce, BuildFails,
         DirectAcknowledged, DirectRejected, DirectFailed, EvictOldest,
         Store, StoreFails, PutBack, FlushEnds, FlushSends,
         FlushAcknowledged, FlushRejected, FlushFailed, EndTurn, netVars,
         SendLive, Waiting, AnswerMoves
<1>3. TimeOut \/ (\E request \in requests : LoseRequest(request)) => AnswerMoves
  BY <1>0 DEF TimeOut, LoseRequest, LiveOK, agentVars, AnswerMoves
<1>4. ASSUME NEW request \in requests
      PROVE  /\ AnswerAtOnce(request) => AnswerMoves
             /\ AnswerNotAudited(request) \/ LimitRate(request) => AnswerMoves
             /\ Admit(request) => AnswerMoves
  <2>1. AnswerAtOnce(request) => AnswerMoves
    BY <1>A DEF AnswerAtOnce, IsDuplicate, Answer, LiveOK, agentVars, centralVars,
                registryVars, fateVars, AnswerMoves
  <2>2. AnswerNotAudited(request) \/ LimitRate(request) => AnswerMoves
    BY <1>A DEF AnswerNotAudited, LimitRate, Answer, LiveOK, agentVars,
                AnswerMoves
  <2> QED
    BY <1>A, <2>1, <2>2 DEF Admit
<1>5. IngestState \/ SaveRegistry => AnswerMoves
  BY <1>A DEF IngestState, TakeState, SaveRegistry, netVars
<1>6. RefuseBatch => AnswerMoves
  BY <1>A DEF RefuseBatch, Ingesting, Answer, LiveOK, agentVars, AnswerMoves
<1>7. ASSUME NEW status \in {"invalid", "transient"}, InferenceRaises(status)
      PROVE  AnswerMoves
  BY <1>A, <1>7
     DEF InferenceRaises, Ingesting, Answer, LiveOK, agentVars, AnswerMoves
<1>8. Accept => AnswerMoves
  BY <1>A DEF Accept, SaveRecord, RecordsBatch, Ingested, Answer, LiveOK,
              agentVars, AnswerMoves
<1>9. SaveRaises \/ (\E accepted \in BOOLEAN : AuditRaises(accepted))
          => AnswerMoves
  BY <1>A DEF SaveRaises, AuditRaises, Ingested, Answer, LiveOK, agentVars,
              AnswerMoves
<1>10. RestartCentral => AnswerMoves
  BY <1>A DEF RestartCentral, agentVars, AnswerMoves
<1> QED
  BY <1>1, <1>2, <1>3, <1>4, <1>5, <1>6, <1>7, <1>8, <1>9, <1>10
     DEF Next, Central

LEMMA VerdictStep == ASSUME [Next]_vars PROVE VerdictMoves
<1>0. UNCHANGED <<acked, rejected>> => VerdictMoves
  BY DEF VerdictMoves
<1>1. Capture \/ BackoffEnds \/ Crash \/ StartAgent \/ TimeOut \/ UNCHANGED vars
          \/ (\E request \in requests : LoseRequest(request))
          => UNCHANGED <<acked, rejected>>
  BY DEF Capture, FlowEnds, QueueState, QueueFull, BackoffEnds, Crash,
         StartAgent, TimeOut, LoseRequest, vars, fateVars
<1>2. MainThread => VerdictMoves
  BY DEF MainThread, StartTurn, LeaveLoop, CollectorFlushed, Drained,
         BuildBatch, HasBatch, SaveSequence, SendsAtOnce, BuildFails,
         DirectAcknowledged, DirectRejected, DirectFailed, Reject, EvictOldest,
         CountDropped, Store, StoreFails, PutBack, FlushEnds, FlushSends,
         FlushAcknowledged, FlushRejected, FlushFailed, EndTurn, fateVars,
         Waiting, VerdictMoves
<1>3. Central => UNCHANGED <<acked, rejected>>
  BY DEF Central, AnswerAtOnce, AnswerNotAudited, LimitRate, Admit, fateVars,
         IngestState, TakeState, RefuseBatch, InferenceRaises, Accept,
         SaveRecord, SaveRaises, AuditRaises, SaveRegistry, RestartCentral
<1> QED
  BY <1>0, <1>1, <1>2, <1>3 DEF Next

(* The collector sees only its own actions; it is refused an emission only *)
(* by a full queue.                                                        *)
LEMMA CollectorStep ==
    ASSUME [Next]_vars
    PROVE  /\ [CollectorNext]_collectorVars
           /\ ~ QueueFull => [PromptNext]_collectorVars
<1>1. Capture => /\ [CollectorNext]_collectorVars
                 /\ ~ QueueFull => [PromptNext]_collectorVars
  BY DEF Capture, FlowEnds, QueueState, QueueFull, CollectorNext, PromptNext
<1>2. (\E active \in ActiveWindows : LeaveLoop(active)) \/ StartAgent
          => PromptNext
  BY DEF LeaveLoop, StartAgent, PromptNext
<1>3. CollectorFlushed \/ MainThread \/ BackoffEnds \/ Crash \/ TimeOut
          \/ Central \/ UNCHANGED vars
          \/ (\E request \in requests : LoseRequest(request))
      => \/ UNCHANGED collectorVars
         \/ \E active \in ActiveWindows : LeaveLoop(active)
  BY DEF MainThread, StartTurn, CollectorFlushed, Drained,
         BuildBatch, HasBatch, SaveSequence, SendsAtOnce, BuildFails,
         DirectAcknowledged, DirectRejected, DirectFailed, EvictOldest,
         CountDropped, Store, StoreFails, PutBack, FlushEnds, FlushSends,
         FlushAcknowledged, FlushRejected, FlushFailed, BackoffEnds, Crash,
         TimeOut, LoseRequest, Central, AnswerAtOnce, AnswerNotAudited,
         LimitRate, Admit, IngestState, TakeState, RefuseBatch, InferenceRaises,
         Accept, SaveRecord, SaveRaises, AuditRaises, SaveRegistry,
         RestartCentral, vars, captureVars
<1> QED
  BY <1>1, <1>2, <1>3 DEF Next, CollectorNext

LEMMA WindowsStep ==
    ASSUME CollectorTypeOK, windows \subseteq 1 .. MaxSlot,
           emitting \subseteq 1 .. MaxSlot, [CollectorNext]_collectorVars
    PROVE  windows' \subseteq 1 .. MaxSlot /\ emitting' \subseteq 1 .. MaxSlot
<1>1. ASSUME NEW ws \in SUBSET (1 .. MaxSlot)
      PROVE  Filled(ws) \subseteq 1 .. MaxSlot
  <2> SUFFICES ASSUME NEW s \in Filled(ws)
               PROVE  s \in 1 .. MaxSlot
    OBVIOUS
  <2>1. PICK a, b \in ws : s \in a .. b
    BY DEF Filled
  <2> QED
    BY <2>1, BufferAssumption
<1>2. ASSUME NEW slot \in 1 .. MaxSlot, CompleteFlow(slot)
      PROVE  windows' \subseteq 1 .. MaxSlot /\ emitting' \subseteq 1 .. MaxSlot
  BY <1>1, <1>2 DEF CompleteFlow, AcceptFlows, Due
<1>3. ASSUME NEW active \in ActiveWindows, BeginFlush(active)
      PROVE  windows' \subseteq 1 .. MaxSlot /\ emitting' \subseteq 1 .. MaxSlot
  <2>0. active \subseteq 1 .. MaxSlot
    BY DEF ActiveWindows
  <2>1. windows' \subseteq 1 .. MaxSlot
    BY <1>3, <2>0 DEF BeginFlush, Flush
  <2>2. emitting' \subseteq Filled(windows')
    BY <1>3 DEF BeginFlush, Flush
  <2> QED
    BY <1>1, <2>1, <2>2
<1> QED
  BY <1>2, <1>3 DEF CollectorNext, PromptNext, EmitState, NewCollector,
                    EmissionRefused, collectorVars

LEMMA PrefixFacts ==
    ASSUME NEW seq \in Seq(Slots), NEW n \in 0 .. Len(seq)
    PROVE  /\ SubSeq(seq, 1, n) \in Seq(Slots) /\ Len(SubSeq(seq, 1, n)) = n
           /\ \A i \in 1 .. n : SubSeq(seq, 1, n)[i] = seq[i]
           /\ RangeOf(SubSeq(seq, 1, n)) \subseteq RangeOf(seq)
<1>1. /\ SubSeq(seq, 1, n) \in Seq(Slots) /\ Len(SubSeq(seq, 1, n)) = n
      /\ \A i \in 1 .. n : SubSeq(seq, 1, n)[i] = seq[i]
  OBVIOUS
<1> QED
  BY <1>1 DEF RangeOf

LEMMA JoinFacts ==
    ASSUME NEW s \in Seq(Slots), NEW t \in Seq(Slots)
    PROVE  /\ s \o t \in Seq(Slots) /\ Len(s \o t) = Len(s) + Len(t)
           /\ \A i \in 1 .. Len(s) + Len(t) :
                  (s \o t)[i] = IF i <= Len(s) THEN s[i] ELSE t[i - Len(s)]
           /\ RangeOf(s \o t) = RangeOf(s) \cup RangeOf(t)
<1>1. /\ s \o t \in Seq(Slots) /\ Len(s \o t) = Len(s) + Len(t)
      /\ \A i \in 1 .. Len(s) + Len(t) :
             (s \o t)[i] = IF i <= Len(s) THEN s[i] ELSE t[i - Len(s)]
  OBVIOUS
<1>2. RangeOf(s \o t) \subseteq RangeOf(s) \cup RangeOf(t)
  BY <1>1 DEF RangeOf
<1>3. \A i \in 1 .. Len(s) : (s \o t)[i] = s[i]
  BY <1>1
<1>4. \A i \in 1 .. Len(t) : (s \o t)[Len(s) + i] = t[i]
  <2> SUFFICES ASSUME NEW i \in 1 .. Len(t)
               PROVE  (s \o t)[Len(s) + i] = t[i]
    OBVIOUS
  <2>1. Len(s) + i \in 1 .. Len(s) + Len(t) /\ ~ (Len(s) + i <= Len(s))
        /\ Len(s) + i - Len(s) = i
    OBVIOUS
  <2> QED
    BY <1>1, <2>1
<1>5. RangeOf(s) \subseteq RangeOf(s \o t)
  BY <1>1, <1>3 DEF RangeOf
<1>6. RangeOf(t) \subseteq RangeOf(s \o t)
  <2> SUFFICES ASSUME NEW i \in 1 .. Len(t)
               PROVE  t[i] \in RangeOf(s \o t)
    BY DEF RangeOf
  <2>1. Len(s) + i \in 1 .. Len(s \o t)
    BY <1>1
  <2> QED
    BY <1>4, <2>1 DEF RangeOf
<1> QED
  BY <1>1, <1>2, <1>5, <1>6

(* What _drain_pending takes from the queue and what it leaves.            *)
LEMMA SplitFacts ==
    ASSUME AgentTypeOK, pending # <<>>
    PROVE  /\ Size(NextBatch) \in 1 .. BatchSize
           /\ Size(NextBatch) <= Len(pending)
           /\ \A i \in 1 .. Size(NextBatch) : NextBatch.states[i] = pending[i]
           /\ Len(RestOfPending) = Len(pending) - Size(NextBatch)
           /\ \A i \in 1 .. Len(RestOfPending) :
                  RestOfPending[i] = pending[Size(NextBatch) + i]
           /\ RangeOf(pending)
                  = RangeOf(NextBatch.states) \cup RangeOf(RestOfPending)
<1> DEFINE n == NextBatchLength
<1>1. pending \in Seq(Slots) /\ BatchSize \in Nat \ {0}
  BY DeliveryAssumption DEF AgentTypeOK
<1>2. n \in 1 .. BatchSize /\ n \in 1 .. Len(pending)
  BY <1>1 DEF NextBatchLength, Least
<1>3. NextBatch.states = SubSeq(pending, 1, n) /\ Size(NextBatch) = n
      /\ \A i \in 1 .. n : NextBatch.states[i] = pending[i]
  BY <1>1, <1>2, PrefixFacts DEF NextBatch, Size
<1>4. /\ Len(RestOfPending) = Len(pending) - n
      /\ \A i \in 1 .. Len(RestOfPending) : RestOfPending[i] = pending[n + i]
  BY <1>1, <1>2 DEF RestOfPending
<1>5. RangeOf(NextBatch.states) \cup RangeOf(RestOfPending) \subseteq RangeOf(pending)
  <2>1. \A i \in 1 .. n : NextBatch.states[i] \in RangeOf(pending)
    BY <1>1, <1>2, <1>3 DEF RangeOf
  <2>2. ASSUME NEW i \in 1 .. Len(RestOfPending)
        PROVE  RestOfPending[i] \in RangeOf(pending)
    <3>1. n + i \in 1 .. Len(pending)
      BY <1>1, <1>2, <1>4
    <3> QED
      BY <1>4, <3>1 DEF RangeOf
  <2> QED
    BY <1>3, <2>1, <2>2 DEF RangeOf, Size
<1>6. ASSUME NEW i \in 1 .. Len(pending)
      PROVE  pending[i] \in RangeOf(NextBatch.states) \cup RangeOf(RestOfPending)
  <2>1. CASE i <= n
    BY <1>2, <1>3, <2>1 DEF RangeOf, Size
  <2>2. CASE i > n
    <3>1. i - n \in 1 .. Len(RestOfPending) /\ n + (i - n) = i
      BY <1>1, <1>2, <1>4, <2>2
    <3> QED
      BY <1>4, <3>1 DEF RangeOf
  <2> QED
    BY <1>2, <2>1, <2>2
<1>7. RangeOf(pending) \subseteq RangeOf(NextBatch.states) \cup RangeOf(RestOfPending)
  BY <1>6 DEF RangeOf
<1> QED
  BY <1>2, <1>3, <1>4, <1>5, <1>7

(***************************************************************************)
(* Content.                                                                *)
(***************************************************************************)
LEMMA KnownFacts ==
    ASSUME TypeOK
    PROVE  /\ Known \subseteq Batches
           /\ current # NoBatch => current \in Known
           /\ RangeOf(buffer) \subseteq Known
           /\ registry.batch # NoBatch => registry.batch \in Known
           /\ registryFile.batch # NoBatch => registryFile.batch \in Known
           /\ \A r \in requests : r.batch \in Known
           /\ handling # NoBatch => handling.batch \in Known
           /\ rejected \subseteq Known
<1>1. /\ RangeOf(buffer) \subseteq Batches /\ rejected \subseteq Batches
      /\ \A r \in requests : r.batch \in Batches
      /\ handling # NoBatch => handling.batch \in Batches
  BY DEF TypeOK, AgentTypeOK, NetTypeOK, CentralTypeOK, FateTypeOK, RangeOf
<1>2. /\ current # NoBatch => current \in Held
      /\ RangeOf(buffer) \subseteq Held
      /\ \A r \in requests : r.batch \in Sent
      /\ handling # NoBatch => handling.batch \in Sent
  BY DEF Held, Sent
<1>3. \A b \in Batches : b # NoBatch
  BY NoBatchAssumption
<1> QED
  BY <1>1, <1>2, <1>3, KnownTypes DEF Known

LEMMA ContentStep ==
    ASSUME DeliveryInv, ContentOK, [Next]_vars
    PROVE  ContentOK'
<1> USE DEF DeliveryInv, TypeInv, TypeOK
<1>1. windows' \subseteq 1 .. MaxSlot /\ emitting' \subseteq 1 .. MaxSlot
  BY CollectorStep, WindowsStep DEF ContentOK, CaptureTypeOK
<1>2. /\ captured \subseteq captured' /\ captured' \subseteq 1 .. MaxSlot
      /\ RangeOf(pending)' \subseteq captured'
  <2> USE DEF ContentOK
  <2>1. ASSUME NEW slot \in emitting, QueueState(slot)
        PROVE  /\ captured \subseteq captured' /\ captured' \subseteq 1 .. MaxSlot
               /\ RangeOf(pending)' \subseteq captured'
    <3>1. pending' = Append(pending, slot) /\ captured' = captured \cup {slot}
      BY <2>1 DEF QueueState
    <3>2. RangeOf(pending)' = RangeOf(pending) \cup {slot}
      BY <3>1 DEF RangeOf, AgentTypeOK
    <3> QED
      BY <3>1, <3>2
  <2>2. CASE \/ BuildBatch
             \/ captured' = captured /\ pending # <<>> /\ pending' = RestOfPending
    <3>1. pending # <<>> /\ pending' = RestOfPending /\ captured' = captured
      BY <2>2 DEF BuildBatch, HasBatch, captureVars
    <3>2. RangeOf(pending)' \subseteq RangeOf(pending)
      BY <3>1, SplitFacts
    <3> QED
      BY <3>1, <3>2
  <2>3. CASE PutBack
    <3>1. captured' = captured /\ current \in Known /\ current \in Batches
      BY <2>3, KnownFacts, CurrentFacts DEF PutBack, captureVars, PositionOK
    <3>2. PutInFront \in Seq(Slots)
          /\ RangeOf(PutInFront) = RangeOf(current.states) \cup RangeOf(pending)
      BY <3>1, BatchFields, JoinFacts DEF PutInFront, AgentTypeOK
    <3>3. Least(PendingLimit, Len(PutInFront)) \in 0 .. Len(PutInFront)
      BY <3>2, LimitFacts DEF Least
    <3>4. RangeOf(pending)' \subseteq RangeOf(PutInFront)
      BY <2>3, <3>2, <3>3, PrefixFacts DEF PutBack
    <3> QED
      BY <3>1, <3>2, <3>4
  <2>4. CASE captured' = captured /\ pending' \in {pending, <<>>}
    BY <2>4 DEF RangeOf
  <2>5. QueueMoves
    BY QueueStep
  <2> QED
    BY <2>1, <2>2, <2>3, <2>4, <2>5, Zenon DEF QueueMoves
<1>3. ASSUME NEW b \in Known'
      PROVE  Size(b) \in 1 .. BatchSize /\ RangeOf(b.states) \subseteq captured'
  <2>1. CASE b \in Known
    BY <1>2, <2>1 DEF ContentOK
  <2>2. CASE BuildBatch /\ b = NextBatch
    <3>1. pending # <<>>
      BY <2>2 DEF BuildBatch, HasBatch
    <3> QED
      BY <1>2, <2>2, <3>1, SplitFacts DEF ContentOK
  <2> QED
    BY <2>1, <2>2, KnownStep
<1> QED
  BY <1>1, <1>2, <1>3 DEF ContentOK

LEMMA ContentInvariant == Spec => []ContentInv
<1>1. Init => ContentOK
  BY DEF Init, CollectorInit, ContentOK, RangeOf, Known, Sent, Held, NoRecord
<1>2. DeliveryInv /\ ContentOK /\ [Next]_vars => ContentOK'
  BY ContentStep
<1> QED
  BY <1>1, <1>2, DeliveryInvariant, PTL DEF Spec, ContentInv

(* The collector of a running agent behaves as AgentCollector specifies,   *)
(* whatever the main thread, the network and the service do: the           *)
(* composition is written with the collector's own actions.                *)
LEMMA DeliveryImplementsCollector == Spec => CollectorSpec
<1>1. Init => CollectorInit
  BY DEF Init
<1>2. [Next]_vars => [CollectorNext]_collectorVars
  BY CollectorStep
<1> QED
  BY <1>1, <1>2, PTL DEF Spec, CollectorSpec

(* In the whole agent, too, every window a collector gives up is the one   *)
(* after its last or one of the last few again, however the queue, the     *)
(* main thread and the process fail it.                                    *)
THEOREM DeliveryLeavesNoGap == Spec => LeavesNoGap
<1> QED
  BY DeliveryImplementsCollector, CollectorLeavesNoGap, PTL

(* What touches the sensor's runtime.                                      *)
LEMMA HistoryMoves ==
    ASSUME [Next]_vars
    PROVE  \/ UNCHANGED rtVars
           \/ IngestState
           \/ \E status \in {"invalid", "transient"} : InferenceRaises(status)
           \/ RestartCentral
<1>1. Capture \/ MainThread \/ BackoffEnds \/ Crash \/ StartAgent \/ TimeOut
          \/ (\E request \in requests : LoseRequest(request))
          \/ UNCHANGED vars => UNCHANGED rtVars
  BY DEF Capture, FlowEnds, QueueState, QueueFull, MainThread, StartTurn,
         LeaveLoop, CollectorFlushed, Drained, BuildBatch, HasBatch,
         SaveSequence, SendsAtOnce, BuildFails, DirectAcknowledged,
         DirectRejected, DirectFailed, EvictOldest, CountDropped, Store,
         StoreFails, PutBack, FlushEnds, FlushSends, FlushAcknowledged,
         FlushRejected, FlushFailed, BackoffEnds, Crash, StartAgent, TimeOut,
         LoseRequest, vars, centralVars
<1>2. ASSUME NEW request \in requests,
             \/ AnswerAtOnce(request) \/ AnswerNotAudited(request)
             \/ LimitRate(request) \/ Admit(request)
      PROVE  UNCHANGED rtVars
  BY <1>2 DEF AnswerAtOnce, AnswerNotAudited, LimitRate, Admit, centralVars
<1>3. RefuseBatch \/ Accept \/ SaveRaises \/ SaveRegistry
          \/ (\E accepted \in BOOLEAN : AuditRaises(accepted))
          => UNCHANGED rtVars
  BY DEF RefuseBatch, RefuseState, Accept, SaveRaises, SaveRegistry, AuditRaises
<1> QED
  BY <1>1, <1>2, <1>3 DEF Next, Central

(* The sensor's runtime sees only what RemoteRuntime specifies, so what is *)
(* proved of its history and forecast holds under every failure of the     *)
(* handler, the network and the service.                                   *)
LEMMA DeliveryImplementsRuntime == Spec => RuntimeSpec
<1>1. Init => RuntimeInit
  BY DEF Init
<1>2. ContentInv /\ [Next]_vars => [RuntimeNext]_rtVars
  <2> SUFFICES ASSUME ContentInv, [Next]_vars
               PROVE  [RuntimeNext]_rtVars
    OBVIOUS
  <2>1. Ingesting => NextState \in 0 .. MaxSlot
    <3> SUFFICES ASSUME Ingesting
                 PROVE  NextState \in 1 .. MaxSlot
      BY BufferAssumption
    <3>1. handling.batch \in Known /\ handling.batch \in Batches
          /\ handling.next \in 1 .. Len(handling.batch.states)
      BY KnownFacts, HandlingFacts
         DEF ContentInv, DeliveryInv, TypeInv, TypeOK, CentralTypeOK, Ingesting,
             Size, Batches
    <3>2. NextState \in RangeOf(handling.batch.states)
      BY <3>1 DEF NextState, RangeOf
    <3> QED
      BY <3>1, <3>2 DEF ContentInv, ContentOK
  <2>2. IngestState => RuntimeNext
    BY <2>1 DEF IngestState, TakeState, RuntimeNext
  <2>4. ASSUME NEW status \in {"invalid", "transient"}, InferenceRaises(status)
        PROVE  RuntimeNext
    BY <2>1, <2>4 DEF InferenceRaises, RuntimeNext
  <2>5. RestartCentral => RuntimeNext
    BY DEF RestartCentral, RuntimeNext
  <2> QED
    BY <2>2, <2>4, <2>5, HistoryMoves
<1> QED
  BY <1>1, <1>2, ContentInvariant, PTL DEF Spec, RuntimeSpec

(* Under every failure the sensor's forecast on offer is that of a full    *)
(* contiguous history of its day that the service still holds.             *)
THEOREM DeliveryForecastHonest == Spec => []ForecastNeedsHistory
<1> QED
  BY DeliveryImplementsRuntime, RuntimeForecastHonest, PTL

(***************************************************************************)
(* Fate.                                                                   *)
(***************************************************************************)

(* Nothing is ever taken out of the record.                                *)
LEMMA RecordedGrows ==
    ASSUME TypeInv, [Next]_vars
    PROVE  /\ RangeOf(recorded) \subseteq RangeOf(recorded)'
           /\ RecordsBatch => RangeOf(handling.batch.states)
                                  \subseteq RangeOf(recorded)'
<1> USE DEF TypeInv, TypeOK
<1>1. ASSUME RecordsBatch
      PROVE  RangeOf(recorded)'
                 = RangeOf(recorded) \cup RangeOf(handling.batch.states)
  <2>1. recorded' = recorded \o handling.batch.states
    BY <1>1 DEF RecordsBatch
  <2>2. recorded \in Seq(Slots) /\ handling.batch.states \in Seq(Slots)
    BY <1>1, HandlingFacts, BatchFields DEF RecordsBatch, Ingested, FateTypeOK
  <2>3. RangeOf(recorded) \cup RangeOf(handling.batch.states)
            = RangeOf(recorded \o handling.batch.states)
    BY <2>2, JoinFacts
  <2> QED
    BY <2>1, <2>3 DEF RangeOf
<1>2. ~ RecordsBatch => recorded' = recorded
  BY ServiceStep
     DEF ServiceMoves, Admit, IngestState, SaveRegistry, RestartCentral,
         fateVars
<1> QED
  BY <1>1, <1>2 DEF RangeOf

LEMMA AnswerOKStep ==
    ASSUME TypeInv, LiveOK, AnswerOK, [Next]_vars
    PROVE  AnswerOK'
<1>1. reply' # "none" => Waiting'
  BY AnswerStep DEF AnswerOK, AnswerMoves, Waiting
<1>2. \A record \in {registry, registryFile}' :
          record.batch # NoBatch =>
              RangeOf(record.batch.states) \subseteq RangeOf(recorded)'
  <2>1. \A record \in {registry, registryFile} :
            record.batch # NoBatch =>
                RangeOf(record.batch.states) \subseteq RangeOf(recorded)'
    BY RecordedGrows DEF AnswerOK
  <2>2. RecordsBatch =>
            RangeOf(NewRecord.batch.states) \subseteq RangeOf(recorded)'
    BY RecordedGrows DEF NewRecord
  <2>3. \/ {registry, registryFile}' \subseteq {registry, registryFile}
        \/ /\ RecordsBatch
           /\ {registry, registryFile}' \subseteq {NewRecord, registryFile}
    BY ServiceStep
       DEF ServiceMoves, RecordsBatch, Admit, IngestState, SaveRegistry,
           RestartCentral, registryVars
  <2> QED
    BY <2>1, <2>2, <2>3
<1>3. ASSUME reply' = "ack"
      PROVE  RangeOf(current'.states) \subseteq RangeOf(recorded)'
  <2>1. current' = current
        /\ \/ reply = "ack"
           \/ registry.batch = current
           \/ RecordsBatch /\ handling.batch = current
    BY <1>3, AnswerStep DEF AnswerOK, AnswerMoves
  <2>2. current # NoBatch
    BY <1>3, AnswerStep DEF TypeInv, PositionOK, AnswerOK, AnswerMoves, Waiting
  <2> QED
    BY <2>1, <2>2, RecordedGrows DEF AnswerOK
<1> QED
  BY <1>1, <1>2, <1>3 DEF AnswerOK, RangeOf

LEMMA BufferRange ==
    ASSUME AgentTypeOK, buffer # <<>>
    PROVE  /\ RangeOf(buffer) = RangeOf(Tail(buffer)) \cup {Head(buffer)}
           /\ Head(buffer) \in RangeOf(buffer)
<1>1. /\ Head(buffer) = buffer[1] /\ Len(Tail(buffer)) = Len(buffer) - 1
      /\ Len(buffer) \in Nat \ {0}
      /\ \A i \in 1 .. Len(buffer) - 1 : Tail(buffer)[i] = buffer[i + 1]
  BY BufferFacts DEF AgentTypeOK
<1>2. ASSUME NEW i \in 1 .. Len(buffer)
      PROVE  buffer[i] \in RangeOf(Tail(buffer)) \cup {Head(buffer)}
  <2>1. CASE i = 1
    BY <1>1, <2>1
  <2>2. CASE i # 1
    <3>1. i - 1 \in 1 .. Len(Tail(buffer)) /\ buffer[i] = Tail(buffer)[i - 1]
      BY <1>1, <2>2
    <3> QED
      BY <3>1 DEF RangeOf
  <2> QED
    BY <2>1, <2>2
<1>3. \A i \in 1 .. Len(Tail(buffer)) : Tail(buffer)[i] \in RangeOf(buffer)
  BY <1>1 DEF RangeOf
<1>4. Head(buffer) \in RangeOf(buffer)
  BY <1>1 DEF RangeOf
<1> QED
  BY <1>2, <1>3, <1>4 DEF RangeOf

(* Where each state the agent holds goes: no step of the agent loses one   *)
(* without putting it on one of the lists.                                 *)
LEMMA AccountedStep ==
    ASSUME OverflowPolicy = "DROP_OLDEST", BatchFits, FateInv, [Next]_vars
    PROVE  CapturedAccounted'
<1> DEFINE Kept == RangeOf(pending) \cup SlotsIn(Held)
           Safe == Kept \subseteq Kept' \cup Settled'
           Grow == /\ rejected \subseteq rejected' /\ dropped \subseteq dropped'
                   /\ lost \subseteq lost'
<1>t. /\ TypeOK /\ AgentTypeOK /\ CentralTypeOK /\ FateTypeOK /\ PositionOK
      /\ RangeOf(recorded) \subseteq RangeOf(recorded)'
  BY RecordedGrows DEF FateInv, ContentInv, DeliveryInv, TypeInv, TypeOK
<1>g. Grow => Settled \subseteq Settled'
  BY <1>t DEF Settled, SlotsIn
<1>s. UNCHANGED <<pending, buffer, current>> => Safe
  BY DEF SlotsIn, Held, RangeOf
<1>h. \A b \in Held : RangeOf(b.states) \subseteq SlotsIn(Held)
  BY DEF SlotsIn
<1>p. ASSUME RangeOf(pending) \subseteq Kept' \cup Settled',
             \A b \in Held : RangeOf(b.states) \subseteq Kept' \cup Settled'
      PROVE  Safe
  BY <1>p DEF SlotsIn
<1>q. pending' = pending => RangeOf(pending) \subseteq Kept' \cup Settled'
  BY DEF RangeOf
<1>r. \A b \in Held' : RangeOf(b.states) \subseteq Kept' \cup Settled'
  BY DEF SlotsIn
<1>n. current # NoBatch => Held = RangeOf(buffer) \cup {current}
  BY DEF Held
<1> HIDE DEF Kept, Safe
<1>1. ASSUME Safe, Grow, captured' = captured
      PROVE  CapturedAccounted'
  BY <1>1, <1>g DEF FateInv, CapturedAccounted, Kept, Safe
<1>2. ASSUME NEW slot \in emitting, QueueState(slot)
      PROVE  CapturedAccounted'
  <2>1. RangeOf(pending') = RangeOf(pending) \cup {slot}
    BY <1>t, <1>2 DEF QueueState, RangeOf, AgentTypeOK
  <2>2. Settled \subseteq Settled' /\ SlotsIn(Held)' = SlotsIn(Held)
    BY <1>2, <1>g DEF QueueState, fateVars, SlotsIn, Held
  <2> QED
    BY <1>2, <2>1, <2>2 DEF QueueState, FateInv, CapturedAccounted, RangeOf
<1>3. CASE BuildBatch
  <2>1. /\ pending # <<>> /\ pending' = RestOfPending
        /\ current' = NextBatch /\ buffer' = buffer /\ current = NoBatch
        /\ Grow /\ captured' = captured
    BY <1>3, <1>t
       DEF BuildBatch, HasBatch, SaveSequence, SendsAtOnce, captureVars,
           fateVars, PositionOK
  <2>2. NextBatch \in Held' /\ Held \subseteq Held'
    BY <1>t, <2>1, BatchFacts, NoBatchAssumption DEF Held
  <2>3. RangeOf(pending) \subseteq Kept' \cup Settled'
    BY <1>t, <1>r, <2>1, <2>2, SplitFacts DEF Kept
  <2> QED
    BY <1>1, <1>p, <1>r, <2>1, <2>2, <2>3
<1>4. CASE BuildFails
  <2>1. /\ pending # <<>> /\ pending' = RestOfPending
        /\ UNCHANGED <<buffer, current>>
        /\ lost' = lost \cup RangeOf(NextBatch.states)
        /\ Grow /\ captured' = captured
    BY <1>4 DEF BuildFails, HasBatch, captureVars
  <2>2. RangeOf(pending) \subseteq Kept' \cup Settled'
    BY <1>t, <2>1, SplitFacts DEF Kept, Settled
  <2>3. Held' = Held
    BY <2>1 DEF Held
  <2> QED
    BY <1>1, <1>p, <1>r, <2>1, <2>2, <2>3
<1>5. CASE DirectAcknowledged \/ DirectRejected \/ StoreFails
  <2>1. /\ UNCHANGED <<pending, buffer>> /\ current' = NoBatch
        /\ current # NoBatch /\ Grow /\ captured' = captured
        /\ \/ reply = "ack" /\ recorded' = recorded
           \/ current \in rejected'
           \/ RangeOf(current.states) \subseteq lost'
    BY <1>5, <1>t
       DEF DirectAcknowledged, DirectRejected, Reject, StoreFails, captureVars,
           PositionOK
  <2>2. RangeOf(current.states) \subseteq Settled'
    BY <1>t, <2>1 DEF FateInv, AnswerOK, Settled, SlotsIn
  <2>3. Held' = RangeOf(buffer)
    BY <2>1 DEF Held, RangeOf
  <2> QED
    BY <1>1, <1>n, <1>p, <1>q, <1>r, <2>1, <2>2, <2>3
<1>6. CASE EvictOldest \/ FlushAcknowledged \/ FlushRejected
  <2>1. /\ pending' = pending /\ buffer # <<>> /\ buffer' = Tail(buffer)
        /\ Grow /\ captured' = captured
        /\ current' = current \/ (current = Head(buffer) /\ current' = NoBatch)
        /\ \/ current = Head(buffer) /\ reply = "ack" /\ recorded' = recorded
           \/ Head(buffer) \in rejected'
           \/ RangeOf(Head(buffer).states) \subseteq dropped'
    BY <1>6, <1>t
       DEF EvictOldest, CountDropped, FlushAcknowledged, FlushRejected, Reject,
           captureVars, PositionOK
  <2>2. RangeOf(Head(buffer).states) \subseteq Settled'
    BY <1>t, <2>1 DEF FateInv, AnswerOK, Settled, SlotsIn
  <2>3. Held \subseteq Held' \cup {Head(buffer)}
    BY <1>t, <2>1, BufferRange DEF Held
  <2> QED
    BY <1>1, <1>p, <1>q, <1>r, <2>1, <2>2, <2>3
<1>7. CASE Store
  <2>1. /\ pending' = pending /\ buffer' = Append(buffer, current)
        /\ Grow /\ captured' = captured /\ current # NoBatch
    BY <1>7, <1>t DEF Store, WithFile, captureVars, fateVars, PositionOK
  <2>2. RangeOf(buffer)' = RangeOf(buffer) \cup {current}
    BY <1>t, <2>1 DEF AgentTypeOK, RangeOf
  <2>3. Held \subseteq Held'
    BY <1>n, <2>1, <2>2 DEF Held
  <2> QED
    BY <1>1, <1>p, <1>q, <1>r, <2>1, <2>3
<1>8. CASE PutBack
  <2>1. current \in Known /\ current \in Batches
    BY <1>8, <1>t, KnownFacts, CurrentFacts DEF PutBack, PositionOK
  <2>2. Size(current) \in Nat /\ Size(current) <= BatchSize
    BY <2>1, DeliveryAssumption DEF FateInv, ContentInv, ContentOK
  <2>3. ~ TooBig(current)
    BY <2>2, DeliveryAssumption DEF BatchFits, TooBig
  <2> QED
    BY <1>8, <2>3 DEF PutBack
<1>9. CASE FlushEnds \/ FlushFailed \/ Crash
  <2>1. /\ buffer' = buffer /\ captured' = captured
        /\ \/ current' = current
           \/ current' = NoBatch /\ buffer # <<>> /\ current = Head(buffer)
           \/ current' = NoBatch /\ RangeOf(current.states) \subseteq lost'
           \/ current' = NoBatch /\ current = NoBatch
    BY <1>9, <1>t
       DEF FlushEnds, FlushFailed, EndTurn, Crash, captureVars, PositionOK,
           Position, AgentTypeOK
  <2>2. Grow /\ (pending' = pending \/ RangeOf(pending) \subseteq lost')
    BY <1>9, <1>t DEF FlushEnds, FlushFailed, EndTurn, Crash
  <2>3. \/ Held \subseteq Held'
        \/ Held = RangeOf(buffer) \cup {current} /\ RangeOf(buffer) \subseteq Held'
           /\ RangeOf(current.states) \subseteq lost'
    BY <1>t, <1>n, <2>1, BufferRange DEF Held, RangeOf
  <2>4. RangeOf(pending) \subseteq Kept' \cup Settled'
    BY <1>q, <2>2 DEF Settled
  <2>5. \A b \in Held : RangeOf(b.states) \subseteq Kept' \cup Settled'
    BY <1>r, <2>3 DEF Settled
  <2> QED
    BY <1>1, <1>p, <2>1, <2>2, <2>4, <2>5
<1>10. CASE FlushSends
  <2>1. /\ UNCHANGED <<pending, buffer>> /\ current = NoBatch
        /\ current' = Head(buffer) /\ buffer # <<>>
        /\ Grow /\ captured' = captured
    BY <1>10, <1>t DEF FlushSends, captureVars, fateVars, PositionOK
  <2>2. Held \subseteq Held'
    BY <2>1 DEF Held, RangeOf
  <2> QED
    BY <1>1, <1>p, <1>q, <1>r, <2>1, <2>2
<1>11. CASE \/ StartTurn \/ CollectorFlushed \/ Drained \/ DirectFailed
            \/ (\E active \in ActiveWindows : LeaveLoop(active))
            \/ BackoffEnds \/ StartAgent \/ TimeOut \/ UNCHANGED vars
            \/ (\E request \in requests : LoseRequest(request))
            \/ (\E slot \in 1 .. MaxSlot : FlowEnds(slot)) \/ QueueFull
  <2>1. UNCHANGED <<pending, buffer, current, captured, rejected, dropped, lost>>
    BY <1>11
       DEF StartTurn, CollectorFlushed, Drained, DirectFailed, LeaveLoop,
           BackoffEnds, StartAgent, TimeOut, LoseRequest, FlowEnds, QueueFull,
           vars, agentVars, captureVars, fateVars
  <2> QED
    BY <1>1, <1>s, <2>1
<1>12. CASE Central
  <2>1. UNCHANGED <<agentVars, captureVars, rejected, dropped, lost>>
    BY <1>12
       DEF Central, AnswerAtOnce, AnswerNotAudited, LimitRate, Admit,
           IngestState, TakeState, RefuseBatch, InferenceRaises, Accept,
           SaveRecord, SaveRaises, AuditRaises, SaveRegistry, RestartCentral,
           fateVars
  <2> QED
    BY <1>1, <1>s, <2>1 DEF agentVars, captureVars
<1> QED
  BY <1>2, <1>3, <1>4, <1>5, <1>6, <1>7, <1>8, <1>9, <1>10, <1>11, <1>12
     DEF Next, MainThread, Capture

(* With DROP_OLDEST and a buffer that takes one batch, no captured state   *)
(* disappears without a trace, whatever fails and however often: it is     *)
(* held, recorded, rejected, counted as dropped, or on the list of what a  *)
(* dying process or a failed write took with it.                           *)
THEOREM EveryStateAccountedFor ==
    OverflowPolicy = "DROP_OLDEST" /\ BatchFits => (Spec => []CapturedAccounted)
<1> SUFFICES ASSUME OverflowPolicy = "DROP_OLDEST", BatchFits
             PROVE  Spec => []CapturedAccounted
  OBVIOUS
<1>1. Init => AnswerOK /\ CapturedAccounted
  BY DEF Init, AnswerOK, CapturedAccounted, NoRecord
<1>2. FateInv /\ [Next]_vars => AnswerOK' /\ CapturedAccounted'
  BY AnswerOKStep, AccountedStep DEF FateInv, ContentInv, DeliveryInv
<1> QED
  BY <1>1, <1>2, ContentInvariant, PTL DEF Spec, FateInv
(***************************************************************************)
(* Acknowledgement.                                                        *)
(***************************************************************************)
LEMMA HandlingStep ==
    ASSUME TypeInv, HandlingOK, [Next]_vars
    PROVE  HandlingOK'
<1> USE NoBatchAssumption DEF TypeInv, TypeOK, CentralTypeOK
<1>1. ASSUME NEW request \in requests, Admit(request)
      PROVE  HandlingOK'
  <2>1. request.batch \in Batches
    BY DEF NetTypeOK
  <2>2. Size(request.batch) \in Nat
    BY <2>1, BatchFields DEF Size
  <2>3. request.batch.seq \in Nat /\ registry.seq \in Nat
    BY <2>1, BatchFields DEF Records
  <2> QED
    BY <1>1, <2>2, <2>3
       DEF Admit, Admissible, IsBehind, registryVars, HandlingOK
<1>2. CASE IngestState
  <2>1. handling.batch \in Batches /\ handling.next \in Nat \ {0}
    BY <1>2 DEF IngestState, Ingesting
  <2>2. Size(handling.batch) \in Nat
    BY <2>1, BatchFields DEF Size
  <2>3. handling' = [handling EXCEPT !.next = @ + 1] /\ registry' = registry
        /\ handling # NoBatch /\ handling.next <= Size(handling.batch)
    BY <1>2 DEF IngestState, Ingesting, registryVars
  <2> QED
    BY <2>1, <2>2, <2>3 DEF HandlingOK
<1>3. handling' = NoBatch => HandlingOK'
  BY DEF HandlingOK
<1>4. CASE /\ UNCHANGED registry /\ handling # NoBatch
           /\ handling'.batch = handling.batch /\ handling'.next = handling.next
  BY <1>4 DEF HandlingOK
<1> QED
  BY <1>1, <1>2, <1>3, <1>4, ServiceStep
     DEF ServiceMoves, RecordsBatch, SaveRegistry, RestartCentral

(* The record in memory only moves on.                                     *)
LEMMA RegistryStep ==
    ASSUME RegistrySurvives, TypeInv, HandlingOK, [Next]_vars,
           "registry_save" \notin Faults => registryFile = registry
    PROVE  /\ registry.seq <= registry'.seq
           /\ "registry_save" \notin Faults => registryFile' = registry'
<1> USE DEF TypeInv, TypeOK, CentralTypeOK
<1>1. registry.seq \in Nat
  BY DEF Records
<1>2. registry' = registry => registry.seq <= registry'.seq
  BY <1>1
<1>3. RecordsBatch => registry.seq <= registry'.seq
  <2> SUFFICES ASSUME RecordsBatch
               PROVE  registry.seq <= registry'.seq
    OBVIOUS
  <2>1. registry'.seq = handling.batch.seq /\ handling.batch \in Batches
        /\ registry.seq < handling.batch.seq
    BY HandlingFacts DEF RecordsBatch, Ingested, NewRecord, HandlingOK
  <2> QED
    BY <1>1, <2>1, BatchFields
<1>4. RestartCentral => registry' = registry /\ registryFile' = registry
  BY DEF RestartCentral, Fault, RegistrySurvives
<1> QED
  BY <1>2, <1>3, <1>4, ServiceStep
     DEF ServiceMoves, RecordsBatch, Admit, IngestState, SaveRegistry,
         registryVars

LEMMA AckStep ==
    ASSUME RegistrySurvives, AckInv, [Next]_vars
    PROVE  AckOK'
<1> USE DEF AckInv, DeliveryInv
<1>1. /\ registry.seq \in Nat /\ registry'.seq \in Nat
      /\ registry.seq <= registry'.seq
      /\ "registry_save" \notin Faults => registryFile' = registry'
  BY RegistryStep, TypeStep DEF AckOK, TypeInv, TypeOK, CentralTypeOK, Records
<1>2. AnswerMoves
  BY AnswerStep DEF AckOK
<1>3. Waiting => current \in Batches
  BY CurrentFacts DEF Waiting, TypeInv, TypeOK
<1>4. reply' # "none" => Waiting'
  BY <1>2 DEF AckOK, AnswerMoves, Waiting
<1>5. ASSUME reply' = "ack"
      PROVE  current'.seq <= registry'.seq
  <2>1. current' = current /\ Waiting
        /\ \/ reply = "ack"
           \/ registry.batch = current /\ registry' = registry
           \/ RecordsBatch /\ handling.batch = current
    BY <1>2, <1>5 DEF AnswerMoves
  <2>2. current \in Batches /\ current # NoBatch /\ current.seq \in Nat
    BY <1>3, <2>1, BatchFields, NoBatchAssumption
  <2>3. CASE reply = "ack"
    BY <1>1, <2>1, <2>2, <2>3 DEF AckOK
  <2>4. CASE registry.batch = current /\ registry' = registry
    <3>1. registry.seq = current.seq
      BY <2>2, <2>4 DEF OrderOK, RecordOK
    <3> QED
      BY <2>1, <2>2, <2>4, <3>1
  <2>5. CASE RecordsBatch /\ handling.batch = current
    <3>1. registry'.seq = current.seq
      BY <2>5 DEF RecordsBatch, NewRecord
    <3> QED
      BY <2>1, <2>2, <3>1
  <2> QED
    BY <2>1, <2>3, <2>4, <2>5
<1>6. \A n \in acked' : n <= registry'.seq
  <2>1. \A n \in acked : n \in Nat /\ n <= registry'.seq
    BY <1>1 DEF AckOK, TypeInv, TypeOK, FateTypeOK
  <2>2. reply = "ack" => current.seq <= registry'.seq
    <3> SUFFICES ASSUME reply = "ack"
                 PROVE  current.seq <= registry'.seq
      OBVIOUS
    <3>1. current.seq \in Nat /\ current.seq <= registry.seq
      BY <1>3, BatchFields DEF AckOK
    <3> QED
      BY <1>1, <3>1
  <2> QED
    BY <2>1, <2>2, VerdictStep DEF VerdictMoves
<1> QED
  BY <1>1, <1>4, <1>5, <1>6 DEF AckOK

LEMMA AckInvariant == RegistrySurvives => (Spec => []AckInv)
<1> SUFFICES ASSUME RegistrySurvives
             PROVE  Spec => []AckInv
  OBVIOUS
<1>1. Init => HandlingOK /\ AckOK
  BY DEF Init, HandlingOK, AckOK
<1>2. AckInv /\ [Next]_vars => HandlingOK' /\ AckOK'
  BY HandlingStep, AckStep DEF AckInv, DeliveryInv
<1> QED
  BY <1>1, <1>2, DeliveryInvariant, PTL DEF Spec, AckInv

(* While the registry file can be written, a restart of the service knows  *)
(* every batch that was ever acknowledged.                                 *)
THEOREM AcknowledgedIsOnDisk ==
    "registry_save" \notin Faults => (Spec => []AckedIsDurable)
<1> SUFFICES ASSUME "registry_save" \notin Faults
             PROVE  Spec => []AckedIsDurable
  OBVIOUS
<1>1. AckInv => AckedIsDurable
  BY DEF AckInv, AckOK, AckedIsDurable
<1>2. RegistrySurvives
  BY DEF RegistrySurvives
<1> QED
  BY <1>1, <1>2, AckInvariant, PTL

(* An acknowledged batch is the oldest one the agent holds, and it goes     *)
(* with its acknowledgement.                                               *)
LEMMA AckedIsOldest ==
    ASSUME FinalInv, [Next]_vars
    PROVE  \A n \in acked' :
               n < savedSequence' /\ \A h \in Held' : n < h.seq
<1> USE NoBatchAssumption
    DEF FinalInv, FinalOK, DeliveryInv, TypeInv, TypeOK, AgentTypeOK,
        FateTypeOK
<1>1. CASE BuildBatch
  <2>1. /\ acked' = acked /\ savedSequence' = nextSequence + 1
        /\ Held' \subseteq Held \cup {NextBatch}
    BY <1>1 DEF BuildBatch, HasBatch, SaveSequence, SendsAtOnce, Held, fateVars
  <2>2. NextBatch.seq = nextSequence
    BY <1>1, BatchFacts DEF BuildBatch, HasBatch
  <2>3. ASSUME NEW n \in acked PROVE n \in Nat /\ n < nextSequence
    BY <2>3
  <2> QED
    BY <2>1, <2>2, <2>3
<1>2. CASE FlushSends
  <2>1. Held' \subseteq Held
    BY <1>2, BufferFacts DEF FlushSends, Held, RangeOf
  <2> QED
    BY <1>2, <2>1 DEF FlushSends, fateVars
<1>3. CASE ~ BuildBatch /\ ~ FlushSends
  <2>1. Held' \subseteq Held /\ savedSequence' = savedSequence
    BY <1>3, MovesStep DEF Moves, SequenceMoves
  <2>2. CASE acked' = acked
    BY <2>1, <2>2
  <2>3. CASE /\ Waiting /\ acked' = acked \cup {current.seq}
             /\ DirectAcknowledged \/ FlushAcknowledged
    <3>1. current \in Batches /\ current # NoBatch /\ current \in Known
      BY <2>3, CurrentFacts DEF Waiting, PositionOK, Known, Held
    <3>2. current.seq < savedSequence
      BY <3>1 DEF IssuedOnce
    <3>3. CASE DirectAcknowledged
      <4>1. Held' = {}
        BY <3>3 DEF DirectAcknowledged, PositionOK, Held, RangeOf
      <4> QED
        BY <2>1, <2>3, <3>2, <4>1
    <3>4. CASE FlushAcknowledged
      <4>1. /\ buffer # <<>> /\ current = Head(buffer) /\ current' = NoBatch
            /\ buffer' = Tail(buffer)
        BY <3>4 DEF FlushAcknowledged, PositionOK
      <4>2. Held' = RangeOf(Tail(buffer))
        BY <4>1 DEF Held, RangeOf
      <4>3. \A i \in 1 .. Len(buffer) - 1 : current.seq < buffer[i + 1].seq
        <5> SUFFICES ASSUME NEW i \in 1 .. Len(buffer) - 1
                     PROVE  current.seq < buffer[i + 1].seq
          OBVIOUS
        <5>1. 1 \in DOMAIN buffer /\ i + 1 \in DOMAIN buffer /\ 1 < i + 1
          OBVIOUS
        <5> QED
          BY <4>1, <5>1, BufferFacts DEF OrderOK
      <4>4. \A h \in Held' : current.seq < h.seq
        BY <4>1, <4>2, <4>3, BufferFacts DEF RangeOf
      <4> QED
        BY <2>1, <2>3, <3>2, <4>4
    <3> QED
      BY <2>3, <3>3, <3>4
  <2>4. \/ acked' = acked
        \/ Waiting /\ acked' = acked \cup {current.seq}
           /\ (DirectAcknowledged \/ FlushAcknowledged)
    <3>1. MainThread => \/ acked' = acked
                        \/ DirectAcknowledged \/ FlushAcknowledged
      BY DEF MainThread, StartTurn, LeaveLoop, CollectorFlushed, Drained,
             BuildBatch, HasBatch, SaveSequence, SendsAtOnce, BuildFails,
             DirectRejected, DirectFailed, EvictOldest, CountDropped, Store,
             StoreFails, PutBack, FlushEnds, FlushSends, FlushRejected,
             FlushFailed, EndTurn, fateVars
    <3>2. DirectAcknowledged \/ FlushAcknowledged
              => Waiting /\ acked' = acked \cup {current.seq}
      BY DEF DirectAcknowledged, FlushAcknowledged, Waiting
    <3>3. Capture \/ BackoffEnds \/ Crash \/ StartAgent \/ TimeOut
              \/ UNCHANGED vars
              \/ (\E request \in requests : LoseRequest(request))
              => acked' = acked
      BY DEF Capture, FlowEnds, QueueState, QueueFull, BackoffEnds, Crash,
             StartAgent, TimeOut, LoseRequest, vars, fateVars
    <3>4. Central => acked' = acked
      BY DEF Central, AnswerAtOnce, AnswerNotAudited, LimitRate, Admit,
             fateVars, IngestState, TakeState, RefuseBatch, InferenceRaises,
             Accept, SaveRecord, SaveRaises, AuditRaises, SaveRegistry,
             RestartCentral
    <3> QED
      BY <3>1, <3>2, <3>3, <3>4 DEF Next
  <2> QED
    BY <2>2, <2>3, <2>4
<1> QED
  BY <1>1, <1>2, <1>3

(* The record in memory only moves on, until a restart; and a restart      *)
(* breaks every connection.                                                *)
LEMMA RestartForgetsAll ==
    ASSUME FinalInv, [Next]_vars
    PROVE  registry.seq <= registry'.seq \/ Sent' = {}
<1> USE DEF FinalInv, DeliveryInv, TypeInv, TypeOK, CentralTypeOK
<1>1. registry.seq \in Nat
  BY DEF Records
<1>2. registry' = registry => registry.seq <= registry'.seq
  BY <1>1
<1>3. RecordsBatch => registry.seq <= registry'.seq
  <2> SUFFICES ASSUME RecordsBatch
               PROVE  registry.seq <= registry'.seq
    OBVIOUS
  <2>1. registry'.seq = handling.batch.seq /\ handling.batch \in Batches
        /\ registry.seq < handling.batch.seq
    BY HandlingFacts DEF RecordsBatch, Ingested, NewRecord, HandlingOK
  <2> QED
    BY <1>1, <2>1, BatchFields
<1>4. RestartCentral => Sent' = {}
  BY DEF RestartCentral, Sent
<1> QED
  BY <1>2, <1>3, <1>4, ServiceStep
     DEF ServiceMoves, RecordsBatch, Admit, IngestState, SaveRegistry,
         registryVars

LEMMA FinalStep ==
    ASSUME FinalInv, [Next]_vars
    PROVE  FinalOK'
<1> USE NoBatchAssumption DEF FinalInv, DeliveryInv
<1>1. AnswerMoves /\ VerdictMoves
  BY AnswerStep, VerdictStep DEF FinalOK
<1>2. reply' # "none" => Waiting'
  BY <1>1 DEF FinalOK, AnswerMoves, Waiting
<1>3. \A n \in acked' : n < savedSequence' /\ \A h \in Held' : n < h.seq
  BY AckedIsOldest
<1>4. \A b \in Sent : b.seq \in Nat /\ registry.seq \in Nat
      /\ registry'.seq \in Nat
  BY BatchFields, TypeStep
     DEF TypeInv, TypeOK, NetTypeOK, CentralTypeOK, Records, Sent
<1>5. ASSUME NEW b \in Sent', b.seq \in Answered'
      PROVE  b.seq <= registry'.seq
  <2>0. registry.seq <= registry'.seq
    BY <1>5, RestartForgetsAll
  <2>1. CASE BuildBatch
    <3>1. /\ acked' = acked /\ registry' = registry
          /\ b \in Sent \cup {NextBatch}
      BY <1>5, <2>1
         DEF BuildBatch, HasBatch, SaveSequence, SendsAtOnce, SendLive, Sent,
             netVars, centralVars, registryVars, fateVars
    <3>2. reply = "none"
      BY <2>1 DEF FinalOK, BuildBatch, Waiting
    <3>3. reply' = "none"
      BY <2>1, <3>2 DEF BuildBatch, SendsAtOnce, SendLive, netVars
    <3>4. NextBatch.seq = nextSequence /\ \A n \in acked : n < nextSequence
      BY <2>1, BatchFacts
         DEF BuildBatch, HasBatch, TypeInv, TypeOK, AgentTypeOK, FateTypeOK,
             FinalOK
    <3>5. b.seq \in acked /\ b # NextBatch
      BY <1>5, <3>1, <3>3, <3>4 DEF Answered, TypeInv, TypeOK, AgentTypeOK
    <3> QED
      BY <3>1, <3>5 DEF FinalOK, Answered
  <2>2. CASE FlushSends
    <3>1. /\ acked' = acked /\ registry' = registry /\ reply' = "none"
          /\ b \in Sent \/ b = Head(buffer)
          /\ Head(buffer) \in Held /\ Head(buffer) \in Batches
      BY <1>5, <2>2, BufferFacts
         DEF FlushSends, SendLive, Sent, Held, RangeOf, centralVars,
             registryVars, fateVars, TypeInv, TypeOK
    <3>2. b.seq \in acked
      BY <1>5, <3>1 DEF Answered
    <3>3. b # Head(buffer)
      BY <3>1, <3>2, BatchFields DEF FinalOK
    <3> QED
      BY <3>1, <3>2, <3>3 DEF FinalOK, Answered
  <2>3. CASE ~ BuildBatch /\ ~ FlushSends
    <3>1. b \in Sent
      BY <1>5, <2>3, MovesStep DEF Moves
    <3>2. CASE b.seq \in Answered
      BY <1>4, <2>0, <3>1, <3>2 DEF FinalOK
    <3>3. CASE b.seq \notin Answered
      <4>1. reply' = "ack" /\ b.seq = current'.seq /\ b.seq \notin acked'
        BY <1>1, <1>5, <3>3 DEF Answered, VerdictMoves
      <4>2. current' = current /\ Waiting /\ reply # "ack"
        BY <1>1, <3>3, <4>1 DEF AnswerMoves, Answered
      <4>3. \/ registry.batch = current /\ registry' = registry
            \/ RecordsBatch /\ handling.batch = current
        BY <1>1, <4>1, <4>2 DEF AnswerMoves
      <4>4. current # NoBatch
        BY <4>2 DEF Waiting, TypeInv, PositionOK
      <4>5. registry'.seq = current.seq
        BY <4>3, <4>4 DEF OrderOK, RecordOK, RecordsBatch, NewRecord
      <4> QED
        BY <1>4, <3>1, <4>1, <4>2, <4>5
    <3> QED
      BY <3>2, <3>3
  <2> QED
    BY <2>1, <2>2, <2>3
<1> QED
  BY <1>2, <1>3, <1>5 DEF FinalOK

LEMMA FinalInvariant == Spec => []FinalInv
<1>1. Init => HandlingOK /\ FinalOK
  BY DEF Init, HandlingOK, FinalOK, Answered, Sent
<1>2. FinalInv /\ [Next]_vars => HandlingOK' /\ FinalOK'
  BY HandlingStep, FinalStep DEF FinalInv, DeliveryInv
<1> QED
  BY <1>1, <1>2, DeliveryInvariant, PTL DEF Spec, FinalInv

(* What was acknowledged never reaches the inference again, whatever fails *)
(* and however often: also when the service restarts from a registry file  *)
(* that it could not write.                                                *)
THEOREM AcknowledgedIsFinal == Spec => []AckedNotIngestedAgain
<1>1. FinalInv => AckedNotIngestedAgain
  <2> SUFFICES ASSUME FinalInv, handling # NoBatch, handling.batch.seq \in acked
               PROVE  FALSE
    BY DEF AckedNotIngestedAgain
  <2>1. registry.seq \in Nat /\ handling.batch.seq \in Nat
    BY HandlingFacts, BatchFields
       DEF FinalInv, DeliveryInv, TypeInv, TypeOK, CentralTypeOK, Records
  <2>2. handling.batch.seq <= registry.seq
    BY DEF FinalInv, FinalOK, Answered, Sent
  <2> QED
    BY <2>1, <2>2 DEF FinalInv, HandlingOK
<1> QED
  BY <1>1, FinalInvariant, PTL

(***************************************************************************)
(* Order.                                                                  *)
(***************************************************************************)

(* Only QueueState captures, and only what is newer than all before it.    *)
LEMMA CapturedStep ==
    ASSUME [Next]_vars
    PROVE  \/ captured' = captured
           \/ \E slot \in emitting : QueueState(slot)
BY QueueStep
   DEF QueueMoves, BuildBatch, PutBack, captureVars

LEMMA ClockStep ==
    ASSUME RestartsLater, ClockOK, captured \subseteq Slots, [Next]_vars,
           ~ QueueFull
    PROVE  /\ ClockOK'
           /\ \A slot \in emitting :
                  QueueState(slot) => \A s \in captured : s < slot
<1>0. [PromptNext]_collectorVars
  BY CollectorStep
<1>1. PromptInv'
  BY <1>0, PromptStep DEF ClockOK
<1>2. /\ clock \in Nat /\ lastWindow \in Nat /\ RestartGap \in Nat
      /\ RestartGap >= 1 /\ lastWindow < clock + RestartGap
      /\ clock' \in Nat
      /\ \A s \in emitting : s \in Nat /\ lastWindow < s /\ s <= clock
  BY <1>1, CollectorAssumption
     DEF RestartsLater, ClockOK, PromptInv, CollectorTypeOK, EmittingOK, Slots
<1>3. \/ clock <= clock' /\ lastWindow' = lastWindow
      \/ clock' = clock /\ \E slot \in emitting : lastWindow' = slot
      \/ clock' = clock /\ lastWindow' = clock + RestartGap - 1
  <2>1. ASSUME NEW slot \in 1 .. MaxSlot, CompleteFlow(slot)
        PROVE  clock <= clock' /\ lastWindow' = lastWindow
    BY <2>1, <1>2 DEF CompleteFlow, AcceptFlows
  <2>2. ASSUME NEW slot \in emitting, EmitState(slot)
        PROVE  clock' = clock /\ lastWindow' = slot
    BY <2>2 DEF EmitState
  <2>3. ASSUME NEW active \in ActiveWindows, BeginFlush(active)
        PROVE  clock <= clock' /\ lastWindow' = lastWindow
    BY <2>3, <1>2 DEF BeginFlush, Flush
  <2>4. NewCollector => clock' = clock /\ lastWindow' = clock + RestartGap - 1
    BY DEF NewCollector, NothingEmitted
  <2>5. UNCHANGED collectorVars => clock <= clock' /\ lastWindow' = lastWindow
    BY <1>2 DEF collectorVars
  <2> QED
    BY <1>0, <2>1, <2>2, <2>3, <2>4, <2>5 DEF PromptNext
<1>4. lastWindow' \in Nat /\ lastWindow <= lastWindow'
      /\ lastWindow' < clock' + RestartGap
  BY <1>2, <1>3
<1>5. ASSUME NEW slot \in emitting, QueueState(slot)
      PROVE  captured' = captured \cup {slot} /\ lastWindow' = slot
  BY <1>5 DEF QueueState, EmitState
<1>6. ASSUME NEW s \in captured
      PROVE  /\ s <= lastWindow'
             /\ \A slot \in emitting : s < slot
  <2>1. s \in Nat /\ s <= lastWindow
    BY DEF ClockOK, Slots
  <2> QED
    BY <1>2, <1>4, <2>1
<1>7. \A s \in captured' : s <= lastWindow'
  BY <1>4, <1>5, <1>6, CapturedStep
<1> QED
  BY <1>1, <1>4, <1>6, <1>7 DEF ClockOK

(* An empty buffer takes every batch that is not too big for it.           *)
LEMMA EmptyBufferSize == SizeBytes(<<>>) = 0
<1> DEFINE Sums(iter) ==
        iter = [s \in SUBSET {} |->
                    IF s = {} THEN 0
                    ELSE LET x == CHOOSE x \in s : TRUE
                         IN  Size(<<>>[x]) + iter[s \ {x}]]
<1>1. Sums([s \in SUBSET {} |-> 0])
  OBVIOUS
<1>2. Sums(CHOOSE iter : Sums(iter))
  BY <1>1
<1>3. (CHOOSE iter : Sums(iter))[{}] = 0
  BY <1>2
<1>4. DOMAIN <<>> = {}
  OBVIOUS
<1>5. SizeBytes(<<>>) = (CHOOSE iter : Sums(iter))[{}]
  BY <1>4, Zenon DEF SizeBytes, MapThenSumSet, MapThenFoldSet
<1> QED
  BY <1>3, <1>5

LEMMA PutBackNeedsBuffer ==
    ASSUME BatchFits, ContentInv, PutBack
    PROVE  buffer # <<>>
<1>1. current \in Known /\ current \in Batches
  BY KnownFacts, CurrentFacts
     DEF PutBack, ContentInv, DeliveryInv, TypeInv, TypeOK, PositionOK
<1>2. Size(current) \in Nat /\ Size(current) <= MaxBytes
  BY <1>1, DeliveryAssumption DEF BatchFits, ContentInv, ContentOK
<1>3. ~ TooBig(current) /\ ~ Overflows(<<>>, current)
  BY <1>2, EmptyBufferSize, DeliveryAssumption DEF TooBig, Overflows
<1> QED
  BY <1>3 DEF PutBack

(* Parts and joins of ascending sequences.                                 *)
LEMMA PrecedesFacts ==
    ASSUME NEW r, NEW s, NEW t,
           RangeOf(t) \subseteq RangeOf(s)
    PROVE  /\ Precedes(r, s) => Precedes(r, t)
           /\ Precedes(s, r) => Precedes(t, r)
BY DEF Precedes

LEMMA AscendingFacts ==
    ASSUME NEW s \in Seq(Slots), NEW t \in Seq(Slots)
    PROVE  /\ \A n \in 0 .. Len(s) : Ascending(s) => Ascending(SubSeq(s, 1, n))
           /\ Ascending(s) /\ Ascending(t) /\ Precedes(s, t)
                  => Ascending(s \o t)
<1>1. ASSUME NEW n \in 0 .. Len(s), Ascending(s)
      PROVE  Ascending(SubSeq(s, 1, n))
  <2>1. DOMAIN SubSeq(s, 1, n) = 1 .. n
        /\ \A i \in 1 .. n : i \in DOMAIN s /\ SubSeq(s, 1, n)[i] = s[i]
    BY PrefixFacts
  <2> QED
    BY <1>1, <2>1 DEF Ascending
<1>2. ASSUME Ascending(s), Ascending(t), Precedes(s, t)
      PROVE  Ascending(s \o t)
  <2> SUFFICES ASSUME NEW i \in DOMAIN (s \o t), NEW j \in DOMAIN (s \o t), i < j
               PROVE  (s \o t)[i] < (s \o t)[j]
    BY DEF Ascending
  <2>1. /\ i \in 1 .. Len(s) + Len(t) /\ j \in 1 .. Len(s) + Len(t)
        /\ (s \o t)[i] = IF i <= Len(s) THEN s[i] ELSE t[i - Len(s)]
        /\ (s \o t)[j] = IF j <= Len(s) THEN s[j] ELSE t[j - Len(s)]
        /\ Len(s) \in Nat /\ Len(t) \in Nat
        /\ DOMAIN s = 1 .. Len(s) /\ DOMAIN t = 1 .. Len(t)
    BY JoinFacts
  <2>2. CASE j <= Len(s)
    BY <1>2, <2>1, <2>2 DEF Ascending
  <2>3. CASE i > Len(s)
    <3>1. i - Len(s) \in DOMAIN t /\ j - Len(s) \in DOMAIN t
          /\ i - Len(s) < j - Len(s)
      BY <2>1, <2>3
    <3> QED
      BY <1>2, <2>1, <2>3, <3>1 DEF Ascending
  <2>4. CASE i <= Len(s) /\ j > Len(s)
    <3>1. i \in 1 .. Len(s) /\ j - Len(s) \in 1 .. Len(t)
      BY <2>1, <2>4
    <3>2. s[i] \in RangeOf(s) /\ t[j - Len(s)] \in RangeOf(t)
      BY <3>1 DEF RangeOf
    <3> QED
      BY <1>2, <2>1, <2>4, <3>2 DEF Precedes
  <2> QED
    BY <2>1, <2>2, <2>3, <2>4
<1> QED
  BY <1>1, <1>2

(* A batch that is put back was never sent: afterwards everything known is *)
(* older.                                                                  *)
LEMMA PutBackKnown ==
    ASSUME BatchFits, OrderInv, PutBack
    PROVE  \A b \in Known' : b \in Known /\ b.seq < current.seq
<1> USE DEF OrderInv, ContentInv, DeliveryInv, TypeInv, TypeOK
<1>1. pc = "enqueue" /\ buffer # <<>>
  BY PutBackNeedsBuffer DEF PutBack
<1>2. Known' = (Sent \cup RangeOf(buffer) \cup rejected
                   \cup {registry.batch, registryFile.batch}) \ {NoBatch}
  BY DEF PutBack, netVars, centralVars, registryVars, fateVars, Known, Sent,
         Held, RangeOf
<1>3. Known' \subseteq Known
  BY <1>2 DEF Known, Held
<1>4. current \notin RangeOf(buffer)
  <2> SUFFICES ASSUME current \in RangeOf(buffer)
               PROVE  FALSE
    OBVIOUS
  <2>1. current.seq \in Nat /\ current.seq < current.seq
    BY <1>1, CurrentFacts, BatchFields DEF OrderOK
  <2> QED
    BY <2>1
<1>5. current \notin Known'
  BY <1>1, <1>2, <1>4 DEF StatesInOrder
<1> QED
  BY <1>1, <1>3, <1>5 DEF StatesInOrder

LEMMA QueueOrderStep ==
    ASSUME BatchFits, RestartsLater, OrderInv, [Next]_vars, ~ QueueFull
    PROVE  /\ Ascending(pending)'
           /\ \A b \in Known' : Ascending(b.states) /\ Precedes(b.states, pending')
<1>a. /\ TypeInv /\ TypeOK /\ AgentTypeOK /\ PositionOK
      /\ captured \subseteq Slots /\ savedSequence <= nextSequence
      /\ ContentOK /\ ClockOK /\ StatesInOrder
  BY DEF OrderInv, ContentInv, DeliveryInv, TypeInv, TypeOK, CaptureTypeOK
<1>t. /\ AgentTypeOK /\ pending \in Seq(Slots)
      /\ \A b \in Known : b \in Batches /\ b.states \in Seq(Slots)
  BY <1>a, KnownTypes, BatchFields DEF AgentTypeOK
<1>k. \/ Known' \subseteq Known
      \/ BuildBatch /\ Known' \subseteq Known \cup {NextBatch}
  BY <1>a, KnownStep
<1>s. ASSUME Known' \subseteq Known, RangeOf(pending') \subseteq RangeOf(pending)
      PROVE  \A b \in Known' :
                 Ascending(b.states) /\ Precedes(b.states, pending')
  BY <1>a, <1>s, PrecedesFacts DEF StatesInOrder
<1>1. ASSUME NEW slot \in emitting, QueueState(slot)
      PROVE  /\ Ascending(pending)'
             /\ \A b \in Known' :
                    Ascending(b.states) /\ Precedes(b.states, pending')
  <2>1. pending' = Append(pending, slot) /\ Known' \subseteq Known
    BY <1>1, <1>k DEF QueueState, BuildBatch, HasBatch, SaveSequence, SendsAtOnce
  <2>2. \A s \in captured : s < slot
    BY <1>1, <1>a, ClockStep
  <2>3. RangeOf(pending') = RangeOf(pending) \cup {slot}
    BY <1>t, <2>1 DEF RangeOf
  <2>4. Ascending(pending')
    <3>1. /\ DOMAIN pending' = 1 .. Len(pending) + 1
          /\ DOMAIN pending = 1 .. Len(pending) /\ Len(pending) \in Nat
          /\ pending'[Len(pending) + 1] = slot
          /\ \A i \in DOMAIN pending : pending'[i] = pending[i]
      BY <1>t, <2>1
    <3>2. \A i \in DOMAIN pending : pending[i] \in RangeOf(pending)
      BY <3>1 DEF RangeOf
    <3>3. \A i \in DOMAIN pending : pending[i] < slot
      BY <1>a, <2>2, <3>2 DEF ContentOK
    <3> QED
      BY <1>a, <3>1, <3>3 DEF StatesInOrder, Ascending
  <2>5. ASSUME NEW b \in Known
        PROVE  Precedes(b.states, pending')
    <3>1. Precedes(b.states, pending) /\ RangeOf(b.states) \subseteq captured
      BY <1>a DEF StatesInOrder, ContentOK
    <3> QED
      BY <2>2, <2>3, <3>1 DEF Precedes
  <2> QED
    BY <1>a, <2>1, <2>4, <2>5 DEF StatesInOrder
<1>2. CASE BuildBatch \/ (pending # <<>> /\ pending' = RestOfPending)
  <2>1. pending # <<>> /\ pending' = RestOfPending
    BY <1>2 DEF BuildBatch, HasBatch
  <2> DEFINE n == Size(NextBatch)
  <2>2. /\ n \in Nat /\ Len(pending) \in Nat /\ n <= Len(pending)
        /\ \A i \in 1 .. n : NextBatch.states[i] = pending[i]
        /\ Len(RestOfPending) = Len(pending) - n
        /\ \A i \in 1 .. Len(RestOfPending) : RestOfPending[i] = pending[n + i]
        /\ DOMAIN pending = 1 .. Len(pending)
        /\ DOMAIN NextBatch.states = 1 .. n
        /\ DOMAIN RestOfPending = 1 .. Len(RestOfPending)
        /\ RangeOf(pending)
               = RangeOf(NextBatch.states) \cup RangeOf(RestOfPending)
    BY <1>t, <2>1, SplitFacts, BatchFacts, BatchFields DEF Size
  <2> HIDE DEF n
  <2>3. /\ Ascending(NextBatch.states) /\ Ascending(RestOfPending)
        /\ Precedes(NextBatch.states, RestOfPending)
    <3>1. ASSUME NEW i \in 1 .. Len(RestOfPending)
          PROVE  /\ n + i \in DOMAIN pending
                 /\ \A j \in 1 .. n : j \in DOMAIN pending /\ j < n + i
                 /\ \A j \in 1 .. Len(RestOfPending) :
                        i < j => n + i < n + j
      BY <2>2
    <3>2. \A j \in 1 .. n : j \in DOMAIN pending
      BY <2>2
    <3>3. Ascending(RestOfPending)
      <4> SUFFICES ASSUME NEW i \in 1 .. Len(RestOfPending),
                          NEW j \in 1 .. Len(RestOfPending), i < j
                   PROVE  RestOfPending[i] < RestOfPending[j]
        BY <2>2 DEF Ascending
      <4>1. /\ n + i \in DOMAIN pending /\ n + j \in DOMAIN pending
            /\ n + i < n + j
        BY <3>1
      <4>2. pending[n + i] < pending[n + j]
        BY <1>a, <4>1 DEF StatesInOrder, Ascending
      <4> QED
        BY <2>2, <4>2
    <3>4. Ascending(NextBatch.states)
      BY <1>a, <2>2, <3>2 DEF StatesInOrder, Ascending
    <3>5. \A i \in 1 .. n, j \in 1 .. Len(RestOfPending) :
              NextBatch.states[i] < RestOfPending[j]
      BY <1>a, <2>2, <3>1 DEF StatesInOrder, Ascending
    <3>6. Len(NextBatch.states) = n
      BY DEF n, Size
    <3> QED
      BY <3>3, <3>4, <3>5, <3>6 DEF Precedes, RangeOf
  <2>4. \A b \in Known : Ascending(b.states) /\ Precedes(b.states, RestOfPending)
    BY <1>a, <2>2, PrecedesFacts DEF StatesInOrder
  <2> QED
    BY <1>k, <2>1, <2>3, <2>4
<1>3. CASE PutBack
  <2>1. current \in Batches /\ current \in Known /\ current.states \in Seq(Slots)
    BY <1>3, <1>a, <1>t, KnownFacts, CurrentFacts DEF PutBack, PositionOK
  <2>2. Ascending(current.states) /\ Precedes(current.states, pending)
    BY <1>a, <2>1 DEF StatesInOrder
  <2>3. /\ PutInFront \in Seq(Slots) /\ Ascending(PutInFront)
        /\ RangeOf(PutInFront) = RangeOf(current.states) \cup RangeOf(pending)
    BY <1>a, <1>t, <2>1, <2>2, JoinFacts, AscendingFacts
       DEF StatesInOrder, PutInFront
  <2>4. Least(PendingLimit, Len(PutInFront)) \in 0 .. Len(PutInFront)
    BY <2>3, LimitFacts DEF Least
  <2>5. Ascending(pending') /\ RangeOf(pending') \subseteq RangeOf(PutInFront)
    BY <1>3, <2>3, <2>4, AscendingFacts, PrefixFacts DEF PutBack
  <2>6. ASSUME NEW b \in Known'
        PROVE  Ascending(b.states) /\ Precedes(b.states, pending')
    <3>1. b \in Known /\ b.seq < current.seq
      BY <1>3, PutBackKnown
    <3>2. /\ Ascending(b.states) /\ Precedes(b.states, pending)
          /\ Precedes(b.states, current.states)
      BY <1>a, <2>1, <3>1 DEF StatesInOrder
    <3>3. Precedes(b.states, PutInFront)
      BY <2>3, <3>2 DEF Precedes
    <3> QED
      BY <2>5, <3>2, <3>3, PrecedesFacts
  <2> QED
    BY <2>5, <2>6
<1>4. CASE Known' \subseteq Known /\ pending' = pending
  BY <1>4, <1>a, <1>s DEF StatesInOrder
<1>5. CASE Known' \subseteq Known /\ pending' = <<>>
  <2>1. RangeOf(pending') = {} /\ Ascending(pending')
    BY <1>5 DEF RangeOf, Ascending
  <2> QED
    BY <1>5, <1>s, <2>1
<1> QED
  BY <1>1, <1>2, <1>3, <1>4, <1>5, <1>k, QueueStep DEF QueueMoves

(* Newer batches hold newer states.                                        *)
LEMMA BatchOrderStep ==
    ASSUME OrderInv, [Next]_vars
    PROVE  \A b, c \in Known' : b.seq < c.seq => Precedes(b.states, c.states)
<1> USE DEF OrderInv, ContentInv, DeliveryInv, TypeInv, TypeOK
<1>1. CASE Known' \subseteq Known
  BY <1>1 DEF StatesInOrder
<1>2. CASE BuildBatch /\ Known' \subseteq Known \cup {NextBatch}
  <2>1. pending # <<>> /\ savedSequence <= nextSequence
    BY <1>2 DEF BuildBatch, HasBatch
  <2>2. NextBatch.seq = nextSequence /\ nextSequence \in Nat
        /\ savedSequence \in Nat
        /\ RangeOf(NextBatch.states) \subseteq RangeOf(pending)
    BY <2>1, BatchFacts, SplitFacts DEF AgentTypeOK
  <2>3. \A b \in Known : b.seq \in Nat /\ b.seq < nextSequence
    BY <2>1, <2>2, KnownTypes, BatchFields DEF IssuedOnce
  <2>4. \A b \in Known : Precedes(b.states, NextBatch.states)
    BY <2>2, PrecedesFacts DEF StatesInOrder
  <2>5. ASSUME NEW b \in Known \cup {NextBatch}, NEW c \in Known \cup {NextBatch},
               b.seq < c.seq
        PROVE  Precedes(b.states, c.states)
    <3>1. b # NextBatch
      BY <2>2, <2>3, <2>5
    <3> QED
      BY <2>4, <2>5, <3>1 DEF StatesInOrder
  <2> QED
    BY <1>2, <2>5
<1> QED
  BY <1>1, <1>2, KnownStep

(* While older batches are buffered, a new one is kept back until it is    *)
(* stored, too.                                                            *)
LEMMA UnsentStep ==
    ASSUME OrderInv, [Next]_vars, pc' = "enqueue", buffer' # <<>>
    PROVE  /\ \A b \in Known' : b # current' => b.seq < current'.seq
           /\ current' \notin (Sent \cup rejected
                                \cup {registry.batch, registryFile.batch})'
<1> USE NoBatchAssumption
        DEF OrderInv, ContentInv, DeliveryInv, TypeInv, TypeOK
<1>1. CASE BuildBatch
  <2>1. pending # <<>> /\ savedSequence <= nextSequence
        /\ current' = NextBatch
    BY <1>1 DEF BuildBatch, HasBatch
  <2>2. NextBatch.seq = nextSequence /\ nextSequence \in Nat
        /\ savedSequence \in Nat /\ NextBatch # NoBatch
    BY <2>1, BatchFacts DEF AgentTypeOK
  <2>3. \A b \in Known : b.seq \in Nat /\ b.seq < nextSequence
    BY <2>1, <2>2, KnownTypes, BatchFields DEF IssuedOnce
  <2>4. Known' \subseteq Known \cup {NextBatch}
    BY KnownStep
  <2>5. UNCHANGED <<requests, handling, registry, registryFile, rejected>>
    BY <1>1
       DEF BuildBatch, HasBatch, SaveSequence, SendsAtOnce, netVars,
           centralVars, registryVars, fateVars
  <2>6. (Sent \cup rejected \cup {registry.batch, registryFile.batch})'
            \subseteq Known \cup {NoBatch}
    BY <2>5 DEF Sent, Known
  <2>7. NextBatch \notin Known
    BY <2>2, <2>3
  <2> QED
    BY <2>1, <2>2, <2>3, <2>4, <2>6, <2>7
<1>2. CASE FlushSends
  BY <1>2 DEF FlushSends
<1>3. CASE ~ BuildBatch /\ ~ FlushSends
  <2>1. Moves /\ Known' \subseteq Known
    BY <1>3, MovesStep, KnownStep
  <2>2. pc = "enqueue" /\ current' = current /\ buffer # <<>>
    BY <2>1, BufferFacts DEF Moves, BufferMoves, AgentTypeOK
  <2>3. rejected' = rejected
    BY <2>2, VerdictStep DEF VerdictMoves, Waiting
  <2>4. {registry.batch, registryFile.batch}'
            \subseteq {registry.batch, registryFile.batch} \cup Sent
    BY <2>1 DEF Moves, RecordsMove, NewRecord, Sent
  <2> QED
    BY <2>1, <2>2, <2>3, <2>4 DEF Moves, StatesInOrder
<1> QED
  BY <1>1, <1>2, <1>3

LEMMA OrderInvStep ==
    ASSUME BatchFits, RestartsLater, OrderInv, ContentInv', [Next]_vars,
           ~ QueueFull
    PROVE  OrderInv'
<1>1. HandlingOK'
  BY HandlingStep DEF OrderInv, ContentInv, DeliveryInv
<1>2. ClockOK'
  BY ClockStep
     DEF OrderInv, ContentInv, DeliveryInv, TypeInv, TypeOK, CaptureTypeOK
<1>3. StatesInOrder'
  BY QueueOrderStep, BatchOrderStep, UnsentStep DEF StatesInOrder
<1> QED
  BY <1>1, <1>2, <1>3 DEF OrderInv

LEMMA OrderInit == ASSUME Init, RestartsLater PROVE HandlingOK /\ ClockOK /\ StatesInOrder
<1>1. Known = {}
  BY DEF Init, Known, Sent, Held, RangeOf, NoRecord
<1>2. Ascending(pending)
  BY DEF Init, Ascending
<1>3. ClockOK
  BY PromptInit, CollectorAssumption
     DEF Init, CollectorInit, ClockOK, RestartsLater
<1> QED
  BY <1>1, <1>2, <1>3 DEF Init, HandlingOK, StatesInOrder

LEMMA OrderInvariant ==
    BatchFits /\ RestartsLater =>
        (Spec /\ [][~ QueueFull]_vars => []OrderInv)
<1> SUFFICES ASSUME BatchFits, RestartsLater
             PROVE  Spec /\ [][~ QueueFull]_vars => []OrderInv
  OBVIOUS
<1>1. Init => HandlingOK /\ ClockOK /\ StatesInOrder
  BY OrderInit
<1>2. Init /\ ContentInv => OrderInv
  BY <1>1 DEF OrderInv
<1>3. /\ OrderInv /\ ContentInv' /\ [Next]_vars /\ [~ QueueFull]_vars
      => OrderInv'
  <2>1. UNCHANGED vars => ~ QueueFull
    BY DEF vars, captureVars, collectorVars, QueueFull, EmissionRefused
  <2> QED
    BY <2>1, OrderInvStep
<1> QED
  BY <1>2, <1>3, ContentInvariant, PTL DEF Spec

(* The states an agent holds, from the oldest batch file to the newest     *)
(* queued state, are in the order of capture and each once, whatever is    *)
(* lost, retried, evicted, put back or restarted, as long as the queue     *)
(* refuses none of them.                                                   *)
THEOREM AgentHoldsInOrder ==
    BatchFits /\ RestartsLater =>
        (Spec /\ [][~ QueueFull]_vars => []AgentKeepsOrder)
<1> SUFFICES ASSUME BatchFits, RestartsLater
             PROVE  Spec /\ [][~ QueueFull]_vars => []AgentKeepsOrder
  OBVIOUS
<1>1. OrderInv => AgentKeepsOrder
  <2> SUFFICES ASSUME OrderInv
               PROVE  AgentKeepsOrder
    OBVIOUS
  <2> USE DEF OrderInv, ContentInv, DeliveryInv, TypeInv, TypeOK
  <2>1. buffer \in Seq(Batches) /\ RangeOf(buffer) \subseteq Known
    BY KnownFacts DEF AgentTypeOK
  <2>2. pc \in {"direct", "enqueue"} =>
            /\ current \in Batches /\ current \in Known
            /\ \A b \in RangeOf(buffer) : b.seq < current.seq
    <3>1. pc \in {"direct", "enqueue"} => current \in Batches /\ current \in Known
      BY CurrentFacts, KnownFacts DEF PositionOK
    <3>2. pc = "direct" => RangeOf(buffer) = {}
      BY DEF PositionOK, RangeOf
    <3> QED
      BY <3>1, <3>2 DEF OrderOK
  <2>3. \A i, j \in DOMAIN buffer : i < j => buffer[i].seq < buffer[j].seq
    BY DEF OrderOK
  <2>4. \A i \in DOMAIN HeldBatches :
            /\ HeldBatches[i] \in Known
            /\ \A j \in DOMAIN HeldBatches :
                   i < j => HeldBatches[i].seq < HeldBatches[j].seq
    <3>0. /\ DOMAIN buffer = 1 .. Len(buffer) /\ Len(buffer) \in Nat
          /\ \A i \in DOMAIN buffer : buffer[i] \in RangeOf(buffer)
      BY <2>1 DEF RangeOf
    <3>1. CASE pc \in {"direct", "enqueue"}
      <4>1. HeldBatches = Append(buffer, current)
        BY <3>1 DEF HeldBatches
      <4>2. /\ DOMAIN HeldBatches = 1 .. Len(buffer) + 1
            /\ HeldBatches[Len(buffer) + 1] = current
            /\ \A i \in DOMAIN buffer : HeldBatches[i] = buffer[i]
        BY <2>1, <4>1
      <4> QED
        BY <2>1, <2>2, <2>3, <3>0, <3>1, <4>2
    <3>2. CASE pc \notin {"direct", "enqueue"}
      <4>1. HeldBatches = buffer
        BY <3>2 DEF HeldBatches
      <4> QED
        BY <2>1, <2>3, <3>0, <4>1
    <3> QED
      BY <3>1, <3>2
  <2> QED
    BY <2>4 DEF StatesInOrder, AgentKeepsOrder
<1> QED
  BY <1>1, OrderInvariant, PTL

(***************************************************************************)
(* The promise.                                                            *)
(***************************************************************************)
LEMMA JoinNewest ==
    ASSUME NEW s \in Seq(Slots), NEW t \in Seq(Slots), Len(t) >= 1
    PROVE  s \o t # <<>> /\ Newest(s \o t) = Newest(t)
<1>1. /\ Len(s) \in Nat /\ Len(t) \in Nat \ {0}
      /\ Len(s \o t) = Len(s) + Len(t)
  BY JoinFacts
<1>2. /\ Len(s) + Len(t) \in 1 .. Len(s) + Len(t)
      /\ ~ (Len(s) + Len(t) <= Len(s))
      /\ Len(s) + Len(t) - Len(s) = Len(t)
  BY <1>1
<1>3. (s \o t)[Len(s) + Len(t)] = t[Len(t)]
  BY <1>2, JoinFacts
<1> QED
  BY <1>1, <1>3 DEF Newest

LEMMA PromiseFacts ==
    ASSUME PromiseInv, RecordsBatch
    PROVE  /\ handling.batch \in Known /\ handling.batch.states \in Seq(Slots)
           /\ Size(handling.batch) \in 1 .. BatchSize
           /\ recorded # <<>> =>
                  Newest(recorded) < handling.batch.states[1]
           /\ recorded' = recorded \o handling.batch.states
           /\ Newest(recorded') = Newest(handling.batch.states)
<1> USE NoBatchAssumption
        DEF PromiseInv, OrderInv, ContentInv, DeliveryInv, TypeInv, TypeOK
<1>1. /\ handling # NoBatch /\ handling.batch \in Known
      /\ handling.batch.states \in Seq(Slots)
      /\ registry.seq < handling.batch.seq
  BY KnownFacts, HandlingFacts, BatchFields
     DEF RecordsBatch, Ingested, HandlingOK
<1>2. Size(handling.batch) \in 1 .. BatchSize
  BY <1>1 DEF ContentOK
<1>3. recorded \in Seq(Slots)
      /\ recorded' = recorded \o handling.batch.states
  BY DEF RecordsBatch, FateTypeOK
<1>4. Newest(recorded') = Newest(handling.batch.states)
  <2>1. Len(handling.batch.states) >= 1
    BY <1>1, <1>2, DeliveryAssumption DEF Size
  <2> QED
    BY <1>1, <1>3, <2>1, JoinNewest
<1>5. ASSUME recorded # <<>>
      PROVE  Newest(recorded) < handling.batch.states[1]
  <2>1. registry.batch \in Known /\ registry.batch.seq = registry.seq
        /\ Newest(recorded) <= Newest(registry.batch.states)
    BY <1>5, KnownFacts DEF RecordedOK, OrderOK, RecordOK
  <2>2. /\ registry.batch.states \in Seq(Slots)
        /\ Size(registry.batch) \in 1 .. BatchSize
    BY <2>1, KnownFacts, BatchFields DEF ContentOK
  <2>3. /\ Newest(registry.batch.states) \in RangeOf(registry.batch.states)
        /\ handling.batch.states[1] \in RangeOf(handling.batch.states)
        /\ Newest(registry.batch.states) \in Nat
        /\ handling.batch.states[1] \in Nat
    <3>1. \A s \in Seq(Slots) :
              Len(s) >= 1 => /\ s[1] \in RangeOf(s) /\ s[Len(s)] \in RangeOf(s)
                             /\ s[1] \in Nat /\ s[Len(s)] \in Nat
      BY DEF RangeOf, Slots
    <3> QED
      BY <1>1, <1>2, <2>2, <3>1, DeliveryAssumption DEF Newest, Size
  <2>4. Newest(registry.batch.states) < handling.batch.states[1]
    BY <1>1, <2>1, <2>3 DEF StatesInOrder, Precedes
  <2>5. Newest(recorded) \in Nat
    BY <1>3, <1>5 DEF Newest, Slots
  <2> QED
    BY <2>1, <2>3, <2>4, <2>5
<1> QED
  BY <1>1, <1>2, <1>3, <1>4, <1>5

LEMMA RecordedStep ==
    ASSUME RegistrySurvives, PromiseInv, [Next]_vars
    PROVE  RecordedOK'
<1> USE DEF PromiseInv, OrderInv, ContentInv, DeliveryInv, TypeInv
<1>1. CASE RecordsBatch
  <2>1. registry'.batch = handling.batch /\ handling.batch \in Batches
        /\ Newest(recorded') = Newest(handling.batch.states)
        /\ handling.batch.states \in Seq(Slots)
        /\ Size(handling.batch) \in 1 .. BatchSize
    BY <1>1, PromiseFacts, KnownTypes DEF RecordsBatch, NewRecord
  <2>2. Newest(handling.batch.states) \in Nat
    BY <2>1, DeliveryAssumption DEF Size, Newest, Slots
  <2> QED
    BY <2>1, <2>2, NoBatchAssumption DEF RecordedOK, Newest
<1>2. CASE ~ RecordsBatch
  <2>1. recorded' = recorded /\ (registry' = registry \/ RestartCentral)
    BY <1>2, ServiceStep
       DEF ServiceMoves, Admit, IngestState, SaveRegistry, RestartCentral,
           registryVars, fateVars
  <2>2. RestartCentral => registry' = registry
    BY DEF RestartCentral, Fault, RegistrySurvives, AckInv, AckOK
  <2> QED
    BY <2>1, <2>2 DEF RecordedOK, Newest
<1> QED
  BY <1>1, <1>2

LEMMA PromiseStep ==
    ASSUME RestartsLater, PromiseInv, [Next]_vars, ~ QueueFull
    PROVE  [Promise!Next]_<<captured, recorded>>
<1> USE DEF PromiseInv, OrderInv, ContentInv, DeliveryInv, TypeInv, TypeOK
<1>1. ASSUME NEW slot \in emitting, QueueState(slot)
      PROVE  Promise!Next
  <2>1. \A s \in captured : s < slot
    BY <1>1, ClockStep DEF CaptureTypeOK
  <2>2. captured' = captured \cup {slot} /\ recorded' = recorded
    BY <1>1 DEF QueueState, fateVars
  <2> QED
    BY <2>1, <2>2 DEF Promise!Next, Promise!Capture
<1>2. CASE RecordsBatch
  <2> DEFINE run == handling.batch.states
             first == run[1]
             length == Len(run)
  <2>1. /\ run \in Seq(Slots) /\ length \in 1 .. BatchSize
        /\ handling.batch \in Known
        /\ recorded # <<>> => recorded[Len(recorded)] < first
        /\ recorded' = recorded \o run
    BY <1>2, PromiseFacts DEF Size, Newest
  <2>2. Contiguous(run)
    BY <1>2 DEF RecordsBatch, Ingested, HandlingOK, WellFormed
  <2>3. \A i \in 1 .. length : run[i] = first + i - 1
    BY <2>1, <2>2, ContiguousRun
  <2>4. run = [i \in 1 .. length |-> first + i - 1]
    <3>1. run = [i \in 1 .. length |-> run[i]]
      BY <2>1
    <3> QED
      BY <2>3, <3>1
  <2>5. RangeOf(run) \subseteq captured /\ first \in Nat
        /\ length \in Nat /\ length >= 1
    BY <2>1, DeliveryAssumption DEF ContentOK, Slots
  <2>6. \A s \in first .. first + length - 1 : s \in captured
    <3> SUFFICES ASSUME NEW s \in first .. first + length - 1
                 PROVE  s \in RangeOf(run)
      BY <2>5
    <3>1. s - first + 1 \in 1 .. length
      BY <2>5
    <3>2. run[s - first + 1] = first + (s - first + 1) - 1
      BY <2>3, <3>1
    <3>3. run[s - first + 1] = s
      BY <2>5, <3>2
    <3> QED
      BY <3>1, <3>3 DEF RangeOf
  <2>7. first \in captured
    BY <2>5 DEF RangeOf
  <2>8. captured' = captured
    BY <1>2, CapturedStep DEF RecordsBatch, Ingested, QueueState, centralVars
  <2> HIDE DEF run, first, length
  <2>9. Promise!Record(first, length)
    BY <2>1, <2>4, <2>6, <2>8 DEF Promise!Record
  <2> QED
    BY <2>1, <2>7, <2>9 DEF Promise!Next
<1>3. CASE ~ RecordsBatch /\ ~ \E slot \in emitting : QueueState(slot)
  <2>1. captured' = captured
    BY <1>3, CapturedStep
  <2>2. recorded' = recorded
    BY <1>3, ServiceStep
       DEF ServiceMoves, Admit, IngestState, SaveRegistry, RestartCentral,
           fateVars
  <2> QED
    BY <2>1, <2>2
<1> QED
  BY <1>1, <1>2, <1>3

(* Whatever fails, the service records the captured states in the order of *)
(* capture and each at most once, a batch of consecutive slots at a time:  *)
(* the abstract delivery that OrderedDelivery describes.                   *)
THEOREM DeliveryKeepsPromise ==
    BatchFits /\ RestartsLater /\ RegistrySurvives =>
        (Spec /\ [][~ QueueFull]_vars => DeliversInOrder)
<1> SUFFICES ASSUME BatchFits, RestartsLater, RegistrySurvives
             PROVE  Spec /\ [][~ QueueFull]_vars => DeliversInOrder
  OBVIOUS
<1>1. Init => RecordedOK /\ Promise!Init
  BY DEF Init, RecordedOK, Promise!Init
<1>2. PromiseInv /\ [Next]_vars => RecordedOK'
  BY RecordedStep
<1>3. PromiseInv /\ [Next]_vars /\ [~ QueueFull]_vars
          => [Promise!Next]_<<captured, recorded>>
  <2>1. UNCHANGED vars => ~ QueueFull
    BY DEF vars, captureVars, collectorVars, QueueFull, EmissionRefused
  <2> QED
    BY <2>1, PromiseStep
<1>4. Spec /\ [][~ QueueFull]_vars => [](OrderInv /\ AckInv)
  BY OrderInvariant, AckInvariant, PTL
<1>5. Spec /\ [][~ QueueFull]_vars => []PromiseInv
  BY <1>1, <1>2, <1>4, PTL DEF Spec, PromiseInv
<1> QED
  BY <1>1, <1>3, <1>5, PTL DEF Spec, DeliversInOrder, Promise!Spec

(***************************************************************************)
(* Recorded once.                                                          *)
(***************************************************************************)

(* A state that the runtime takes is newer than its history and ends it.   *)
LEMMA TakenFacts ==
    ASSUME RuntimeInvariant, NEW slot \in Slots,
           \/ RestartHistory(slot)
           \/ \E ok \in BOOLEAN : ExtendHistory(slot, ok)
    PROVE  /\ states' # <<>> /\ Newest(states') = slot
           /\ states # <<>> => Newest(states) < slot
<1>1. /\ states \in Seq(Slots) /\ Len(states) <= SequenceLength
      /\ Contiguous(states) /\ slot \in Nat
      /\ states # <<>> => Newest(states) \in Nat
  BY DEF RuntimeInvariant, RuntimeTypeOK, HistoryIsContiguous, Newest, Slots
<1>2. CASE RestartHistory(slot)
  BY <1>1, <1>2 DEF RestartHistory, LeavesGap, CrossesDay, Newest
<1>3. ASSUME NEW ok \in BOOLEAN, ExtendHistory(slot, ok)
      PROVE  /\ states' # <<>> /\ Newest(states') = slot
             /\ states # <<>> => Newest(states) < slot
  <2>1. states # <<>> => /\ slot = Newest(states) + 1
                         /\ DayOf(slot) = DayOf(Newest(states))
    BY <1>1, <1>3 DEF ExtendHistory, DoesNotAdvance, LeavesGap, CrossesDay
  <2>2. states' = Pushed(states, slot)
    BY <1>3 DEF ExtendHistory
  <2>3. /\ Newest(states') = slot
        /\ Len(states') = IF Len(states) < SequenceLength
                          THEN Len(states) + 1 ELSE SequenceLength
    BY <1>1, <2>1, <2>2, PushedFacts
  <2>4. states' # <<>>
    BY <1>1, <2>3, BufferAssumption
  <2> QED
    BY <1>1, <2>1, <2>3, <2>4
<1> QED
  BY <1>2, <1>3

(* The batch under way: a run of captured states.                          *)
LEMMA HandledFacts ==
    ASSUME ContentInv, HandlingOK, handling # NoBatch
    PROVE  /\ handling.batch.states \in Seq(Slots)
           /\ Len(handling.batch.states) \in Nat \ {0}
           /\ \A i \in 1 .. Len(handling.batch.states) :
                  /\ handling.batch.states[i] \in Nat
                  /\ handling.batch.states[i]
                         = handling.batch.states[1] + i - 1
           /\ RangeOf(handling.batch.states) \subseteq captured
           /\ handling.next \in Nat \ {0}
           /\ handling.next <= Len(handling.batch.states) + 1
           /\ handling' = [handling EXCEPT !.next = @ + 1] =>
                  /\ handling' # NoBatch /\ handling'.batch = handling.batch
                  /\ handling'.next = handling.next + 1
<1> USE DEF ContentInv, DeliveryInv, TypeInv, TypeOK, CentralTypeOK
<1>1. /\ handling.batch \in Known /\ handling.batch.states \in Seq(Slots)
      /\ handling \in [batch : Batches, live : BOOLEAN, next : Nat \ {0}]
  BY KnownFacts, HandlingFacts, BatchFields
<1>2. Size(handling.batch) \in 1 .. BatchSize
      /\ RangeOf(handling.batch.states) \subseteq captured
  BY <1>1 DEF ContentOK
<1>3. Len(handling.batch.states) \in Nat \ {0}
  BY <1>1, <1>2, DeliveryAssumption DEF Size
<1>4. Contiguous(handling.batch.states)
      /\ handling.next <= Len(handling.batch.states) + 1
  BY DEF HandlingOK, WellFormed, Size
<1>5. \A i \in 1 .. Len(handling.batch.states) :
          /\ handling.batch.states[i] \in Nat
          /\ handling.batch.states[i] = handling.batch.states[1] + i - 1
  BY <1>1, <1>4, ContiguousRun DEF Slots
<1>6. ASSUME handling' = [handling EXCEPT !.next = @ + 1]
      PROVE  /\ handling' # NoBatch /\ handling'.batch = handling.batch
             /\ handling'.next = handling.next + 1
  <2>1. handling' \in [batch : Batches, live : BOOLEAN, next : Nat \ {0}]
    BY <1>1, <1>6
  <2> QED
    BY <1>1, <1>6, <2>1, NoBatchAssumption
<1> QED
  BY <1>1, <1>2, <1>3, <1>4, <1>5, <1>6

(* A batch is recorded only when the history has taken all of it, so its   *)
(* states are newer than what was recorded before.                         *)
LEMMA OnceRecords ==
    ASSUME OnceInv, RecordsBatch, states' = states, captured' = captured
    PROVE  OnceOK'
<1> DEFINE run == handling.batch.states
<1>1. /\ handling # NoBatch /\ handling' = NoBatch
      /\ recorded' = recorded \o run
      /\ handling.next > Len(run)
  BY DEF RecordsBatch, Ingested, Size
<1>2. /\ run \in Seq(Slots) /\ Len(run) \in Nat \ {0}
      /\ \A i \in 1 .. Len(run) : run[i] \in Nat /\ run[i] = run[1] + i - 1
      /\ RangeOf(run) \subseteq captured
      /\ handling.next = Len(run) + 1
  BY <1>1, HandledFacts DEF OnceInv
<1>3. /\ recorded \in Seq(Slots)
      /\ recorded # <<>> => Newest(recorded) \in Nat
  BY DEF OnceInv, ContentInv, DeliveryInv, TypeInv, TypeOK, FateTypeOK, Newest,
         Slots
<1>4. /\ states # <<>> /\ Newest(states) = Newest(run)
      /\ recorded # <<>> => Newest(recorded) < run[1]
  BY <1>1, <1>2 DEF OnceInv, OnceOK, Newest
<1> HIDE DEF run
<1>5. Ascending(run)
  BY <1>2 DEF Ascending
<1>6. Precedes(recorded, run)
  <2> SUFFICES ASSUME NEW i \in DOMAIN recorded, NEW j \in DOMAIN run
               PROVE  recorded[i] < run[j]
    BY DEF Precedes, RangeOf
  <2>1. /\ Len(recorded) \in Nat /\ DOMAIN recorded = 1 .. Len(recorded)
        /\ recorded[i] \in Slots
    BY <1>3
  <2>2. /\ recorded # <<>> /\ recorded[i] \in Nat
        /\ Len(recorded) \in DOMAIN recorded /\ i <= Len(recorded)
    BY <2>1 DEF Slots
  <2>4. Ascending(recorded) /\ Newest(recorded) = recorded[Len(recorded)]
    BY DEF OnceInv, OnceOK, RecordedOnce, Newest
  <2>5. i < Len(recorded) => recorded[i] < recorded[Len(recorded)]
    BY <2>2, <2>4 DEF Ascending
  <2>6. recorded[i] <= Newest(recorded)
    BY <1>3, <2>1, <2>2, <2>4, <2>5
  <2>3. j \in 1 .. Len(run) /\ 1 \in 1 .. Len(run) /\ run[1] <= run[j]
    BY <1>2
  <2>7. /\ run[1] \in Nat /\ run[j] \in Nat /\ Newest(recorded) \in Nat
        /\ Newest(recorded) < run[1]
    BY <1>2, <1>3, <1>4, <2>2, <2>3
  <2> QED
    BY <2>2, <2>3, <2>6, <2>7
<1>7. Ascending(recorded') /\ RangeOf(recorded') \subseteq captured
  <2>1. Ascending(recorded) /\ RangeOf(recorded) \subseteq captured
    BY DEF OnceInv, OnceOK, RecordedOnce
  <2>2. Ascending(recorded \o run)
    BY <1>2, <1>3, <1>5, <1>6, <2>1, AscendingFacts
  <2>3. RangeOf(recorded \o run) = RangeOf(recorded) \cup RangeOf(run)
    BY <1>2, <1>3, JoinFacts
  <2> QED
    BY <1>1, <1>2, <2>1, <2>2, <2>3
<1>8. Newest(recorded') = Newest(states) /\ Newest(states) \in Nat
  <2>1. Newest(recorded') = Newest(run)
    BY <1>1, <1>2, <1>3, JoinNewest
  <2> QED
    BY <1>2, <1>4, <2>1 DEF Newest
<1> QED
  BY <1>1, <1>4, <1>7, <1>8 DEF OnceOK, RecordedOnce, Newest, RangeOf

LEMMA OnceStep ==
    ASSUME "central_restart" \notin Faults, OnceInv, [Next]_vars
    PROVE  OnceOK'
<1> USE DEF OnceInv, ContentInv, DeliveryInv, TypeInv, TypeOK
<1>0. /\ RuntimeInvariant
      /\ recorded \in Seq(Slots) /\ states \in Seq(Slots)
      /\ recorded # <<>> => Newest(recorded) \in Nat
      /\ states # <<>> => Newest(states) \in Nat
  BY DEF RuntimeInvariant, RuntimeTypeOK, FateTypeOK, Newest, Slots
<1>1. captured \subseteq captured'
  BY CapturedStep DEF QueueState
<1>2. recorded' = recorded => RecordedOnce'
  BY <1>1 DEF OnceOK, RecordedOnce, RangeOf, Ascending
<1>3. Ingesting => /\ handling # NoBatch
                   /\ handling.next \in 1 .. Len(handling.batch.states)
                   /\ NextState \in Nat
  BY HandledFacts DEF Ingesting, Size, NextState
<1>4. CASE IngestState
  <2>1. /\ Ingesting /\ recorded' = recorded
        /\ handling' # NoBatch /\ handling'.batch = handling.batch
        /\ handling'.next = handling.next + 1
    BY <1>3, <1>4, HandledFacts DEF IngestState, fateVars
  <2>2. /\ states' # <<>> /\ Newest(states') = NextState
        /\ states # <<>> => Newest(states) < NextState
    BY <1>0, <1>3, <1>4, <2>1, TakenFacts DEF IngestState, TakeState, Slots
  <2>3. handling'.batch.states[handling'.next - 1] = NextState
    BY <1>3, <2>1 DEF NextState
  <2>4. ASSUME recorded # <<>>
        PROVE  /\ Newest(recorded) <= NextState
               /\ Newest(recorded) < handling.batch.states[1]
    <3>1. states # <<>> /\ Newest(recorded) <= Newest(states)
      BY <2>4 DEF OnceOK
    <3>2. Newest(recorded) < NextState
      BY <1>0, <1>3, <2>1, <2>2, <2>4, <3>1
    <3>3. CASE handling.next = 1
      BY <1>0, <1>3, <2>1, <2>4, <3>2, <3>3 DEF NextState
    <3>4. CASE handling.next # 1
      <4>1. handling # NoBatch /\ handling.next > 1
        BY <1>3, <2>1, <3>4
      <4>2. Newest(recorded) < handling.batch.states[1]
        BY <2>4, <4>1 DEF OnceOK
      <4> QED
        BY <1>0, <1>3, <2>1, <2>4, <3>2, <4>2
    <3> QED
      BY <1>0, <1>3, <2>1, <2>4, <3>2, <3>3, <3>4
  <2> QED
    BY <1>2, <2>1, <2>2, <2>3, <2>4 DEF OnceOK, Newest
<1>5. ASSUME NEW status \in {"invalid", "transient"}, InferenceRaises(status)
      PROVE  OnceOK'
  <2>1. /\ Ingesting /\ recorded' = recorded /\ handling' = NoBatch
        /\ ExtendHistory(NextState, FALSE)
    BY <1>5 DEF InferenceRaises, fateVars
  <2>2. /\ states' # <<>> /\ Newest(states') = NextState
        /\ states # <<>> => Newest(states) < NextState
    BY <1>0, <1>3, <2>1, TakenFacts DEF Slots
  <2>3. recorded # <<>> => Newest(recorded) <= NextState
    BY <1>0, <1>3, <2>1, <2>2 DEF OnceOK
  <2> QED
    BY <1>2, <2>1, <2>2, <2>3 DEF OnceOK, Newest
<1>6. CASE UNCHANGED rtVars /\ ~ IngestState
  <2>1. states' = states
    BY <1>6 DEF rtVars
  <2>2. CASE RecordsBatch
    <3>1. captured' = captured
      BY <2>2, CapturedStep
         DEF RecordsBatch, Ingested, QueueState, centralVars
    <3> QED
      BY <2>1, <2>2, <3>1, OnceRecords
  <2>3. CASE ~ RecordsBatch
    <3>1. /\ recorded' = recorded
          /\ \/ handling' = NoBatch
             \/ handling'.next = 1
             \/ /\ handling # NoBatch
                /\ handling'.batch = handling.batch
                /\ handling'.next = handling.next
      BY <1>6, <2>3, ServiceStep
         DEF ServiceMoves, Admit, SaveRegistry, RestartCentral, Fault, fateVars
    <3> QED
      BY <1>2, <2>1, <3>1 DEF OnceOK, Newest
  <2> QED
    BY <2>2, <2>3
<1>7. ~ RestartCentral
  BY DEF RestartCentral, Fault
<1> QED
  BY <1>4, <1>5, <1>6, <1>7, HistoryMoves

(* While the service runs on, it records every captured state at most once *)
(* and in the order of time, whatever the agent repeats under new numbers, *)
(* whatever is lost, retried or restarted on its side and whichever step   *)
(* of the handler fails.                                                   *)
THEOREM RecordsEachOnce ==
    "central_restart" \notin Faults => (Spec => []RecordedOnce)
<1> SUFFICES ASSUME "central_restart" \notin Faults
             PROVE  Spec => []RecordedOnce
  OBVIOUS
<1>1. Init => OnceOK
  BY DEF Init, OnceOK, RecordedOnce, Ascending, RangeOf
<1>2. OnceInv /\ [Next]_vars => OnceOK'
  BY OnceStep
<1>3. FinalInv => HandlingOK
  BY DEF FinalInv
<1>4. OnceInv => RecordedOnce
  BY DEF OnceInv, OnceOK
<1> QED
  BY <1>1, <1>2, <1>3, <1>4, ContentInvariant, FinalInvariant, PTL
     DEF Spec, OnceInv

(***************************************************************************)
(* Rejection.                                                              *)
(***************************************************************************)

(* A well-formed batch that is newer than the record is also newer than    *)
(* the history, state by state: the runtime never refuses it.              *)
LEMMA NeverRefuses ==
    ASSUME OrderInv, HistoryOK, Ingesting
    PROVE  ~ DoesNotAdvance(states, NextState)
<1> DEFINE run == handling.batch.states
           n == handling.next
<1>0. /\ TypeOK /\ CentralTypeOK /\ HandlingOK /\ OrderOK /\ ContentOK
      /\ StatesInOrder
  BY DEF OrderInv, ContentInv, DeliveryInv, TypeInv, TypeOK
<1>1. /\ handling # NoBatch /\ handling.batch \in Known
      /\ run \in Seq(Slots) /\ n \in Nat \ {0} /\ n <= Len(run)
      /\ Contiguous(run) /\ registry.seq < handling.batch.seq
  BY <1>0, KnownFacts, HandlingFacts, BatchFields
     DEF Ingesting, Size, HandlingOK, WellFormed, CentralTypeOK
<1>2. n \in 1 .. Len(run) /\ NextState = run[n] /\ run[n] \in Nat
  BY <1>1 DEF NextState, Slots
<1> SUFFICES ASSUME states # <<>>, NextState <= Newest(states)
             PROVE  FALSE
  BY DEF DoesNotAdvance
<1>3. CASE n > 1
  <2>1. n - 1 \in 1 .. Len(run) - 1 /\ n - 1 \in 1 .. Len(run)
        /\ (n - 1) + 1 = n
    BY <1>1, <1>3
  <2>2. run[n] = run[n - 1] + 1
    BY <1>1, <2>1 DEF Contiguous
  <2>3. Newest(states) = run[n - 1]
    BY <1>1, <1>3 DEF HistoryOK
  <2>4. \A i \in 1 .. Len(run) : run[i] \in Nat
    BY <1>1 DEF Slots
  <2>5. run[n - 1] \in Nat
    BY <2>1, <2>4
  <2> QED
    BY <1>2, <2>2, <2>3, <2>5
<1>4. CASE n = 1
  <2>1. registry.batch \in Known /\ registry.batch.seq = registry.seq
        /\ Newest(states) <= Newest(registry.batch.states)
    BY <1>0, <1>1, <1>4, KnownFacts DEF HistoryOK, OrderOK, RecordOK
  <2>2. /\ registry.batch.states \in Seq(Slots)
        /\ Size(registry.batch) \in 1 .. BatchSize
    BY <1>0, <2>1, KnownFacts, BatchFields DEF ContentOK
  <2>3. \A s \in Seq(Slots) :
            Len(s) >= 1 => s[Len(s)] \in RangeOf(s) /\ s[Len(s)] \in Nat
    BY DEF RangeOf, Slots
  <2>4. /\ Newest(registry.batch.states) \in RangeOf(registry.batch.states)
        /\ Newest(registry.batch.states) \in Nat
    BY <2>2, <2>3, DeliveryAssumption DEF Newest, Size
  <2>5. run[n] \in RangeOf(run)
    BY <1>2 DEF RangeOf
  <2>6. Newest(registry.batch.states) < run[n]
    BY <1>0, <1>1, <2>1, <2>4, <2>5 DEF StatesInOrder, Precedes
  <2>7. Newest(states) \in Nat
    BY <1>0 DEF CentralTypeOK, RuntimeTypeOK, Newest, Slots
  <2> QED
    BY <1>2, <2>1, <2>4, <2>6, <2>7
<1> QED
  BY <1>1, <1>3, <1>4

LEMMA HistoryStep ==
    ASSUME HandlerCompletes, OrderInv, HistoryOK, [Next]_vars
    PROVE  HistoryOK'
<1> USE DEF OrderInv, ContentInv, DeliveryInv, TypeInv, TypeOK
<1>1. ~ RefuseBatch
  BY NeverRefuses DEF RefuseBatch, RefuseState
<1>2. CASE IngestState
  <2>1. /\ handling # NoBatch /\ handling.next \in Nat \ {0}
        /\ handling' = [handling EXCEPT !.next = @ + 1]
        /\ NextState \in Slots /\ Ingesting
        /\ handling \in [batch : Batches, live : BOOLEAN, next : Nat \ {0}]
    BY <1>2, HandlingFacts DEF IngestState, Ingesting, CentralTypeOK
  <2>2. handling'.batch = handling.batch /\ handling'.next = handling.next + 1
        /\ handling' # NoBatch
    <3>1. handling' \in [batch : Batches, live : BOOLEAN, next : Nat \ {0}]
      BY <2>1
    <3> QED
      BY <2>1, <3>1, NoBatchAssumption
  <2>3. Newest(states') = NextState
    BY <1>2, <2>1, TakenFacts DEF IngestState, TakeState
  <2> QED
    BY <2>1, <2>2, <2>3 DEF HistoryOK, NextState
<1>3. CASE RestartCentral
  BY <1>3 DEF RestartCentral, LoseRuntime, HistoryOK
<1>4. CASE UNCHANGED rtVars
  <2>0. states' = states /\ Newest(states') = Newest(states)
    BY <1>4 DEF rtVars, Newest
  <2>1. CASE registry' = registry
             /\ \/ handling = NoBatch /\ handling' = NoBatch
                \/ /\ handling # NoBatch /\ handling' # NoBatch
                   /\ handling'.batch = handling.batch
                   /\ handling'.next = handling.next
    BY <2>0, <2>1 DEF HistoryOK, Newest
  <2>2. ASSUME NEW request \in requests, Admit(request)
        PROVE  HistoryOK'
    <3>1. handling = NoBatch /\ registry' = registry /\ handling'.next = 1
      BY <2>2 DEF Admit, Take, registryVars
    <3> QED
      BY <2>0, <3>1 DEF HistoryOK
  <2>3. ASSUME RecordsBatch
        PROVE  HistoryOK'
    <3>1. /\ handling # NoBatch /\ handling' = NoBatch
          /\ registry'.batch = handling.batch /\ handling.batch \in Batches
          /\ handling.batch \in Known
          /\ handling.batch.states \in Seq(Slots)
          /\ handling.next \in Nat /\ handling.next > Size(handling.batch)
          /\ handling.next <= Size(handling.batch) + 1
      BY <2>3, HandlingFacts, KnownFacts, BatchFields
         DEF RecordsBatch, Ingested, NewRecord, HandlingOK, CentralTypeOK
    <3>2. Size(handling.batch) \in Nat /\ Size(handling.batch) >= 1
      BY <3>1, DeliveryAssumption DEF ContentOK
    <3>3. handling.next > 1 /\ handling.next - 1 = Len(handling.batch.states)
      BY <3>1, <3>2 DEF Size
    <3>4. states # <<>> => Newest(states) = Newest(handling.batch.states)
      BY <3>1, <3>3 DEF HistoryOK, Newest
    <3>5. Newest(handling.batch.states) \in Nat
      BY <3>1, <3>2 DEF Newest, Size, Slots
    <3> QED
      BY <2>0, <3>1, <3>4, <3>5, NoBatchAssumption DEF HistoryOK
  <2>4. CASE SaveRegistry
    BY <2>0, <2>4 DEF SaveRegistry, HistoryOK
  <2> QED
    BY <1>1, <1>2, <1>3, <2>1, <2>2, <2>3, <2>4, ServiceStep DEF ServiceMoves
<1>5. ~ \E status \in {"invalid", "transient"} : InferenceRaises(status)
  BY DEF InferenceRaises, Fault, HandlerCompletes
<1> QED
  BY <1>2, <1>3, <1>4, <1>5, HistoryMoves

LEMMA RefusalStep ==
    ASSUME HandlerCompletes, RefusalInv, [Next]_vars
    PROVE  RefusalOK' /\ OnlyMalformedRejected'
<1> USE DEF RefusalInv, OrderInv, ContentInv, DeliveryInv
<1>1. ~ RefuseBatch /\ ~ InferenceRaises("invalid")
  BY NeverRefuses
     DEF RefuseBatch, RefuseState, InferenceRaises, Fault, HandlerCompletes
<1>2. RefusalOK'
  BY <1>1, AnswerStep DEF RefusalOK, AnswerMoves, Waiting
<1>3. OnlyMalformedRejected'
  BY VerdictStep
     DEF VerdictMoves, RefusalOK, NoSpuriousConflict, Permanent,
         OnlyMalformedRejected
<1> QED
  BY <1>2, <1>3

(* While the handler's own steps succeed, only a batch that breaks the     *)
(* batch rules is ever rejected for good: no loss, timeout, retry, crash,  *)
(* full buffer or restart of either side turns a good batch into a         *)
(* rejected one.                                                           *)
THEOREM GoodBatchesAreAccepted ==
    BatchFits /\ RestartsLater /\ HandlerCompletes =>
        (Spec /\ [][~ QueueFull]_vars => []OnlyMalformedRejected)
<1> SUFFICES ASSUME BatchFits, RestartsLater, HandlerCompletes
             PROVE  Spec /\ [][~ QueueFull]_vars => []OnlyMalformedRejected
  OBVIOUS
<1>1. Init => HistoryOK /\ RefusalOK /\ OnlyMalformedRejected
  BY DEF Init, RuntimeInit, HistoryOK, RefusalOK, OnlyMalformedRejected
<1>2. RefusalInv /\ [Next]_vars
          => HistoryOK' /\ RefusalOK' /\ OnlyMalformedRejected'
  BY HistoryStep, RefusalStep DEF RefusalInv
<1>3. Spec => []NoSpuriousConflict
  BY NeverConflicts
<1>4. Spec /\ [][~ QueueFull]_vars => []RefusalInv
  BY <1>1, <1>2, <1>3, OrderInvariant, PTL DEF Spec, RefusalInv
<1> QED
  BY <1>4, PTL DEF RefusalInv
==============================================================================
