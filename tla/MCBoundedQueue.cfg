\* One state a batch, a queue of four states and a buffer of one batch that
\* rejects what does not fit: emissions are refused halfway and come
\* again, and refused batches go back to the front of the queue.
CONSTANTS
    SequenceLength = 2
    SlotsPerDay = 10
    NoForecast = NoForecast
    MaxSlot = 6
    BatchSize = 1
    MaxBatches = 1
    MaxBytes = 9
    OverflowPolicy = "REJECT_NEW"
    RestartGap = 1
    Faults = {"lose", "timeout", "crash"}
    MaxFaults = 1
    MaxSequence = 9
    NoBatch = NoBatch
SPECIFICATION Spec
INVARIANTS
    RecordedOnce
PROPERTIES
    LeavesNoGap
