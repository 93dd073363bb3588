\* REJECT_NEW with a capture thread that fills the queue meanwhile.
CONSTANTS
    SequenceLength = 2
    SlotsPerDay = 10
    NoForecast = NoForecast
    MaxSlot = 7
    BatchSize = 1
    MaxBatches = 1
    MaxBytes = 3
    OverflowPolicy = "REJECT_NEW"
    RestartGap = 1
    Faults = {"lose"}
    MaxFaults = 2
    MaxSequence = 7
    NoBatch = NoBatch
SPECIFICATION Spec
INVARIANTS
    CapturedAccounted
