\* Failures inside the telemetry handler, late answers and restarts; once they
\* stop, every captured state meets its fate.
CONSTANTS
    SequenceLength = 2
    SlotsPerDay = 4
    NoForecast = NoForecast
    MaxSlot = 4
    BatchSize = 2
    MaxBatches = 2
    MaxBytes = 3
    OverflowPolicy = "DROP_OLDEST"
    RestartGap = 1
    Faults = {"inference", "audit", "registry_save", "timeout", "central_restart", "lose", "crash"}
    MaxFaults = 2
    MaxSequence = 9
    NoBatch = NoBatch
SPECIFICATION FairSpec
INVARIANTS
    ForecastNeedsHistory
    FailureCostsOneBatch
PROPERTIES
    EverythingSettles
