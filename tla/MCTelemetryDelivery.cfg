\* Failures of the agent, the network and the registry process; a buffer that
\* overflows by number and by bytes; two capture days.
CONSTANTS
    SequenceLength = 2
    SlotsPerDay = 4
    NoForecast = NoForecast
    MaxSlot = 6
    BatchSize = 2
    MaxBatches = 2
    MaxBytes = 3
    OverflowPolicy = "DROP_OLDEST"
    RestartGap = 1
    Faults = {"lose", "timeout", "crash", "central_restart", "rate_limit", "config_save", "buffer_write"}
    MaxFaults = 2
    MaxSequence = 9
    NoBatch = NoBatch
SPECIFICATION Spec
INVARIANTS
    TypeOK
    IssuedOnce
    NoSpuriousConflict
    AgentKeepsOrder
    CapturedAccounted
    OnlyMalformedRejected
    AckedIsDurable
    AckedNotIngestedAgain
PROPERTIES
    DeliversInOrder
