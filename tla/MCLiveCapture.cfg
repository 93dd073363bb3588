\* Two starts; one packet completes fewer flows than are retained.
CONSTANTS
    SequenceLength = 2
    SlotsPerDay = 3
    MaxSlot = 3
    MaxFlowRecords = 2
    MaxCompleted = 1
    MaxSessions = 2
    Sniffers = {s1, s2}
    None = None
SPECIFICATION LiveSpec
INVARIANTS
    HistoryIsWhole
    SessionsStayApart
    OneSniffer
    ReadyIsLive
    ForecastFollowsHistory
CHECK_DEADLOCK FALSE
