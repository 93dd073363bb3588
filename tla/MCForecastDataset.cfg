\* Every pattern of four slots of a training day and five of the test day.
CONSTANTS
    CaptureDays <- MCDays
    MaxSlot = 5
    SlotsPerDay = 6
    SequenceLength = 2
    Captures <- MCCaptures
    DayRole <- MCDayRole
    Horizons = {1, 2}
    BlockStarts <- MCStarts
    RowStride = 1
    NoFile = NoFile
SPECIFICATION DatasetSpec
INVARIANTS
    WindowsTellTheFuture
    OneStepAgrees
    RowWindowsLookAhead
CHECK_DEADLOCK FALSE
