SPECIFICATION ReplaySpec
CONSTANTS
    None = None
    SequenceLength = 2
    SlotsPerDay = 3
    MaxSlot = 3
    MaxStates = 3
    MaxEvents = 6
INVARIANTS
    ReplayCountsAll
    DemoAgreesWithReplay
CHECK_DEADLOCK FALSE
