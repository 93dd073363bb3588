\* Three keys compete for a table of two flows; days of three windows.
CONSTANTS
    FlowKeys = {k1, k2, k3}
    IdleTimeout = 3
    ActiveTimeout = 5
    MaxTracked = 2
    MaxTime = 15
    MaxFlows = 4
    TicksPerSlot = 2
    SlotsPerDay = 3
    SequenceLength = 2
    RestartGap = 1
    MaxSlot = 7
SPECIFICATION PipelineSpec
INVARIANTS
    NoFlowOverdue
    NeverReopens
PROPERTIES
    EmitsConsecutively
    PromptSpec
