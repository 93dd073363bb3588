\* One agent, and a restart while it runs.
CONSTANTS
    Pids = {p1, p2}
    Commands = {"start", "restart"}
    Beside = {"restart"}
    MaxCommands = 2
    MaxSequence = 2
    MaxIdentities = 1
    MaxFaults = 0
    MaxBatches = 1
    OverflowPolicies = {"DROP_OLDEST", "REJECT_NEW"}
    None = None
SPECIFICATION HostSpec
INVARIANTS
    NumberedOnce
CHECK_DEADLOCK FALSE
