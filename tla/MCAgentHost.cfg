\* An agent, and the commands that may be run beside it.
CONSTANTS
    Pids = {p1, p2}
    Commands = {"init", "register", "start", "restart", "stop", "status"}
    Beside = {"stop", "status"}
    MaxCommands = 4
    MaxSequence = 2
    MaxIdentities = 2
    MaxFaults = 1
    MaxBatches = 1
    OverflowPolicies = {"DROP_OLDEST", "REJECT_NEW"}
    None = None
SPECIFICATION HostSpec
INVARIANTS
    NumberedOnce
    NothingVanishes
    ReachableAgent
SYMMETRY PidSymmetry
CHECK_DEADLOCK FALSE
