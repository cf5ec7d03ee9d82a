SPECIFICATION FairSpec
CONSTANTS
    MaxOperations = 1
    MaxMade = 3
    MaxTurns = 1
    MaxAborts = 1
    MaxFaults = 1
    Faults = {"listener", "update", "hook", "snapshot", "append"}
    Reentrant = FALSE
    Calls = {"turn", "compaction", "branch_summary", "steer", "followUp", "write"}
PROPERTIES
    Settles
    AbortReturns
CHECK_DEADLOCK FALSE
