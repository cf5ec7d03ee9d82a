SPECIFICATION Spec
CONSTANTS
    MaxOperations = 2
    MaxMade = 3
    MaxTurns = 1
    MaxAborts = 1
    MaxFaults = 1
    Faults = {"listener", "snapshot", "append"}
    Reentrant = FALSE
    Calls = {"turn", "compaction", "steer", "nextTurn", "write"}
INVARIANTS
    ContextIsSession
    ToolResultsFollow
    WritesKept
    Released
    NothingLost
PROPERTY AbortIsBarrier
CHECK_DEADLOCK FALSE
