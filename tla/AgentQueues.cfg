SPECIFICATION Spec
CONSTANTS
    QueueModes = {"one-at-a-time", "all"}
    ToolModes = {"sequential"}
    MaxRuns = 2
    MaxMsgs = 3
    MaxPrompt = 2
    MaxCalls = 0
    MaxBatch = 0
    MaxUpdates = 0
    MaxFaults = 1
    Resets = TRUE
INVARIANTS
    DeliveredInOrder
    NothingLost
CHECK_DEADLOCK FALSE
