SPECIFICATION FairSpec
CONSTANTS
    QueueModes = {"one-at-a-time"}
    ToolModes = {"sequential", "parallel"}
    MaxRuns = 2
    MaxMsgs = 2
    MaxPrompt = 1
    MaxCalls = 2
    MaxBatch = 2
    MaxUpdates = 1
    MaxFaults = 1
    Resets = FALSE
PROPERTIES
    ImplementsTranscript
    ToolEventsOfActiveRun
    AgentEndIsFinal
    RunSettles
INVARIANTS
    TypeOK
    ContextIsTranscript
    AgentEndReportsRun
    PendingIsInProgress
    UpdatesPrecedeEnd
CHECK_DEADLOCK FALSE
