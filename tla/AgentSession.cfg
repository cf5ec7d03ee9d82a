SPECIFICATION Spec
CONSTANTS
    Replies = {"stop", "toolUse", "full", "error", "overflow"}
    Ops = {"steer", "followUp", "custom", "bash", "clearQueue", "abort", "abortRetry", "abortCompaction", "compact"}
    Texts = {"", "a"}
    QuietCompact = TRUE
    MaxRetries = 1
    KeepRecent = {2}
    MaxCalls = 3
    MaxInputs = 3
INVARIANTS
    SessionIsContext
    ToolResultsFollow
    NothingForgotten
    RetriesBounded
    QueueShown
CHECK_DEADLOCK FALSE
