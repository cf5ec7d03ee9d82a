SPECIFICATION Spec
CONSTANTS
    Replies = {"stop", "error", "overflow"}
    Ops = {}
    Texts = {"", "a"}
    QuietCompact = TRUE
    MaxRetries = 1
    KeepRecent = {9}
    MaxCalls = 2
    MaxInputs = 1
INVARIANT ContinueAccepted
CHECK_DEADLOCK FALSE
