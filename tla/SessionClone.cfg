SPECIFICATION Spec
CONSTANTS
    Kinds = {"user", "assistant", "label", "compaction"}
    Tears = FALSE
    MaxEntries = 5
    MaxFiles = 2
    MaxCrashes = 0
    MaxFailures = 0
PROPERTY ForkKeepsContext
CHECK_DEADLOCK FALSE
