SPECIFICATION Spec
CONSTANTS
    Kinds = {"user", "assistant", "label", "branch_summary", "compaction"}
    Tears = FALSE
    MaxEntries = 3
    MaxFiles = 2
    MaxCrashes = 4
    MaxFailures = 1
INVARIANTS
    TypeOK
    FileIsSession
PROPERTY SavedStays
CHECK_DEADLOCK FALSE
