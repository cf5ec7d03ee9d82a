SPECIFICATION Spec
CONSTANTS
    Writers = {w1}
    MaxWindows = 2
    MaxEntries = 3
    MaxCrashes = 2
    MaxFailures = 1
    CrashWrites = {"line"}
    FailedWrites = {}
INVARIANTS
    TypeOK
    ReopenRestores
    AckedReadable
    Rooted
PROPERTY ImplementsBranches
CHECK_DEADLOCK FALSE
