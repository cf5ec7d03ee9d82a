SPECIFICATION Spec
CONSTANTS
    Writers = {w1, w2}
    MaxWindows = 2
    MaxEntries = 3
    MaxCrashes = 0
    MaxFailures = 1
    CrashWrites = {}
    FailedWrites = {}
SYMMETRY WriterSymmetry
INVARIANTS
    MemoryIsFile
    ParentsKnown
CHECK_DEADLOCK FALSE
