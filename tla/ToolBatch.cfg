SPECIFICATION Spec
CONSTANTS
    Calls = {1, 2, 3}
    Batches <- MCBatches
    Files = {f1}
    Links = {FALSE}
    NoCall = none
    MaxStarts = 2
    MaxStops = 2
INVARIANT ToolsReachable
PROPERTIES
    ImplementsAtomicFiles
    CallsSettle
CHECK_DEADLOCK FALSE
