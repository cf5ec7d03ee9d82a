SPECIFICATION Spec
CONSTANTS
    Calls = {1, 2, 3}
    Processes = {1, 2}
    Requests <- MCRequests
    MaxExpiries = 2
    NoCall = none
INVARIANTS
    TokenKept
    NothingUndone
PROPERTY CallsEnd
CHECK_DEADLOCK FALSE
