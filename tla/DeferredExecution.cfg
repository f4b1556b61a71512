SPECIFICATION FairSpec
CONSTANTS
    Methods = {a, b, c}
    Compressed = {a, b}
    HandlersThrow = TRUE
    MaxNesting = 2
    MaxCalls = 6
CHECK_DEADLOCK FALSE
INVARIANTS TypeOK PendingOnce EventComes NoUnaskedCall CallsKept
PROPERTY Served
