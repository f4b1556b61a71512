SPECIFICATION Spec
CONSTANTS
    Methods = {a, b}
    Compressed = {a, b}
    HandlersThrow = FALSE
    MaxNesting = 1
    MaxCalls = 4
CHECK_DEADLOCK FALSE
INVARIANT AskedMeansPending
