SPECIFICATION Spec
CONSTANTS
    Containers = {c1, c2}
    Shapes = {box}
    MaxLayers = 7
    MaxIds = 3
    MaxClears = 1
    MaxTransactions = 3
    MaxEdits = 4
CHECK_DEADLOCK FALSE
INVARIANTS TypeOK DoneInOrder LayersOwnedOnce
PROPERTY ImplementsUndoHistory
