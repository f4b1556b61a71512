SPECIFICATION Spec
CONSTANTS
    Containers = {c1}
    Shapes = {box}
    MaxLayers = 6
    MaxIds = 3
    MaxClears = 2
    MaxTransactions = 4
    MaxEdits = 4
CHECK_DEADLOCK FALSE
PROPERTY ReplayReachesState
