SPECIFICATION Spec
CONSTANTS
    Starts <- AllStarts
    Stems = {"x"}
    LibNames = {}
    MaxSaves = 2
    MaxReads = 2
    SuffixBits = 2
CHECK_DEADLOCK FALSE
INVARIANTS TypeOK RoundTripExact NothingMoved SecondRoundExact PropertiesSettle OthersUntouched ReadSoFar
