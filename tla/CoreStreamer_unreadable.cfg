SPECIFICATION Spec
CONSTANTS
    Starts <- PropertyStarts
    Stems = {"x"}
    LibNames = {}
    MaxSaves = 1
    MaxReads = 1
    SuffixBits = 2
CHECK_DEADLOCK FALSE
INVARIANT OpensWhatItSaved
