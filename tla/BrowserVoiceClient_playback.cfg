CONSTANTS
    Rates = {2}
    Sizes = {1, 2, 3}
    Coalesce = 2
    MaxCoalesce = 4
    MaxAge = 0
    TailDelay = 3
    Fallback = 9
    Stuck = TRUE
    Unmarked = FALSE
    ClientOps = {}
    MaxSpeeches = 3
    MaxTurns = 2
    MaxAhead = 6
SPECIFICATION FairSpec
INVARIANTS Seamless
PROPERTIES MicReopens BufferDrains
