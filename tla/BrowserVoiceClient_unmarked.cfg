CONSTANTS
    Rates = {2}
    Sizes = {1, 2, 3}
    Coalesce = 2
    MaxCoalesce = 4
    MaxAge = 0
    TailDelay = 3
    Fallback = 9
    Stuck = FALSE
    Unmarked = TRUE
    ClientOps = {}
    MaxSpeeches = 3
    MaxTurns = 2
    MaxAhead = 6
SPECIFICATION FairSpec
PROPERTIES MicReopens
