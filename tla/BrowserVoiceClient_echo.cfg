CONSTANTS
    Rates = {1, 2}
    Sizes = {1, 2}
    Coalesce = 2
    MaxCoalesce = 3
    MaxAge = 3
    TailDelay = 3
    Fallback = 8
    Stuck = FALSE
    Unmarked = TRUE
    ClientOps = {"stop", "close"}
    MaxSpeeches = 3
    MaxTurns = 2
    MaxAhead = 6
SPECIFICATION Spec
INVARIANTS EchoShut SilentAfterCancel
