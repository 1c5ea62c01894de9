CONSTANTS
    ws = ws
    admin = admin
    b1 = b1
    b2 = b2
    NoBundle = NoBundle
    Modes = {chat}
    DefaultMode = chat
    Bundles = {b1, b2}
    FirstBundle = b1
    SwapTo <- FreshBundles
    Callers = {ws, admin}
    Allowed <- OneModeOps
    MaxTasks = 2
    MaxTurns = 2
SPECIFICATION LoopSpec
INVARIANT TypeOK
PROPERTIES CancellationReturns ReplacedUnloaded ChunksSettle
