CONSTANTS
    ws = ws
    admin = admin
    b1 = b1
    b2 = b2
    NoBundle = NoBundle
    Modes = {chat, custom}
    DefaultMode = chat
    Bundles = {b1, b2}
    FirstBundle = b1
    SwapTo <- FreshBundles
    Callers = {ws}
    Allowed <- CancelOps
    MaxTasks = 2
    MaxTurns = 2
SPECIFICATION Spec
PROPERTY CancelSilences
