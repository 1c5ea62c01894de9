CONSTANTS
    ws = ws
    admin = admin
    b1 = b1
    b2 = b2
    NoBundle = NoBundle
    Modes = {chat, custom}
    DefaultMode = chat
    Bundles = {b1, b2}
    FirstBundle = b1
    SwapTo <- FreshBundles
    Callers = {ws, admin}
    Allowed <- ControlPlaneOps
    MaxTasks = 3
    MaxTurns = 1
SPECIFICATION CalmSpec
INVARIANT SpeechInOrder
