CONSTANTS
    ws = ws
    admin = admin
    b1 = b1
    b2 = b2
    NoBundle = NoBundle
    Modes = {chat, custom}
    DefaultMode = chat
    Bundles = {b1, b2}
    FirstBundle = b1
    SwapTo <- FreshBundles
    Callers = {ws}
    Allowed <- SerialOps
    MaxTasks = 2
    MaxTurns = 2
SPECIFICATION Spec
INVARIANTS SpeechInOrder CurrentTurnOnly HistoryPaired VoiceIsActive
PROPERTY ImplementsQueue
