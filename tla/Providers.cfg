CONSTANTS
    Loads = {l1}
    Utterances = {u1, u2}
    Workers = 2
    Streams = {s1, s2}
    Assets <- OneAsset
    Pieces = 2
    MaxChunks = 2
    Jobs = {j1, j2}
    Voices = {v1, v2}
    MaxPieces = 3
    Coalesce = 2
    MaxChanges = 1
    Calls = {c1, c2}
    Models = {m1, m2}
    Model = m1
    NoModel = m0
    Requests = {r1, r2}
    Offers = {o1, o2}
    Wanted = o1
    Posts = {p1, p2}
    Moves = 1
    Turns = {t1, t2}
    Names = {n1, n2}
    Swaps = 2
    Byte = 4
    FrameLength = 2
    Captured <- SomeFrames
    Modes <- SomeModes
    Default <- ChatMode
    QuietBelow = 5
    Made <- SomeAudio
    MaxFrames = 3
    Which = {"faster-whisper", "kokoro-onnx", "pocket-tts", "audio-cpp",
             "openai-compatible", "whisper-cpp", "llamacpp", "audio"}
SPECIFICATION Spec
INVARIANTS TypeOK OwnFaultsOnly PublishedWhole SpokenWhole SpeaksSelected
           FileLife ReadyEarned ResolvedExposed ClientsKept FramesIntact
           HeardAsCaptured SpokenAsMade
PROPERTIES AsksEnd LoopResumes RefusalsCease
\* Every call may have been made.
CHECK_DEADLOCK FALSE
