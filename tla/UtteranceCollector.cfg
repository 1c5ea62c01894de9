CONSTANTS
    v1 = v1
    v2 = v2
    Modes = {chat, custom}
    Vads = {v1, v2}
    FirstVad = v1
    Rejecting = {v2}
    PreFrames = 3
    MaxUtterance = 4
    Hangover = 2
    MinSpeech = 3
    LowEnergyMax = 4
    AppOps = {"vad", "config", "unload", "raise"}
    MaxFrames = 9
    MaxTrim = 1
    MaxUpdates = 2
SPECIFICATION Spec
INVARIANTS UtterancesWhole SpeechHeardOnce RecordingLive BuffersBounded
\* The microphone may stop.
CHECK_DEADLOCK FALSE
