CONSTANTS
    GuardModes = {"drop", "pause"}
    MaxStarts = 3
    MaxFrames = 4
SPECIFICATION Spec
INVARIANTS StopReleases RunsOnOnePath SkipsCounted
\* Every call of start may have been used up.
CHECK_DEADLOCK FALSE
