SPECIFICATION FairSpec
CONSTANTS
    NumChannels = 2
    Capacity = 4
    IndexRange = 12
    Periods = {2}
    Latencies = {0}
    AutoConnect = TRUE
    Timeout = 1
    Timed = TRUE
    Functions = {"start", "write"}
    MaxWrite = 1
    MaxFrames = 1
    MaxChanges = 1
INVARIANTS
    SnapshotAccurate
    PlaysOnlyRouted
    StallIsReal
PROPERTIES
    FramesKeepMoving
CHECK_DEADLOCK FALSE
