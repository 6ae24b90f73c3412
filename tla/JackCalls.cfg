SPECIFICATION FairSpec
CONSTANTS
    NumChannels = 1
    Capacity = 2
    IndexRange = 6
    Periods = {1}
    Latencies = {0}
    AutoConnect = TRUE
    Timeout = 1
    Timed = TRUE
    Functions = {"start", "stop", "pause", "resume", "drain"}
    MaxWrite = 0
    MaxFrames = 0
    MaxChanges = 1
PROPERTIES
    CallsReturn
CHECK_DEADLOCK FALSE
