SPECIFICATION Spec
CONSTANTS
    NumChannels = 1
    Capacity = 2
    IndexRange = 6
    Periods = {1, 2}
    Latencies = {1}
    AutoConnect = TRUE
    Timeout = 1
    Timed = FALSE
    Functions = {"start", "stop", "pause", "resume", "write", "drain", "query"}
    MaxWrite = 2
    MaxFrames = 2
    MaxChanges = 0
INVARIANTS
    DrainMeansHeard
CHECK_DEADLOCK FALSE
