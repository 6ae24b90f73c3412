SPECIFICATION Spec
CONSTANTS
    NumChannels = 1
    Capacity = 2
    IndexRange = 6
    Periods = {1}
    Latencies = {0, 3}
    AutoConnect = TRUE
    Timeout = 1
    Timed = FALSE
    Functions = {"start", "stop", "pause", "resume", "write", "drain", "query"}
    MaxWrite = 2
    MaxFrames = 7
    MaxChanges = 0
INVARIANTS
    TypeOK
    NoDataRace
    Settled
    DrainMeansHeard
PROPERTIES
    ImplementsFifo
CHECK_DEADLOCK FALSE
