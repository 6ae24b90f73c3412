SPECIFICATION FairSpec
CONSTANTS
    TargetLength = 2
    Timeout = 2
    QueueTime = 1
    MaxWrite = 2
    MaxFaults = 1
INVARIANTS
    DrainMeansPlayed
    StateIsServers
    LateIsReal
PROPERTIES
    StallIsReal
    CallsReturn
    DrainEnds
CHECK_DEADLOCK FALSE
