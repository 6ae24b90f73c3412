SPECIFICATION FairSpec
CONSTANTS
    Capacity = 2
    Quanta = {1, 2}
    Modes = {"SHARED", "EXCLUSIVE"}
    Timeout = 1
    MaxWrite = 2
    MaxFrames = 3
    MaxFaults = 1
INVARIANTS
    DrainedMeansPlayed
    StallIsReal
PROPERTIES
    ImplementsFifo
    CallsReturn
    Activates
    DrainEnds
CHECK_DEADLOCK FALSE
