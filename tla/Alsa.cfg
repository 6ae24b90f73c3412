SPECIFICATION FairSpec
CONSTANTS
    BufferFrames = 2
    Hardware = {{}, {"pause"}, {"resume"}, {"pause", "resume"}}
    MaxWrite = 3
    MaxFrames = 4
    MaxFaults = 2
INVARIANTS
    DrainMeansHeard
PROPERTIES
    ImplementsFifo
    QueueKept
    DrainEnds
CHECK_DEADLOCK FALSE
