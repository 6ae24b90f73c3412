SPECIFICATION Spec
CONSTANTS
    BufferFrames = 2
    Hardware = {{"pause", "resume"}}
    MaxWrite = 2
    MaxFrames = 2
    MaxFaults = 1
INVARIANTS
    DoneMeansHeard
CHECK_DEADLOCK FALSE
