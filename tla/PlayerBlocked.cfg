SPECIFICATION FairSpec
CONSTANTS
    Length = 5
    Block = 2
    Faults = FALSE
    Kinds = {"WAVE"}
    LoopKinds = {}
    Backends = {TRUE}
    Losable = {TRUE}
    Chunk = 3
    QueueSize = 2
    DeviceSize = 1
    MaxKeys = 0
PROPERTIES
    InterruptStops
CHECK_DEADLOCK FALSE
