SPECIFICATION Spec
CONSTANTS
    Length = 5
    Block = 2
    Faults = FALSE
    Kinds = {"FLAC"}
    LoopKinds = {"FLAC"}
    Backends = {FALSE}
    Losable = {}
    Chunk = 3
    QueueSize = 2
    DeviceSize = 1
    MaxKeys = 0
PROPERTIES
    HeardInOrder
CHECK_DEADLOCK FALSE
