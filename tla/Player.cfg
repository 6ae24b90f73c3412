SPECIFICATION FairSpec
CONSTANTS
    Length = 5
    Block = 2
    Faults = TRUE
    Kinds = {"WAVE", "MP3", "FLAC"}
    LoopKinds = {"WAVE", "MP3"}
    Backends = {TRUE, FALSE}
    Losable = {FALSE}
    Chunk = 3
    QueueSize = 2
    DeviceSize = 2
    MaxKeys = 2
INVARIANTS
    TypeOK
    EndMeansHeard
    DrainIsLast
PROPERTIES
    HeardInOrder
    InterruptStops
    PlaybackEnds
CHECK_DEADLOCK FALSE
