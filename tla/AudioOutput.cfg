SPECIFICATION OutFairSpec
CONSTANTS
    Capacity = 3
    MaxRequest = 4
    MaxBytes = 5
    DeviceFrames = 2
    MaxFaults = 1
    Kinds = {"wasapi shared", "wasapi exclusive", "coreaudio shared", "coreaudio hog", "asio"}
INVARIANTS
    OutTypeOK
    NoLostWakeup
    EveryFrameOnce
    CutIsBounded
    FreedLast
    CloseGivesBack
PROPERTIES
    ImplementsFifo
    CallsReturn
CHECK_DEADLOCK FALSE
