CONSTANTS
    Clients = {c1, c2}
    Commands = {VERSION}
    COMMAND_ANY = ANY
    COMMAND_DEVICE_STATE_CHANGED = CHANGED
    COMMAND_NONE = NONE
    WaitForAny = TRUE
    SeqMod = 2
    PipeCapacity = 1
    MaxRequests = 3
    MaxConnects = 2
    MaxNotices = 1
    MaxNoise = 0
    MaxSpurious = 0
    MaxBacklog = 2
SPECIFICATION Spec
SYMMETRY ClientSymmetry
INVARIANTS TypeOK TokensAccountForFrames AtMostOneCopy OwnAnswer FdOutlivesWorker WriteWhenConnected OneAtATimeIsSafe OnlyOwnConnection
CHECK_DEADLOCK FALSE
