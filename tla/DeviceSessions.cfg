CONSTANTS
    Clients = {c1, c2}
    Commands = {VERSION}
    COMMAND_ANY = ANY
    COMMAND_DEVICE_STATE_CHANGED = CHANGED
    COMMAND_NONE = NONE
    WaitForAny = FALSE
    SeqMod = 2
    PipeCapacity = 2
    MaxRequests = 2
    MaxConnects = 2
    MaxNotices = 0
    MaxNoise = 1
    MaxSpurious = 1
    MaxBacklog = 2
SPECIFICATION FairSpec
INVARIANTS TokensAccountForFrames OwnAnswer
PROPERTIES ImplementsRequestService CloseReturns EnqueuedIsWritten
CHECK_DEADLOCK FALSE
