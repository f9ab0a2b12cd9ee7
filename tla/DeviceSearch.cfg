CONSTANTS
    Clients = {c1, c2}
    Commands = {VERSION}
    COMMAND_ANY = ANY
    COMMAND_DEVICE_STATE_CHANGED = CHANGED
    COMMAND_NONE = NONE
    WaitForAny = FALSE
    SeqMod = 2
    PipeCapacity = 1
    MaxRequests = 2
    MaxConnects = 1
    MaxNotices = 0
    MaxNoise = 0
    MaxSpurious = 0
    MaxBacklog = 2
SPECIFICATION Spec
INVARIANTS SearchFindsFrame
CHECK_DEADLOCK FALSE
