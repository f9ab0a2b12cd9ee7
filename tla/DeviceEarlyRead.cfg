CONSTANTS
    Clients = {c1}
    Commands = {VERSION}
    COMMAND_ANY = ANY
    COMMAND_DEVICE_STATE_CHANGED = CHANGED
    COMMAND_NONE = NONE
    WaitForAny = FALSE
    SeqMod = 2
    PipeCapacity = 1
    MaxRequests = 1
    MaxConnects = 1
    MaxNotices = 1
    MaxNoise = 0
    MaxSpurious = 0
    MaxBacklog = 2
SPECIFICATION Spec
INVARIANTS ReadsConnectedDevice
CHECK_DEADLOCK FALSE
