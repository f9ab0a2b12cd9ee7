CONSTANTS
    Parameters <- MCParameters
    Width <- MCWidth
    StickWidth <- MCWidth
    ByteValues = {0, 1, 255}
    Requests <- NetworkRequests
    MaxCalls = 1
    Damages = {}
SPECIFICATION Spec
INVARIANTS PayloadArrives
CHECK_DEADLOCK FALSE
