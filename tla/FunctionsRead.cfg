CONSTANTS
    Parameters <- MCParameters
    Width <- MCWidth
    StickWidth <- MCWidth
    ByteValues = {0, 1, 255}
    Requests <- NoRequests
    MaxCalls = 1
    Damages = {"split"}
SPECIFICATION Spec
INVARIANTS ReadIsDefined
CHECK_DEADLOCK FALSE
