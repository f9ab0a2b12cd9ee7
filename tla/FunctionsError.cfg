CONSTANTS
    Parameters <- MCParameters
    Width <- MCWidth
    StickWidth <- WiderStick
    ByteValues = {0, 1, 255}
    Requests <- NoRequests
    MaxCalls = 1
    Damages = {}
SPECIFICATION Spec
INVARIANTS ErrorIsNegative
CHECK_DEADLOCK FALSE
