CONSTANTS
    Parameters <- MCParameters
    Width <- MCWidth
    StickWidth <- MCWidth
    ByteValues = {0, 1, 255}
    Requests <- NoRequests
    MaxCalls = 1
    Damages = {}
SPECIFICATION Spec
INVARIANTS VersionIsReal
CHECK_DEADLOCK FALSE
