CONSTANTS
    Parameters <- MCParameters
    Width <- MCWidth
    StickWidth <- WiderStick
    ByteValues = {0, 1, 255}
    Requests <- ApsRequest
    MaxCalls = 2
    Damages = {"change", "split"}
SPECIFICATION Spec
INVARIANTS TypeOK ZeroMeansDone StateIsWhole PayloadArrives DamageRejected UndefinedOnlyFromDamage
CHECK_DEADLOCK FALSE
