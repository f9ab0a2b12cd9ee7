CONSTANTS
    END = END
    ESC = ESC
    ESC_END = ESC_END
    ESC_ESC = ESC_ESC
    Zero = Zero
    Packets <- LinePackets
    BufferSize = 2
    MaxPackets = 1
    MaxNoise = 0
    WireCapacity = 3
    MayUnplug = TRUE
SPECIFICATION Spec
PROPERTY NoPacketFromDeadLine
CHECK_DEADLOCK FALSE
