CONSTANTS
    END = END
    ESC = ESC
    ESC_END = ESC_END
    ESC_ESC = ESC_ESC
    Zero = Zero
    Packets <- LinePackets
    BufferSize = 2
    MaxPackets = 3
    MaxNoise = 2
    WireCapacity = 3
    MayUnplug = TRUE
SPECIFICATION Spec
INVARIANTS TypeOK InOrderUntilDamage DamageConfined
CHECK_DEADLOCK FALSE
