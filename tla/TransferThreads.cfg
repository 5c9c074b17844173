SPECIFICATION Spec
CONSTANTS
    Mod = 64
    WindowMod = 8
    MaxDupOrigin = 2
    MaxDupCap = 3
    Isn = 1
    PacketSize = 2
    SendBufferSize = 3
    RecvBufferSize = 3
    WriteSizes = {3}
    ReadSizes = {2}
    MaxBytes = 6
    MaxLosses = 1
    NetworkCap = 2
    OneAppThread = FALSE
INVARIANT FinIsLast
CHECK_DEADLOCK FALSE
