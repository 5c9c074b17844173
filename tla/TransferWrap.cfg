SPECIFICATION Spec
CONSTANTS
    Mod = 8
    WindowMod = 4
    MaxDupOrigin = 2
    MaxDupCap = 3
    Isn = 5
    PacketSize = 2
    SendBufferSize = 3
    RecvBufferSize = 3
    WriteSizes = {3}
    ReadSizes = {2}
    MaxBytes = 6
    MaxLosses = 1
    NetworkCap = 2
    OneAppThread = TRUE
INVARIANT StoredIsAhead
CHECK_DEADLOCK FALSE
