SPECIFICATION FairSpec
CONSTANTS
    Mod = 64
    WindowMod = 8
    MaxDupOrigin = 2
    MaxDupCap = 2
    Isn = 1
    PacketSize = 2
    SendBufferSize = 2
    RecvBufferSize = 2
    WriteSizes = {2}
    ReadSizes = {2}
    MaxBytes = 4
    MaxLosses = 1
    NetworkCap = 2
    OneAppThread = TRUE
PROPERTIES AllDelivered EofDelivered
CHECK_DEADLOCK FALSE
