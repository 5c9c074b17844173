SPECIFICATION Spec
CONSTANTS
    Mod = 64
    WindowMod = 8
    MaxDupOrigin = 2
    MaxDupCap = 3
    Isn = 1
    PacketSize = 1
    SendBufferSize = 3
    RecvBufferSize = 3
    WriteSizes = {3}
    ReadSizes = {3}
    MaxBytes = 3
    MaxLosses = 2
    NetworkCap = 3
    OneAppThread = TRUE
INVARIANTS NoAbort StreamIntegrity AckChain StoredIsAhead TransferInv
CHECK_DEADLOCK FALSE
