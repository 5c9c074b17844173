SPECIFICATION FairSpec
CONSTANTS
    Mod = 64
    WindowMod = 32
    MaxDupOrigin = 3
    MaxDupCap = 3
    RecvBufferSize = 8
    Scenarios <- AllScenarios
    MaxCreated = 1
    NetworkCap = 1
INVARIANTS
    NoAbort
    HandshakeAgreed
    EofComplete
PROPERTIES
    LastAckMeansAcked
    RecvBaseForward
    
CHECK_DEADLOCK FALSE
