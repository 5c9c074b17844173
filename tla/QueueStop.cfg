SPECIFICATION FairSpec
CONSTANTS
    Readers = {r1}
    Pushers = {p1}
    Calls = {"DeQueueAllTo"}
    PushSizes = {1}
    MaxPackets = 1
    CallsAfterStop = FALSE
PROPERTY StopReturns
CHECK_DEADLOCK FALSE
