SPECIFICATION FairSpec
CONSTANTS
    Readers = {r1, r2}
    Pushers = {p1, p2}
    Calls = {"DeQueue", "DeQueueAllTo"}
    PushSizes = {1, 2}
    MaxPackets = 3
    CallsAfterStop = TRUE
INVARIANTS FifoOnce NoMissedPacket
PROPERTIES StopAwaitsReaders PacketsTaken
CHECK_DEADLOCK FALSE
