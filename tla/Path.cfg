SPECIFICATION LiveSpec
CONSTANTS
    Keys = {"a", "b"}
    Scenarios <- AllTraffic
    MaxSent = 3
INVARIANTS
    OnlyChannelDrops
PROPERTIES
    ImplementsLossyFifo
    EventuallyDelivered
    EventuallyAnswered
CHECK_DEADLOCK FALSE
