SPECIFICATION Spec
CONSTANTS
    t1 = t1
    t2 = t2
    r1 = r1
    r2 = r2
    Threads <- TwoThreads
    Remotes <- TwoRemotes
    MaxFd = 5
    MaxOpenFileId = 2
    MaxPort = 2
    BindPorts <- PortsOneTwo
    Programs <- AllPrograms
INVARIANTS
    
    IdsUnique
    FdsConserved
    PortsExclusive
    
    
PROPERTY
    NeverReopened
CHECK_DEADLOCK FALSE
