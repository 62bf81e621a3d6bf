CONSTANTS
    a1 = a1
    a2 = a2
    a3 = a3
    NoAddr = NoAddr
    Addr <- MCAddr3
    SeedAddrs <- MCSeedAddrs
    NodeLimit = 2
    BufNode = 1
    MaxStarts = 2
    MaxCrashes = 1
    MaxAttempts = 2
SPECIFICATION Spec
INVARIANT TypeOK
INVARIANT NodeBounded
CHECK_DEADLOCK FALSE
PROPERTY ImplementsNodeTable
