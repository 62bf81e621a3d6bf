CONSTANTS
    a1 = a1
    a2 = a2
    a3 = a3
    NoAddr = NoAddr
    Addr <- MCAddr
    SeedAddrs <- MCOneSeed
    NodeLimit = 1
    BufNode = 1
    MaxStarts = 2
    MaxCrashes = 1
    MaxAttempts = 2
SPECIFICATION Spec
PROPERTY RestoreRecoversLastSave
CHECK_DEADLOCK FALSE
