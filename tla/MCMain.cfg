\* main building the writer and shutting down on SIGINT, with two record
\* lines, seconds 0 and 1, a size limit of two items, age rotation, every
\* I/O and constructor failure allowed, and two signals from the OS.
CONSTANTS
    l1 = l1
    l2 = l2
    Lines <- MCLines
    SizeLimit = 2
    AgeRotation = TRUE
    MaxTime = 1
    IOFail = TRUE
    MaxSignals = 2
    InitFail = TRUE
SPECIFICATION MainSpec
INVARIANT TypeOK
INVARIANT MainTypeOK
INVARIANT NoLineDropped
INVARIANT NoSilentLoss
INVARIANT CleanExitAfterWriter
PROPERTY InterruptExits
CHECK_DEADLOCK FALSE
PROPERTY LinesStable
PROPERTY ImplementsLifecycle
