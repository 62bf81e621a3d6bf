CONSTANTS
    l1 = l1
    l2 = l2
    Lines <- MCLines
    SizeLimit = 0
    AgeRotation = FALSE
    MaxTime = 1
    IOFail = FALSE
SPECIFICATION Spec
INVARIANT StopFlushes
CHECK_DEADLOCK FALSE
