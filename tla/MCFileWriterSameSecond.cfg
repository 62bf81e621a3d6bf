CONSTANTS
    l1 = l1
    l2 = l2
    Lines <- MCLines
    SizeLimit = 2
    AgeRotation = FALSE
    MaxTime = 1
    IOFail = FALSE
SPECIFICATION Spec
INVARIANT NoLineLost
CHECK_DEADLOCK FALSE
