CONSTANTS
    Top = top
    f1 = f1
    f2 = f2
    Iframes = {}
    Shapes <- RejectingShape
    Resending = TRUE
    MaxSends = 1
SPECIFICATION Spec
INVARIANT FailedMessagesAreNotResolved
CHECK_DEADLOCK FALSE
