CONSTANTS
    Top = top
    f1 = f1
    f2 = f2
    Iframes = {f1}
    Shapes <- MixedShapes
    Resending = TRUE
    MaxSends = 3
    Bounds <- FewMessages
SPECIFICATION MessagesSpec
INVARIANTS
    QueuedInOrder
    MessagesAreAccountedFor
    WindowMessagesArrive
CHECK_DEADLOCK FALSE
