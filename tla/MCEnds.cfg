CONSTANTS
    r1 = r1
    top = top
    f1 = f1
    Kinds = {"page", "asset", "ajax", "webSocket", "blank"}
SPECIFICATION Spec
PROPERTIES
    EveryRequestSettles
    EveryRequestEnds
    EveryMessageIsAnswered
CHECK_DEADLOCK FALSE
