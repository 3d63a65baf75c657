CONSTANTS
    Origins = {o1}
    Requests = {q1, q2}
    CacheSize = 1
    MaxSessions = 2
SPECIFICATION Spec
SYMMETRY Symmetry
INVARIANT UnsupportedIsNotReady
CHECK_DEADLOCK FALSE
