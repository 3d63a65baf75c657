CONSTANTS
    Origins = {o1, o2}
    Requests = {q1, q2}
    CacheSize = 1
    MaxSessions = 3
SPECIFICATION FairSpec
INVARIANTS
    TypeOK
    AtMostOneEstablishing
    SessionsAreSound
    WaitersAreGuarded
PROPERTY WaitersAreResolved
CHECK_DEADLOCK FALSE
