CONSTANTS
    MaxAttempts = 4
    Snapshots <- TwoSnapshots
    Cookies = {c1}
    MaxRequests = 4
    MaxCalls = 2
    MaxUsers = 3
SPECIFICATION ServerSpec
INVARIANTS
    ServerTypeOK
    AnswerIsReportedOnce
    StopsAuthenticating
    StateIsSwitchedCleanly
    RunnerCookiesReachThePage
    UploadsArrive
    CachedAnswersAreWhole
    PageIsReadAsSent
CHECK_DEADLOCK FALSE
