CONSTANTS
    Top = top
    SameDomain = {s1}
    CrossDomain = {x1}
    Values = {v1, v2}
    NoValue = none
    MaxAttempts = 2
    TicksPerSecond = 2
    MaxTime = 2
    MaxWrites = 2
    MaxRequests = 2
SPECIFICATION RequestsSpec
INVARIANTS
    WindowsAgree
    CookiesSettle
    RequestsAreAsAsked
    
SYMMETRY CookieValues
CONSTRAINT ChangesCanBeTold
CHECK_DEADLOCK FALSE
