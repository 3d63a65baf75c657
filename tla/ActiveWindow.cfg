CONSTANTS
    Top = top
    Iframes = {f1, f2, f3}
    MaxInFlight = 2
SPECIFICATION FairSpec
INVARIANTS
    TypeOK
    Agreement
    AtMostOneActive
    Phases
PROPERTY DisagreementEnds
