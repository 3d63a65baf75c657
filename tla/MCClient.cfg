CONSTANTS
    w1 = w1
    w2 = w2
    w3 = w3
    Windows <- ThreeWindows
    ItemKeys = {k1, k2}
    ItemValues = {v1}
    NoValue = none
    MaxWrites = 2
SPECIFICATION ClientSpec
INVARIANTS
    ClientTypeOK
    WindowsKnowTheStorage
    PageSeesNoProxy
    NothingBypassesTheProxy
PROPERTY StorageKeepsItsContents
CHECK_DEADLOCK FALSE
