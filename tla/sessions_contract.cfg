SPECIFICATION FairSpec
CONSTANTS
    r1 = r1
    r2 = r2
    r3 = r3
    Requests <- MCTwo
    MaxActive = 2
    MaxResponses = 2
    Permitted <- MCPermitted
PROPERTIES
    EachKeepsContract
    DebtsAreSettled
CHECK_DEADLOCK FALSE
