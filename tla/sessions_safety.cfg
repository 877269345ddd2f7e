SPECIFICATION Spec
CONSTANTS
    r1 = r1
    r2 = r2
    r3 = r3
    Requests <- MCThree
    MaxActive = 2
    MaxResponses = 0
    Permitted <- MCPermitted
INVARIANTS
    ConflictsAreWithOthers
    SignedOutStaysOut
SYMMETRY MCSymmetry
CHECK_DEADLOCK FALSE
