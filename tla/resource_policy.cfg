SPECIFICATION Spec
CONSTANTS
    a1 = a1
    s1 = s1
    s2 = s2
    c1 = c1
    AnyMethod = AnyMethod
    NoCheck = NoCheck
    NoScope = NoScope
    NoRule = NoRule
    Audiences <- MCAudiences
    Scopes <- MCScopes
    Checks <- MCChecks
    RequestMethods <- MCMethods
    PatternFaults <- MCPatternFaults
    RequestPaths <- MCRequestPaths
    MaxRules = 2
INVARIANTS
    ConstraintsHoldOrAreRefused
    HintsAreExact
SYMMETRY MCSymmetry
