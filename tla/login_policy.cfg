SPECIFICATION Spec
CONSTANTS
    c1 = c1
    c2 = c2
    AnyMethod = AnyMethod
    NoCheck = NoCheck
    NoRule = NoRule
    Checks <- MCChecks
    RequestMethods <- MCMethods
    PatternFaults <- MCPatternFaults
    RequestPaths <- MCRequestPaths
    MaxRules = 2
INVARIANTS
    ChecksRunOrAreRefused
    RoutesDecideTheirPaths
