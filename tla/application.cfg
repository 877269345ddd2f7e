SPECIFICATION FairSpec
CONSTANTS
    s1 = s1
    s2 = s2
    s3 = s3
    Nameless = nameless
    NoSession = none
    AnyMethod = any
    Mappings <- MCMappings
    PageNames <- MCPageNames
    PatternFaults <- MCPatternFaults
    Subjects = {s1, s2, s3}
    Unsendable = {s3}
    Forgeries = {{}, {s1, s2}}
    RequestMethods = {"GET", "POST", "OPTIONS"}
    MaxAttempts = 2
INVARIANTS
    SessionDecides
    SignOutLeavesNoSession
PROPERTIES
    RedirectsEnd
