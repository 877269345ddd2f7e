SPECIFICATION Spec
CONSTANTS
    a1 = a1
    a2 = a2
    s1 = s1
    NoBinding = NoBinding
    NoToken = NoToken
    NoCooldown = NoCooldown
    Audiences <- TwoAudiences
    Scopes <- OneScope
    Bindings <- DecisionBindings
    NanosPerSecond = 1
    MaxSeconds = 1
    MaxAttempts = 1
    MaxInterim = 0
INVARIANTS
    TypeOK
    OnlyPermittedReachInner
    OnlyRefusedAreChallenged
    OneSamplePerDecision
