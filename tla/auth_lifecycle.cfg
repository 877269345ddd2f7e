SPECIFICATION Spec
CONSTANTS
    a1 = a1
    a2 = a2
    s1 = s1
    NoBinding = NoBinding
    NoToken = NoToken
    NoCooldown = NoCooldown
    Audiences <- OneAudience
    Scopes <- NoScopes
    Bindings <- LifecycleBindings
    NanosPerSecond = 3
    MaxSeconds = 2
    MaxAttempts = 2
    MaxInterim = 2
INVARIANTS
    CredentialsFollowRule
    NonceOnTerminalResponse
    RetryAfterCoversCooldown
PROPERTIES
    AnsweredOnce
