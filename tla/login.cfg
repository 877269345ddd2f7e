SPECIFICATION FairSpec
CONSTANTS
    s1 = s1
    s2 = s2
    NoSession = NoSession
    Gone = Gone
    Conflict = Conflict
    Sessions <- MCSessions
    SessionErrors <- MCSessionErrors
    PermittedErrors <- MCPermittedErrors
    CorsPassthrough = TRUE
    MaxAttempts = 2
    MaxInterim = 2
    MaxRepeats = 1
INVARIANTS
    TypeOK
    AtMostOneSessionCall
    ObligationsMet
    ResponseCarriesBundle
    CookiesAccountedFor
    TerminationClearsLast
    OnlyAdmittedForwarded
PROPERTIES
    NothingTakenBack
    ImplementsContract
    OwedIsAttempted
