SPECIFICATION Spec
CONSTANTS
    a1 = a1
    s1 = s1
    s2 = s2
    AnyMethod = AnyMethod
    NoCheck = NoCheck
    NoScope = NoScope
    NoBinding = NoBinding
    NoToken = NoToken
    Audiences <- MCAudiences
    Scopes <- MCScopes
    RequestMethods <- MCMethods
    Bindings <- MCBindings
    Demands <- MCDemands
    Pages <- MCPages
    MaxFaults = 1
    MaxRequests = 6
INVARIANTS
    RefusalsTellNoMore
    AnswersAgree
    NoFutileRetry
PROPERTIES
    ObedientClientIsForwarded
