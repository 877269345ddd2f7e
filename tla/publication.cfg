SPECIFICATION ServerSpec
CONSTANTS
    Definitions <- MCDefinitions
    ValidatorUrls <- MCValidatorUrls
    NoUrl = NoUrl
    Incoming <- MCIncoming
    Literal <- MCLiteral
    SecurityPath <- MCSecurityPath
    Paths <- MCPaths
    Queries <- MCQueries
    MaxResources = 3
INVARIANTS
    AdvertisedMetadataIsServed
    MountsAreGuarded
