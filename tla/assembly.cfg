SPECIFICATION Spec
CONSTANTS
    Definitions <- MCDefinitions
    Paths <- MCPaths
    Queries <- MCQueries
    Fallback = Fallback
    Publisher = Publisher
    MaxResources = 3
INVARIANTS
    TypeOK
    MetadataAnsweredPublicly
    PublicationsDistinct
    ProtectedPathsAreGuarded
    ServedArePublished
