CONSTANTS
    OwnId = OwnId
    None = None
    Library = Library
    Failed = Failed
    Pinned <- PinnedSources
    Paths <- KnownPaths
    Hosts <- TwoHosts
    Node <- Interactions
    Registries <- ApplicationRegistries
    Search <- RegistrySearch
    SearchOn <- RegistrySearchOn
    NoModule = None
    Bytes <- Delivered
    MaxRuns <- RunsOf
    Working <- WorkedIn
    MaxWork = 1
SPECIFICATION Spec
INVARIANTS HandleIsLive WorkSurvives
PROPERTIES ResolvedOnce SubmittedStays NeverSilent
CHECK_DEADLOCK FALSE
