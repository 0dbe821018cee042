SPECIFICATION FairSpec
CONSTANTS
    Servers = {"a", "b"}
    Requested <- MCRequested
    Tiers = {"small", "large"}
    MaxEdits = 1
    MaxResolutions = 2
    MaxFailures = 1
INVARIANTS
    ResourcesFit
PROPERTIES
    UnresolvedKeeps
    TokenOutlivesPMM
    PMMSettles
    SourcesSettle
