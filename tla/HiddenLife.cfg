SPECIFICATION FairSpec
CONSTANTS
    MaxReplicas = 4
    Sizes = {0, 2, 4}
    Classes = {"standard", "fast"}
    Seeded = TRUE
    MaxEdits = 2
    Evictable = {3}
    MaxFaults = 1
PROPERTIES
    NoStaleStart
    OnlyRemovedMembersLoseVolumes
    RunningClassKept
    
    TrimEventually
