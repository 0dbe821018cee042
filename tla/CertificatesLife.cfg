SPECIFICATION FairSpec
CONSTANTS
    MaxEdits = 1
    MaxOutages = 1
    MaxDeletes = 1
    MaxFailures = 1
INVARIANTS
    
    PinnedStays
PROPERTIES
    CAKept
    PinnedEventually
    PublishedEventually
CHECK_DEADLOCK FALSE
