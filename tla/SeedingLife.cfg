SPECIFICATION FairSpec
CONSTANTS
    Hidden = {"hidden-0"}
    MaxStops = 1
    MaxRestarts = 2
    MaxFailures = 2

    
    
    
PROPERTIES
    SeedEnds
    MismatchReported
    HiddenUnpublished
CHECK_DEADLOCK FALSE
