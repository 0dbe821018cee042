SPECIFICATION FairSpec
CONSTANTS
    Backups = {b1, b2}
    NoBackup = NoBackup
    External = {b2}
    CrossCluster = TRUE
    MaxTime = 1
    MaxRestores = 1
    MaxImports = 1
    MaxReadFailures = 1
PROPERTIES
    RestoreEnds
    
CHECK_DEADLOCK FALSE
