SPECIFICATION FairSpec
CONSTANTS
    Backups = {b1, b2}
    NoBackup = NoBackup
    External = {}
    CrossCluster = FALSE
    MaxTime = 2
    MaxRestores = 1
    MaxImports = 0
    MaxReadFailures = 0
PROPERTY
    FinishedReported
CHECK_DEADLOCK FALSE
