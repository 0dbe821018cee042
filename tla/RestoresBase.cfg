SPECIFICATION Spec
CONSTANTS
    Backups = {b1, b2}
    NoBackup = NoBackup
    External = {}
    CrossCluster = FALSE
    MaxTime = 3
    MaxRestores = 1
    MaxImports = 0
    MaxReadFailures = 0
SYMMETRY Symmetry
INVARIANTS
    BaseBeforeTarget
    WindowHasBase
PROPERTY
    PastDateSettled
CHECK_DEADLOCK FALSE
