SPECIFICATION FairSpec
CONSTANTS
    Names = {b1}
    Storage = "s1"
    S3 = {"s1"}
    Storages = {"s1", "nfs"}
    Configs <- MCConfigs
    MaxFailures = 1
INVARIANTS
    RetainKeepsObject
    NoOrphans
    PITRWritesToMain
PROPERTIES
    DeletionEnds
    DeletePurges
    ScheduledMirrored
    PendingEnds
    ContractKept
