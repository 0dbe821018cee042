SPECIFICATION FairSpec
CONSTANTS
    Instances = {i1}
    Versions <- MCVersions
    Releases <- MCReleases
    Bundle <- MCBundle
    Confs = {"plain", "explicit", "broken"}
    MaxEdits = 1
    MaxUpgrades = 1
    MaxRollbacks = 1
    MaxFailures = 1

    
PROPERTIES
    NeverDowngrade
    BumpsApproved
    AcceptanceKept
    
    ApprovedConverges
