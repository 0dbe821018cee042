SPECIFICATION Spec
CONSTANTS
    Instances = {i1}
    Versions <- MCVersions
    Releases <- MCReleases
    Bundle <- MCBundle
    Confs = {"plain"}
    MaxEdits = 1
    MaxUpgrades = 1
    MaxRollbacks = 0
    MaxFailures = 0
PROPERTIES BumpsAuthorized
