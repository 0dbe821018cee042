CONSTANTS
    MaxReplicas = 4
    Sizes = {2, 4}
    Classes = {"standard"}
    Seeded = FALSE
    MaxEdits = 2
    Evictable = {}
    MaxFaults = 0
SPECIFICATION Spec
PROPERTY FreshCopy
