SPECIFICATION Spec
CONSTANTS
    Hidden = {}
    MaxStops = 0
    MaxRestarts = 1
    MaxFailures = 0
PROPERTY
    SeededOnce
CHECK_DEADLOCK FALSE
