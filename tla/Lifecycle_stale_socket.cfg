SPECIFICATION Spec
CONSTANTS
    Daemons = {d1, d2}
    Children = {k1}
    MaxFaults = 0
PROPERTY OnlyStaleSocketsAreRemoved
CHECK_DEADLOCK FALSE
