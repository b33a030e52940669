SPECIFICATION FairSpec
CONSTANTS
    Daemons = {d1, d2}
    Children = {k1, k2}
    MaxFaults = 1
INVARIANTS
    LifecycleTypeOK
    NoOrphanPrograms
    LaunchedChildHasItsGroup
    StartupPipeIsTrue
    PathLeadsToTheDaemon
PROPERTY
    RestartSucceeds
CHECK_DEADLOCK FALSE
