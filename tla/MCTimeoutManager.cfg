SPECIFICATION FairTimeoutSpec
CONSTANTS
    JobIdSpace = 3
    GenerationSpace = 4
    Timeouts <- MCTimeouts
    MaxTime = 5
INVARIANTS
    TimeoutTypeOK
    GenerationsIdentifyEntries
    DeadlineIsWatched
PROPERTIES
    ReportsExactlyTheDue
    ImplementsDeadlines
    EveryDeadlineIsReported
CHECK_DEADLOCK FALSE
