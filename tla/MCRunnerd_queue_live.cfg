SPECIFICATION FairSpec
CONSTANTS
    JobIdSpace = 3
    max_running = 1
    Pipes <- TwoPipes
    DataPipes = {}
    KinKinds = {"group"}
    ExitStatuses = {"exit0"}
    TimedChoices = {TRUE}
    CancelChoices <- WaitingJobs
    Faults = {"launch"}
INVARIANTS
    TypeOK
    NoJobWaitsForAFreeSlot
PROPERTIES
    SettledJobFreesItsSlot
    QueuedJobsLeaveTheQueue
CHECK_DEADLOCK FALSE
