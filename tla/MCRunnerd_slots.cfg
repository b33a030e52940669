SPECIFICATION Spec
CONSTANTS
    JobIdSpace = 4
    max_running = 2
    Pipes <- OnePipe
    DataPipes = {}
    KinKinds = {}
    ExitStatuses = {}
    TimedChoices = {TRUE}
    CancelChoices <- WaitingJobsAndTheFirst
    Faults = {"register", "schedule"}
INVARIANTS
    SlotsAccountedFor
    InternalChecksHold
    ZombiesAreNoticed
    TerminationEscalates
PROPERTIES
    ImplementsJobService
CHECK_DEADLOCK FALSE
