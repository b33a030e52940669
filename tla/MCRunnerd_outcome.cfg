SPECIFICATION FairSpec
CONSTANTS
    JobIdSpace = 2
    max_running = 1
    Pipes <- ThreePipes
    DataPipes = {"kStdout", "kStderr"}
    KinKinds = {"group", "escaped"}
    ExitStatuses = {"exit0", "exitN"}
    TimedChoices = {TRUE, FALSE}
    CancelChoices <- AllJobs
    Faults = {"register", "kill"}
INVARIANTS
    NoOutputLost
    TerminalJobsLeaveNothing
    OutcomeIsTrue
    TimedJobsAreGuarded
PROPERTIES
    SignalsInOrder
    TimedJobsEnd
    TerminatingJobsEnd
CHECK_DEADLOCK FALSE
