SPECIFICATION Spec
CONSTANTS
    JobIdSpace = 2
    max_running = 1
    Pipes <- TwoPipes
    DataPipes = {}
    KinKinds = {"group"}
    ExitStatuses = {"exit0"}
    TimedChoices = {FALSE}
    CancelChoices <- RunningJobs
    Faults = {}
PROPERTIES
    ExitedChildIsNotTerminated
CHECK_DEADLOCK FALSE
