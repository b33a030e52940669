SPECIFICATION FairSpec
CONSTANTS
    JobIdSpace = 3
    max_running = 1
    Pipes <- TwoPipes
    DataPipes = {}
    KinKinds = {"group"}
    ExitStatuses = {"exit0"}
    TimedChoices = {FALSE}
    CancelChoices <- RunningJobs
    Faults = {}
PROPERTIES
    SettledJobFreesItsSlot
CHECK_DEADLOCK FALSE
