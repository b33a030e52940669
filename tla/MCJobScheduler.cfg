SPECIFICATION SchedulerSpec
CONSTANTS
    JobIdSpace = 6
    max_running = 2
INVARIANTS
    SchedulerTypeOK
    JobsAreHeldOnce
PROPERTY FirstInFirstOut
CHECK_DEADLOCK TRUE
