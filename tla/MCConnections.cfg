SPECIFICATION FairSpec
CONSTANTS
    ByteValues = 26
    UintSize = 2
    JobIdSize = 1
    kMaxFrameSize = 8
    Clients = {c, o}
    Runnerctls = {c}
    CommandLines <- JustSubmit
    Streams <- SomeStreams
    SocketBuffer = 4
    CutPoints = {1}
    ReadSize = 4
    FdLimit = 2
    MaxPipes = 1
    JobIdSpace = 2
    Faults = {"schedule", "kill"}
INVARIANTS
    ConnectionsTypeOK
    DescriptorsHaveOneOwner
    FramesAreExact
    AnswersAreExact
    RunnerctlTellsTheTruth
PROPERTIES
    CloseIsCausedUnlessFresh
    ConversationsEnd
CHECK_DEADLOCK FALSE
