SPECIFICATION InputSpec
CONSTANTS
    ByteValues = 26
    UintSize = 1
    JobIdSize = 2
    kMaxFrameSize = 7
    Clients = {}
    Runnerctls = {}
    CommandLines = {}
    Streams = {}
    SocketBuffer = 1
    CutPoints = {}
    ReadSize = 1
    FdLimit = 1
    MaxPipes = 0
    JobIdSpace = 676
    Faults = {}
    MaxPayload = 8
    MaxText = 4
    MaxArguments = 4
INVARIANTS
    CodecIsExact
    DecimalsAreExact
CHECK_DEADLOCK FALSE
