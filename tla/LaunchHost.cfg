SPECIFICATION FairSpec
CONSTANTS
    Logs <- MCLogs
    Rolled <- MCRolled
    JavaLog = "java_output"
    MaxBlocks = 2
    MaxFiles = 2
    Buffer = 2
    None = "none"
INVARIANTS
    TypeOK
    MirroredInOrder
    NothingSkipped
    WatchdogInFrame
PROPERTIES
    LaunchEnds
    TailersKeepUp
    LateTailersEnd
CHECK_DEADLOCK FALSE
