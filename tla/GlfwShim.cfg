SPECIFICATION ShimSpec
CONSTANTS
    main = main
    worker = worker
    NoThread = NoThread
    Threads <- MCThreads
    Main = main
    Boxes <- MCBoxes
    Faults = TRUE
    Keys <- MCKeys
    Sizes <- MCSizes
    Rooms <- MCRooms
    MaxEvents = 2
INVARIANTS
    ShimTypeOK
    HandlesAreLive
    CurrentIsHeld
    KeysFollow
    SizeIsKnown
    PadIsKnown
PROPERTY TerminateReleases
