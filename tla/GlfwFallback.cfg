SPECIFICATION Spec
CONSTANTS
    main = main
    worker = worker
    NoThread = NoThread
    Threads <- MCThreads
    Main = main
    Boxes <- MCIncomplete
    Faults = FALSE
INVARIANT FallsBackToMesa
