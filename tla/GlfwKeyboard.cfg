SPECIFICATION Spec
CONSTANTS
    main = main
    worker = worker
    NoThread = NoThread
    Threads <- MCThreads
    Main = main
    Boxes <- MCBoxes
    Faults = FALSE
INVARIANT KeyboardWorks
