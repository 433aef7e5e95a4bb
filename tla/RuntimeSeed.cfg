SPECIFICATION FairSpec
CONSTANTS
    Versions <- MCVersions
    Files <- MCFiles
    Dir <- MCDir
    Pkg <- MCPkg
    Size <- MCSize
    Time <- MCTime
    Stamped <- MCStamped
    Exe = "exe"
    Jvm = "jvm"
    PatchJar = "patch"
    OpenGl = "opengl"
    Security = "sec"
    Props = "props"
    Rewritten = {"sec", "xbox"}
    Now <- MCNow
    CopyFaults = FALSE
    TornCopies = FALSE
    Losses = FALSE
INVARIANTS
    TypeOK
    RunsWhole
    CurrentIsWhole
    WarmLaunchCopiesNothing
PROPERTY PreparationEnds
