SPECIFICATION Spec
CONSTANTS
    Versions <- MCTwoVersions
    Files <- MCFewFiles
    Dir <- MCDir
    Pkg <- MCPkg
    Size <- MCSize
    Time <- MCTime
    Stamped <- MCStamped
    Exe = "exe"
    Jvm = "jvm"
    PatchJar = "patch"
    OpenGl = "opengl"
    Security = "sec"
    Props = "props"
    Rewritten = {"sec"}
    Now <- MCNow
    CopyFaults = TRUE
    TornCopies = FALSE
    Losses = TRUE
PROPERTY CleanSeedRepairs
