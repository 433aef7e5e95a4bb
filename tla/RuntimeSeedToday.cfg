SPECIFICATION FairSpec
CONSTANTS
    Versions <- MCTwoVersions
    Files <- MCFiles
    Dir <- MCDir
    Pkg <- MCPkgToday
    Size <- MCSize
    Time <- MCTime
    Stamped <- MCStamped
    Exe = "exe"
    Jvm = "jvm"
    PatchJar = "patch"
    OpenGl = "opengl"
    Security = "sec"
    Props = "props"
    Rewritten = {"sec", "xbox"}
    Now <- MCNow
    CopyFaults = FALSE
    TornCopies = FALSE
    Losses = FALSE
PROPERTY WarmLaunchSkips
