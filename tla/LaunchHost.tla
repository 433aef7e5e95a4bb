----------------------------- MODULE LaunchHost -----------------------------
(***************************************************************************)
(* The launch itself: App::Run after Play, RunEmbeddedMinecraft and its    *)
(* watchdog, the threads that copy the game's logs into mc_launch.log, and *)
(* the window events that write to it too.  All of these write through     *)
(* WriteLog, which opens the file for itself alone and drops the line when *)
(* it cannot.                                                              *)
(*                                                                         *)
(* What a thread reads and writes of a log is counted in blocks.  Lines    *)
(* that only report progress are left out, but for the time the file is    *)
(* taken, and with them g_minecraftRunning, which only words some of them. *)
(* The game is the environment: it writes its logs, rolls some of them     *)
(* over, and its main returns, throws or never ends.  A process that is    *)
(* killed takes no more steps.                                             *)
(***************************************************************************)
EXTENDS Naturals, Sequences

CONSTANTS
    Logs, JavaLog,     \* the logs that are copied; the one stdout goes to
    Rolled,            \* the logs that log4j renames and starts again
    MaxBlocks,         \* bound: blocks written to one file
    MaxFiles,          \* bound: files of one name, the first and its successors
    Buffer,            \* blocks that one ReadFile takes
    None               \* mc_launch.log is not open

ASSUME LogsAssumption ==
    /\ JavaLog \in Logs /\ Rolled \subseteq Logs
    /\ Logs \cap {"host", "watchdog", "system", None} = {}
    /\ None \notin {"host", "watchdog", "system"}
ASSUME BoundsAssumption == MaxBlocks \in Nat \ {0} /\ MaxFiles \in Nat \ {0} /\ Buffer \in Nat \ {0}

VARIABLES
    host,            \* the stage of App::Run
    vm,              \* the Java virtual machine is up
    tailing,         \* g_logTailerRunning
    mainRunning,     \* javaMainRunning
    watchdog,        \* the stage of javaMainWatchdog
    tailer,          \* per log, the stage of its thread
    offset,          \* per log, what its thread has read of the file
    at,              \* per log, which file of that name its thread has open
    held,            \* per log, the blocks read and not yet logged
    files,           \* per log, the lengths of the files of that name, oldest first
    log,             \* the thread that has mc_launch.log open
    mirrored,        \* per log, the blocks that reached mc_launch.log, as they came
    dropped          \* per log, the blocks that never got there

tail == <<tailer, offset, at, held, mirrored, dropped>>
run == <<host, mainRunning, watchdog>>
vars == <<run, vm, tailing, tail, files, log>>

-----------------------------------------------------------------------------
Stages == {"menu", "prepare", "jvm", "lookup", "main", "join", "tail", "tailing", "exit",
           "stop", "wait", "returned", "ended"}
Alive == host # "ended"
Blocks == (1..MaxFiles) \X (1..MaxBlocks)

TypeOK ==
    /\ host \in Stages
    /\ vm \in BOOLEAN
    /\ tailing \in BOOLEAN /\ mainRunning \in BOOLEAN
    /\ watchdog \in {"none", "sleep", "awake", "log", "done"}
    /\ tailer \in [Logs -> {"none", "check", "read", "open", "write", "done"}]
    /\ offset \in [Logs -> 0..MaxBlocks]
    /\ at \in [Logs -> 0..MaxFiles]
    /\ held \in [Logs -> 0..Buffer]
    /\ files \in [Logs -> Seq(0..MaxBlocks)] /\ \A l \in Logs : Len(files[l]) <= MaxFiles
    /\ log \in Logs \cup {"host", "watchdog", "system", None}
    /\ mirrored \in [Logs -> Seq(Blocks)] /\ dropped \in [Logs -> SUBSET Blocks]

\* The last launch may have left its logs.
Init ==
    /\ host = "menu" /\ vm = FALSE
    /\ tailing = FALSE /\ mainRunning = FALSE /\ watchdog = "none"
    /\ tailer = [l \in Logs |-> "none"]
    /\ offset = [l \in Logs |-> 0] /\ at = [l \in Logs |-> 0] /\ held = [l \in Logs |-> 0]
    /\ files \in [Logs -> {<<>>, <<1>>}]
    /\ log = None
    /\ mirrored = [l \in Logs |-> <<>>] /\ dropped = [l \in Logs |-> {}]

-----------------------------------------------------------------------------
(* mc_launch.log.                                                          *)

\* WriteLog: _wfopen_s shares the file with readers only.
OpensLog(t) == log = None /\ log' = t
LogBusy == log # None /\ UNCHANGED log
ClosesLog(t) == log = t /\ log' = None

\* A handler of CoreApplication or CoreWindow, on a thread of the system.
LifecycleEvent ==
    /\ Alive
    /\ OpensLog("system") \/ ClosesLog("system")
    /\ UNCHANGED <<run, vm, tailing, tail, files>>

-----------------------------------------------------------------------------
(* LogTailerThreadProc, one per log.                                       *)

Stay(l, to) == tailer' = [tailer EXCEPT ![l] = to]

\* Mutant: a file that was read to its end counts as shortened.
CheckRestarts(l) ==
    /\ Alive /\ tailer[l] = "check" /\ tailing /\ files[l] # <<>>
    /\ at' = [at EXCEPT ![l] = Len(files[l])]
    /\ offset' = [offset EXCEPT ![l] = IF @ >= files[l][Len(files[l])] THEN 0 ELSE @]
    /\ Stay(l, "read")
    /\ UNCHANGED <<run, vm, tailing, held, mirrored, dropped, files, log>>

\* The file of that name is opened; one that is shorter than what was read of the
\* last is read from its start.  Without one the thread sleeps and looks again.
CheckOpens(l) ==
    /\ Alive /\ tailer[l] = "check" /\ tailing /\ files[l] # <<>>
    /\ at' = [at EXCEPT ![l] = Len(files[l])]
    /\ offset' = [offset EXCEPT ![l] = IF @ > files[l][Len(files[l])] THEN 0 ELSE @]
    /\ Stay(l, "read")
    /\ UNCHANGED <<run, vm, tailing, held, mirrored, dropped, files, log>>

CheckEnds(l) ==
    /\ Alive /\ tailer[l] = "check" /\ ~tailing
    /\ Stay(l, "done")
    /\ UNCHANGED <<run, vm, tailing, offset, at, held, mirrored, dropped, files, log>>

Unread(l) == files[l][at[l]] - offset[l]
Least(m, n) == IF m < n THEN m ELSE n

\* Mutant: the buffer is logged whole, at the end of the file too.
ReadBlocksPast(l) ==
    /\ Alive /\ tailer[l] = "read"
    /\ held' = [held EXCEPT ![l] = Buffer]
    /\ offset' = [offset EXCEPT ![l] = @ + Buffer]
    /\ Stay(l, "open")
    /\ UNCHANGED <<run, vm, tailing, at, mirrored, dropped, files, log>>

\* Mutant: the buffer's length is taken for the bytes read.
ReadBlocksFull(l) ==
    /\ Alive /\ tailer[l] = "read"
    /\ \/ /\ Unread(l) > 0
          /\ held' = [held EXCEPT ![l] = Least(Buffer, Unread(l))]
          /\ offset' = [offset EXCEPT ![l] = Least(MaxBlocks, @ + Buffer)]
          /\ Stay(l, "open")
       \/ /\ Unread(l) <= 0
          /\ Stay(l, "check")
          /\ UNCHANGED <<held, offset>>
    /\ UNCHANGED <<run, vm, tailing, at, mirrored, dropped, files, log>>

\* Mutant: the thread is over at the end of the file.
ReadBlocksOnce(l) ==
    /\ Alive /\ tailer[l] = "read"
    /\ \/ /\ Unread(l) > 0
          /\ held' = [held EXCEPT ![l] = Least(Buffer, Unread(l))]
          /\ offset' = [offset EXCEPT ![l] = @ + Least(Buffer, Unread(l))]
          /\ Stay(l, "open")
       \/ /\ Unread(l) = 0
          /\ Stay(l, "done")
          /\ UNCHANGED <<held, offset>>
    /\ UNCHANGED <<run, vm, tailing, at, mirrored, dropped, files, log>>

\* ReadFile; at the end of the file it is closed.
ReadBlocks(l) ==
    /\ Alive /\ tailer[l] = "read"
    /\ \/ /\ Unread(l) > 0
          /\ held' = [held EXCEPT ![l] = Least(Buffer, Unread(l))]
          /\ offset' = [offset EXCEPT ![l] = @ + Least(Buffer, Unread(l))]
          /\ Stay(l, "open")
       \/ /\ Unread(l) = 0
          /\ Stay(l, "check")
          /\ UNCHANGED <<held, offset>>
    /\ UNCHANGED <<run, vm, tailing, at, mirrored, dropped, files, log>>

\* What the last ReadFile took.
Held(l) == [i \in 1..held[l] |-> <<at[l], offset[l] - held[l] + i>>]

\* LogUtf8Chunk: the blocks reach mc_launch.log, or nobody will see them.  It may be busy,
\* and a chunk that no code page converts or that is line ends only is not even tried.
LogUtf8Chunk(l) ==
    /\ Alive /\ tailer[l] = "open"
    /\ \/ OpensLog(l) /\ Stay(l, "write") /\ UNCHANGED <<held, dropped>>
       \/ /\ UNCHANGED log
          /\ Stay(l, "read")
          /\ dropped' = [dropped EXCEPT ![l] = @ \cup {Held(l)[i] : i \in 1..held[l]}]
          /\ held' = [held EXCEPT ![l] = 0]
    /\ UNCHANGED <<run, vm, tailing, offset, at, mirrored, files>>

WriteChunk(l) ==
    /\ Alive /\ tailer[l] = "write"
    /\ ClosesLog(l)
    /\ mirrored' = [mirrored EXCEPT ![l] = @ \o Held(l)]
    /\ held' = [held EXCEPT ![l] = 0]
    /\ Stay(l, "read")
    /\ UNCHANGED <<run, vm, tailing, offset, at, dropped, files>>

LogTailerThreadProc(l) ==
    \/ CheckOpens(l) \/ CheckEnds(l)
    \/ ReadBlocks(l) \/ LogUtf8Chunk(l) \/ WriteChunk(l)

-----------------------------------------------------------------------------
(* App::Run and RunEmbeddedMinecraft.                                      *)

\* stdout is sent to a new file, and the other logs of the last launch are deleted; what
\* fails leaves the old file.
RedirectStdStreams ==
    /\ host = "menu"
    /\ host' = "prepare"
    /\ \E kept \in SUBSET Logs :
        files' = [l \in Logs |-> IF l \in kept THEN files[l]
                                 ELSE IF l = JavaLog THEN <<0>> ELSE <<>>]
    /\ UNCHANGED <<mainRunning, watchdog, vm, tailing, tail, log>>

\* Any of the threads may fail to start; without one the tailers are off again.
StartLogTailers ==
    /\ host = "prepare"
    /\ \E started \in SUBSET Logs :
        /\ tailer' = [l \in Logs |-> IF l \in started THEN "check" ELSE "none"]
        /\ tailing' = (started # {})
    /\ host' = "jvm"
    /\ UNCHANGED <<mainRunning, watchdog, vm, offset, at, held>>
    /\ UNCHANGED <<mirrored, dropped, files, log>>

\* The argument file, PreloadJvm and JNI_CreateJavaVM, any of which may fail.
CreateJavaVM ==
    /\ host = "jvm"
    /\ \/ host' = "lookup" /\ vm' = TRUE
       \/ host' = "stop" /\ UNCHANGED vm
    /\ UNCHANGED <<mainRunning, watchdog, tailing, tail, files, log>>

\* KnotClient, its main and its arguments are looked up; the watchdog starts.
InvokeMain ==
    /\ host = "lookup"
    /\ \/ host' = "main" /\ mainRunning' = TRUE /\ watchdog' = "sleep"
       \/ host' = "stop" /\ UNCHANGED <<mainRunning, watchdog>>
    /\ UNCHANGED <<vm, tailing, tail, files, log>>

\* Mutant: the watchdog is not told that main is over.
MainEndsSilently ==
    /\ host = "main"
    /\ host' = "join"
    /\ UNCHANGED <<mainRunning, watchdog, vm, tailing, tail, files, log>>

MainEnds ==
    /\ host = "main"
    /\ host' = "join"
    /\ mainRunning' = FALSE
    /\ UNCHANGED <<watchdog, vm, tailing, tail, files, log>>

\* Mutant: the watchdog is detached instead of joined.
JoinWatchdogNever ==
    /\ host = "join"
    /\ host' \in {"exit", "tail"}
    /\ UNCHANGED <<mainRunning, watchdog, vm, tailing, tail, files, log>>

\* A main that threw has the end of its log copied.
JoinWatchdog ==
    /\ host = "join" /\ watchdog = "done"
    /\ host' \in {"exit", "tail"}
    /\ UNCHANGED <<mainRunning, watchdog, vm, tailing, tail, files, log>>

\* LogTextFileTail: the end of java_output.log, in one line of mc_launch.log.
LogTextFileTail ==
    /\ \/ host = "tail" /\ OpensLog("host") /\ host' = "tailing"
       \/ host = "tail" /\ LogBusy /\ host' = "exit"
       \/ host = "tailing" /\ ClosesLog("host") /\ host' = "exit"
    /\ UNCHANGED <<mainRunning, watchdog, vm, tailing, tail, files>>

\* ExitProcess stops the other threads where they are.
ExitProcess ==
    /\ host = "exit"
    /\ host' = "ended"
    /\ UNCHANGED <<mainRunning, watchdog, vm, tailing, tail>>
    /\ UNCHANGED <<files, log>>

\* Mutant: the threads are waited for and not told to end.
StopLogTailersSilently ==
    /\ host = "stop"
    /\ host' = "wait"
    /\ UNCHANGED <<mainRunning, watchdog, vm, tailing, tail, files, log>>

\* ~LogTailerGuard, only on the way out of a failed launch.
StopLogTailers ==
    /\ host = "stop"
    /\ tailing' = FALSE
    /\ host' = "wait"
    /\ UNCHANGED <<mainRunning, watchdog, vm, tail, files, log>>

\* At most a second for each thread: its handle is closed then, whether it is done or not.
WaitForTailers ==
    /\ host = "wait"
    /\ host' = "returned"
    /\ UNCHANGED <<mainRunning, watchdog, vm, tailing, tail, files, log>>

-----------------------------------------------------------------------------
(* javaMainWatchdog.                                                       *)

\* Five seconds later: a line in the log, and now and then the threads' stacks.
WatchdogWakes ==
    /\ Alive /\ watchdog = "sleep"
    /\ watchdog' = IF mainRunning THEN "awake" ELSE "done"
    /\ UNCHANGED <<host, mainRunning, vm, tailing, tail, files, log>>

WatchdogLogs ==
    /\ Alive
    /\ \/ watchdog = "awake" /\ OpensLog("watchdog") /\ watchdog' = "log"
       \/ watchdog = "awake" /\ LogBusy /\ watchdog' = "sleep"
       \/ watchdog = "log" /\ ClosesLog("watchdog") /\ watchdog' = "sleep"
    /\ UNCHANGED <<host, mainRunning, vm, tailing, tail, files>>

-----------------------------------------------------------------------------
(* The game and the system.                                                *)

\* A log is created by its first line, but for stdout's.
GameWrites(l) ==
    /\ Alive /\ vm
    /\ \/ files[l] = <<>> /\ l # JavaLog /\ files' = [files EXCEPT ![l] = <<1>>]
       \/ /\ files[l] # <<>> /\ files[l][Len(files[l])] < MaxBlocks
          /\ files' = [files EXCEPT ![l][Len(files[l])] = @ + 1]
    /\ UNCHANGED <<run, vm, tailing, tail, log>>

\* log4j renames latest.log at midnight and goes on with a new one; a thread that has
\* the old one open keeps it.
LogRolls(l) ==
    /\ Alive /\ vm /\ l \in Rolled
    /\ files[l] # <<>> /\ Len(files[l]) < MaxFiles
    /\ files' = [files EXCEPT ![l] = Append(@, 0)]
    /\ UNCHANGED <<run, vm, tailing, tail, log>>

-----------------------------------------------------------------------------
Host ==
    \/ RedirectStdStreams \/ StartLogTailers \/ CreateJavaVM \/ InvokeMain
    \/ JoinWatchdog \/ LogTextFileTail \/ ExitProcess \/ StopLogTailers \/ WaitForTailers
Watchdog == WatchdogWakes \/ WatchdogLogs
Game == MainEnds \/ \E l \in Logs : GameWrites(l) \/ LogRolls(l)

Next ==
    \/ Host \/ Watchdog \/ Game \/ LifecycleEvent
    \/ \E l \in Logs : LogTailerThreadProc(l)

Spec == Init /\ [][Next]_vars
\* The threads of the app run when they can, and every step of theirs moves their
\* stage; the game does as it likes.
FairSpec ==
    /\ Spec
    /\ WF_host(Host) /\ WF_watchdog(Watchdog)
    /\ \A l \in Logs : WF_tailer(LogTailerThreadProc(l))

-----------------------------------------------------------------------------
(* Properties.                                                             *)

Before(b, c) == b[1] < c[1] \/ (b[1] = c[1] /\ b[2] < c[2])

\* mc_launch.log has the game's lines in the order they were written and none of them
\* twice, whatever is dropped and however the file is rolled (App.cpp 595-646).
MirroredInOrder ==
    \A l \in Logs : \A i, j \in DOMAIN mirrored[l] :
        i < j => Before(mirrored[l][i], mirrored[l][j])

\* Of a log that was never rolled nothing is passed over: what was read is in
\* mc_launch.log, was dropped on the way there, or is still on it (App.cpp
\* 388-408, 595-646).
NothingSkipped ==
    \A l \in Logs : Len(files[l]) = 1 =>
        {<<1, i>> : i \in 1..offset[l]} =
            {mirrored[l][i] : i \in DOMAIN mirrored[l]} \cup dropped[l]
            \cup {Held(l)[i] : i \in 1..held[l]}

\* The watchdog reads a variable of RunEmbeddedMinecraft's frame, which is there as
\* long as the watchdog is (App.cpp 2856-2876).
WatchdogInFrame == watchdog \notin {"none", "done"} => host \in {"main", "join", "ended"}

\* A thread that was still at work when its second was over, and whose handle is closed
\* by then, ends by itself: it is told to, and neither what is left of its log nor a busy
\* mc_launch.log keeps it (App.cpp 607-646, 688-697).
LateTailersEnd ==
    host = "returned" ~> \A l \in Logs : tailer[l] \in {"none", "done"}

Behind(l) == held[l] > 0 \/ (files[l] # <<>> /\ files[l][1] > offset[l])

\* What the game writes to a log that is not rolled is seen while the launch goes on:
\* when the game pauses, all of it gets into mc_launch.log or is dropped there, however
\* the thread's turns fall and whatever the others log meanwhile (App.cpp 595-686).
TailersKeepUp ==
    \A l \in Logs \ Rolled :
        tailing /\ tailer[l] # "none" /\ Behind(l) ~> ~Behind(l) \/ ~tailing \/ ~Alive

\* Once main is over, or the launch has failed, the app is over too (App.cpp 2871-2889,
\* 3109-3116): neither the watchdog nor a busy log can hold it up.
LaunchEnds == host \in {"join", "stop"} ~> host \in {"ended", "returned"}

-----------------------------------------------------------------------------
(* Inductive strengthenings of the invariants.                             *)

\* A thread has read no more than there is of the file it has open, holds only what
\* it read last, and has nothing before it opens a file.
Reads(l) ==
    /\ at[l] <= Len(files[l])
    /\ at[l] > 0 => offset[l] <= files[l][at[l]]
    /\ at[l] = 0 => offset[l] = 0 /\ mirrored[l] = <<>> /\ dropped[l] = {}
    /\ tailer[l] \in {"read", "open", "write"} => at[l] > 0
    /\ held[l] <= offset[l]
    /\ tailer[l] \notin {"open", "write"} => held[l] = 0
    /\ host \in {"menu", "prepare"} => tailer[l] = "none" /\ at[l] = 0
ReadInv == \A l \in Logs : Reads(l)

\* What has reached mc_launch.log is older than what is held, or read next.
Due(l) == <<at[l], offset[l] - held[l] + 1>>
PastInv ==
    \A l \in Logs : \A i \in DOMAIN mirrored[l] : Before(mirrored[l][i], Due(l))
=============================================================================
