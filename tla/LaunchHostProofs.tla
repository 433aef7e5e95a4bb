--------------------------- MODULE LaunchHostProofs ---------------------------
(***************************************************************************)
(* Proofs about LaunchHost, for any logs, any buffer and any number of     *)
(* blocks and of files of one name.  Nearly every step is one of the       *)
(* thread of a log, or leaves what that thread did alone and lets its file *)
(* grow (StepCases), so that each invariant is proved log by log.          *)
(***************************************************************************)
EXTENDS LaunchHost, SequenceTheorems, TLAPS

-----------------------------------------------------------------------------
(* The watchdog.                                                           *)

\* The watchdog starts when main does, and is joined before the frame is left
\* (App.cpp 2856-2876).
THEOREM WatchdogCorrect == Spec => []WatchdogInFrame
<1>1. Init => WatchdogInFrame
  BY DEF Init, WatchdogInFrame
<1>2. WatchdogInFrame /\ [Next]_vars => WatchdogInFrame'
  <2>. SUFFICES ASSUME WatchdogInFrame, [Next]_vars
                PROVE  WatchdogInFrame'
    OBVIOUS
  <2>1. CASE Host
    BY <2>1 DEF Host, RedirectStdStreams, StartLogTailers, CreateJavaVM, InvokeMain, JoinWatchdog,
       LogTextFileTail, ExitProcess, StopLogTailers, WaitForTailers, WatchdogInFrame
  <2>2. CASE Watchdog
    BY <2>2 DEF Watchdog, WatchdogWakes, WatchdogLogs, WatchdogInFrame
  <2>3. CASE Game
    BY <2>3 DEF Game, MainEnds, GameWrites, LogRolls, run, WatchdogInFrame
  <2>4. CASE LifecycleEvent \/ (\E l \in Logs : LogTailerThreadProc(l)) \/ UNCHANGED vars
    BY <2>4 DEF LifecycleEvent, LogTailerThreadProc, CheckOpens, CheckEnds, ReadBlocks,
       LogUtf8Chunk, WriteChunk, run, vars, WatchdogInFrame
  <2>. QED
    BY <2>1, <2>2, <2>3, <2>4 DEF Next
<1>. QED
  BY <1>1, <1>2, PTL DEF Spec

-----------------------------------------------------------------------------
(* Types.                                                                  *)

\* The bounds are numbers.
LEMMA BoundTypes == MaxBlocks \in Nat /\ MaxFiles \in Nat /\ Buffer \in Nat
BY BoundsAssumption

\* The blocks that a thread holds are blocks of a file.
LEMMA HeldType ==
    ASSUME TypeOK, NEW l \in Logs, Reads(l), tailer[l] \in {"open", "write"}
    PROVE  /\ Held(l) \in Seq(Blocks) /\ Len(Held(l)) = held[l]
           /\ \A i \in 1..held[l] : Held(l)[i] = <<at[l], offset[l] - held[l] + i>>
<1>1. /\ at[l] \in Nat /\ at[l] > 0 /\ at[l] <= MaxFiles
      /\ offset[l] \in Nat /\ offset[l] <= MaxBlocks
      /\ held[l] \in Nat /\ held[l] <= offset[l]
  BY BoundTypes DEF TypeOK, Reads
<1>2. \A i \in 1..held[l] : <<at[l], offset[l] - held[l] + i>> \in Blocks
  BY <1>1, BoundTypes DEF Blocks
<1>. DEFINE n == held[l]
            b(i) == <<at[l], offset[l] - n + i>>
<1>3. n \in Nat /\ \A i \in 1..n : b(i) \in Blocks
  BY <1>1, <1>2
<1>4. Held(l) = [i \in 1..n |-> b(i)]
  BY DEF Held
<1>. HIDE DEF n, b
<1>5. Held(l) \in Seq(Blocks) /\ Len(Held(l)) = n /\ \A i \in 1..n : Held(l)[i] = b(i)
  BY <1>3, <1>4
<1>. QED
  BY <1>5 DEF n, b

\* What holds at the start.
LEMMA InitType == Init => TypeOK /\ ReadInv /\ PastInv
<1>. SUFFICES ASSUME Init
              PROVE  TypeOK /\ ReadInv /\ PastInv
  OBVIOUS
<1>. USE BoundsAssumption DEF Init
<1>1. \A s \in {<<>>, <<1>>} : s \in Seq(0..MaxBlocks) /\ Len(s) <= MaxFiles
  <2>1. 1 \in 0..MaxBlocks /\ 1 <= MaxFiles /\ 0 <= MaxFiles
    OBVIOUS
  <2>2. <<1>> \in Seq(0..MaxBlocks) /\ Len(<<1>>) = 1
    BY <2>1
  <2>. QED
    BY <2>1, <2>2, EmptySeq
<1>2. files \in [Logs -> Seq(0..MaxBlocks)] /\ \A l \in Logs : Len(files[l]) <= MaxFiles
  BY <1>1
<1>3. /\ offset \in [Logs -> 0..MaxBlocks] /\ at \in [Logs -> 0..MaxFiles]
      /\ held \in [Logs -> 0..Buffer]
      /\ tailer \in [Logs -> {"none", "check", "read", "open", "write", "done"}]
      /\ mirrored \in [Logs -> Seq(Blocks)] /\ dropped \in [Logs -> SUBSET Blocks]
  OBVIOUS
<1>4. TypeOK
  BY <1>2, <1>3 DEF TypeOK, Stages
<1>5. ReadInv
  <2>. SUFFICES ASSUME NEW l \in Logs
                PROVE  Reads(l)
    BY DEF ReadInv
  <2>1. Len(files[l]) \in Nat
    BY <1>2
  <2>. QED
    BY <2>1 DEF Reads
<1>6. PastInv
  BY DEF PastInv
<1>. QED
  BY <1>4, <1>5, <1>6

\* The files of a log only get longer, and more.
Grows(l) ==
    /\ Len(files[l]) <= Len(files'[l])
    /\ \A i \in 1..Len(files[l]) : files[l][i] <= files'[l][i]

\* A log's files have lengths that are numbers within the bound.
LEMMA FileType ==
    ASSUME TypeOK, NEW l \in Logs
    PROVE  /\ files[l] \in Seq(0..MaxBlocks) /\ Len(files[l]) \in Nat
           /\ \A i \in 1..Len(files[l]) : files[l][i] \in 0..MaxBlocks /\ files[l][i] \in Nat
<1>1. files[l] \in Seq(0..MaxBlocks) /\ Len(files[l]) \in Nat
  BY DEF TypeOK
<1>2. \A i \in 1..Len(files[l]) : files[l][i] \in 0..MaxBlocks
  BY <1>1, ElementOfSeq
<1>. QED
  BY <1>1, <1>2, BoundTypes

\* Files that stay as they are have not shrunk.
LEMMA SameGrows ==
    ASSUME TypeOK, NEW l \in Logs, UNCHANGED files
    PROVE  Grows(l)
BY FileType DEF Grows

\* A block more in the last file, or a new file: the game writes, log4j rolls over.
LEMMA GameStep ==
    ASSUME TypeOK, NEW k \in Logs, GameWrites(k) \/ LogRolls(k)
    PROVE  /\ files' \in [Logs -> Seq(0..MaxBlocks)]
           /\ \A l \in Logs : Len(files'[l]) <= MaxFiles /\ Grows(l)
<1>0. /\ files[k] \in Seq(0..MaxBlocks) /\ Len(files[k]) \in Nat /\ Len(files[k]) <= MaxFiles
      /\ files \in [Logs -> Seq(0..MaxBlocks)]
  BY DEF TypeOK
<1>1. \A l \in Logs : \A i \in 1..Len(files[l]) : files[l][i] \in 0..MaxBlocks
  BY ElementOfSeq DEF TypeOK
<1>2. /\ \A l \in Logs \ {k} : files'[l] = files[l]
      /\ files' \in [Logs -> Seq(0..MaxBlocks)]
      /\ Len(files'[k]) <= MaxFiles /\ Grows(k)
  <2>1. CASE files[k] = <<>> /\ files' = [files EXCEPT ![k] = <<1>>]
    <3>1. 1 \in 0..MaxBlocks /\ 1 <= MaxFiles
      BY BoundsAssumption
    <3>2. <<1>> \in Seq(0..MaxBlocks) /\ Len(<<1>>) = 1
      BY <3>1
    <3>3. Len(files[k]) = 0 /\ files'[k] = <<1>>
      BY <1>0, <2>1
    <3>. QED
      BY <1>0, <2>1, <3>1, <3>2, <3>3 DEF Grows
  <2>2. CASE /\ files[k] # <<>> /\ files[k][Len(files[k])] < MaxBlocks
             /\ files' = [files EXCEPT ![k][Len(files[k])] = @ + 1]
    <3>. DEFINE last == Len(files[k])
                more == files[k][last] + 1
                s == [files[k] EXCEPT ![last] = more]
    <3>1. last \in 1..Len(files[k])
      BY <1>0, <2>2, EmptySeq
    <3>2. more \in 0..MaxBlocks
      BY <1>1, <2>2, <3>1, BoundTypes
    <3>3. /\ s \in Seq(0..MaxBlocks) /\ Len(s) = Len(files[k])
          /\ \A j \in 1..Len(files[k]) : s[j] = IF j = last THEN more ELSE files[k][j]
      BY <1>0, <3>1, <3>2, ExceptSeq
    <3>4. files' = [files EXCEPT ![k] = s]
      BY <2>2
    <3>5. \A i \in 1..Len(files[k]) : files[k][i] <= s[i]
      BY <1>1, <3>3
    <3>. HIDE DEF s
    <3>6. files'[k] = s
      BY <1>0, <3>4
    <3>. QED
      BY <1>0, <3>3, <3>4, <3>5, <3>6 DEF Grows
  <2>3. CASE Len(files[k]) < MaxFiles /\ files' = [files EXCEPT ![k] = Append(@, 0)]
    <3>. DEFINE s == Append(files[k], 0)
    <3>1. /\ s \in Seq(0..MaxBlocks) /\ Len(s) = Len(files[k]) + 1
          /\ \A i \in 1..Len(files[k]) : s[i] = files[k][i]
      BY <1>0, BoundTypes, AppendProperties
    <3>2. files' = [files EXCEPT ![k] = s]
      BY <2>3
    <3>3. \A i \in 1..Len(files[k]) : files[k][i] <= s[i]
      BY <1>1, <3>1
    <3>. HIDE DEF s
    <3>4. files'[k] = s
      BY <1>0, <3>2
    <3>. QED
      BY <1>0, <2>3, <3>1, <3>2, <3>3, <3>4, BoundTypes DEF Grows
  <2>. QED
    BY <2>1, <2>2, <2>3 DEF GameWrites, LogRolls
<1>3. ASSUME NEW l \in Logs \ {k}
      PROVE  Len(files'[l]) <= MaxFiles /\ Grows(l)
  <2>1. files'[l] = files[l]
    BY <1>2, <1>3
  <2>2. Len(files[l]) \in Nat /\ Len(files[l]) <= MaxFiles
    BY DEF TypeOK
  <2>3. \A i \in 1..Len(files[l]) : files[l][i] <= files[l][i]
    BY <1>1
  <2>. QED
    BY <2>1, <2>2, <2>3 DEF Grows
<1>. QED
  BY <1>2, <1>3

\* What the thread that reads takes, and how far that gets it.
LEMMA ReadTakes ==
    ASSUME TypeOK, NEW l \in Logs, Reads(l), tailer[l] = "read"
    PROVE  /\ at[l] \in 1..Len(files[l]) /\ at[l] <= MaxFiles
           /\ files[l][at[l]] \in 0..MaxBlocks /\ Unread(l) = files[l][at[l]] - offset[l]
           /\ Unread(l) \in Nat /\ held[l] = 0
           /\ Least(Buffer, Unread(l)) \in Nat
           /\ Least(Buffer, Unread(l)) <= Buffer /\ Least(Buffer, Unread(l)) <= Unread(l)
<1>1. /\ files[l] \in Seq(0..MaxBlocks) /\ Len(files[l]) <= MaxFiles /\ Len(files[l]) \in Nat
      /\ at[l] \in Nat /\ offset[l] \in Nat
  BY BoundTypes DEF TypeOK
<1>2. at[l] \in 1..Len(files[l]) /\ offset[l] <= files[l][at[l]] /\ held[l] = 0
  BY <1>1 DEF Reads
<1>3. files[l][at[l]] \in 0..MaxBlocks
  BY <1>1, <1>2, ElementOfSeq
<1>4. Unread(l) \in Nat
  BY <1>1, <1>2, <1>3, BoundTypes DEF Unread
<1>. QED
  BY <1>1, <1>2, <1>3, <1>4, BoundTypes DEF Unread, Least

\* A thread keeps the types of what it writes.
LEMMA ThreadType ==
    ASSUME TypeOK, NEW l \in Logs, Reads(l), LogTailerThreadProc(l)
    PROVE  TypeOK'
<1>. USE DEF Stay
<1>0. /\ tailer \in [Logs -> {"none", "check", "read", "open", "write", "done"}]
      /\ offset \in [Logs -> 0..MaxBlocks] /\ at \in [Logs -> 0..MaxFiles]
      /\ held \in [Logs -> 0..Buffer]
      /\ mirrored \in [Logs -> Seq(Blocks)] /\ dropped \in [Logs -> SUBSET Blocks]
  BY DEF TypeOK
<1>1. CASE CheckOpens(l)
  <2>1. Len(files[l]) \in 0..MaxFiles
    BY BoundTypes DEF TypeOK
  <2>2. at' \in [Logs -> 0..MaxFiles] /\ offset' \in [Logs -> 0..MaxBlocks]
    BY <1>0, <1>1, <2>1, BoundTypes DEF CheckOpens
  <2>. QED
    BY <1>1, <2>2 DEF CheckOpens, run, TypeOK
<1>2. CASE CheckEnds(l)
  BY <1>2 DEF CheckEnds, run, TypeOK
<1>3. CASE ReadBlocks(l)
  <2>1. /\ offset[l] \in Nat /\ offset[l] + Least(Buffer, Unread(l)) \in 0..MaxBlocks
        /\ Least(Buffer, Unread(l)) \in 0..Buffer
    <3>1. tailer[l] = "read" /\ offset[l] \in Nat
      BY <1>0, <1>3, BoundTypes DEF ReadBlocks
    <3>. DEFINE n == Least(Buffer, Unread(l))
                m == files[l][at[l]]
    <3>2. n \in Nat /\ n <= Buffer /\ n <= m - offset[l] /\ m \in 0..MaxBlocks
      BY <3>1, ReadTakes
    <3>. HIDE DEF n, m
    <3>3. offset[l] + n \in 0..MaxBlocks /\ n \in 0..Buffer
      BY <3>1, <3>2, BoundTypes
    <3>. QED
      BY <3>1, <3>3 DEF n
  <2>2. /\ offset' \in [Logs -> 0..MaxBlocks] /\ held' \in [Logs -> 0..Buffer]
        /\ tailer' \in [Logs -> {"none", "check", "read", "open", "write", "done"}]
    <3>. DEFINE n == Least(Buffer, Unread(l))
    <3>1. \/ /\ held' = [held EXCEPT ![l] = n]
             /\ offset' = [offset EXCEPT ![l] = offset[l] + n]
             /\ tailer' = [tailer EXCEPT ![l] = "open"]
          \/ /\ tailer' = [tailer EXCEPT ![l] = "check"]
             /\ UNCHANGED <<held, offset>>
      BY <1>3 DEF ReadBlocks
    <3>2. offset[l] + n \in 0..MaxBlocks /\ n \in 0..Buffer
      BY <2>1
    <3>. HIDE DEF n
    <3>. QED
      BY <1>0, <3>1, <3>2
  <2>3. UNCHANGED <<run, vm, tailing, at, mirrored, dropped, files, log>>
    BY <1>3 DEF ReadBlocks
  <2>. QED
    BY <2>2, <2>3 DEF run, TypeOK
<1>4. CASE LogUtf8Chunk(l)
  <2>1. {Held(l)[i] : i \in 1..held[l]} \subseteq Blocks
    <3>1. tailer[l] = "open"
      BY <1>4 DEF LogUtf8Chunk
    <3>2. Held(l) \in Seq(Blocks) /\ Len(Held(l)) = held[l]
      BY <3>1, HeldType
    <3>. QED
      BY <3>2, ElementOfSeq
  <2>2. \/ /\ tailer' = [tailer EXCEPT ![l] = "write"]
           /\ UNCHANGED <<held, dropped>>
        \/ /\ tailer' = [tailer EXCEPT ![l] = "read"]
           /\ held' = [held EXCEPT ![l] = 0]
           /\ dropped' = [dropped EXCEPT ![l] = @ \cup {Held(l)[i] : i \in 1..held[l]}]
    BY <1>4 DEF LogUtf8Chunk
  <2>3. /\ held' \in [Logs -> 0..Buffer] /\ dropped' \in [Logs -> SUBSET Blocks]
        /\ tailer' \in [Logs -> {"none", "check", "read", "open", "write", "done"}]
    <3>. DEFINE taken == {Held(l)[i] : i \in 1..held[l]}
    <3>1. dropped[l] \cup taken \in SUBSET Blocks
      BY <1>0, <2>1
    <3>. HIDE DEF taken
    <3>2. dropped' \in [Logs -> SUBSET Blocks]
      BY <1>0, <2>2, <3>1 DEF taken
    <3>3. held' \in [Logs -> 0..Buffer]
      <4>1. held' = held \/ held' = [held EXCEPT ![l] = 0]
        BY <2>2
      <4>2. held \in [Logs -> 0..Buffer] /\ 0 \in 0..Buffer
        BY <1>0, BoundTypes
      <4>. QED
        BY <4>1, <4>2
    <3>4. tailer' \in [Logs -> {"none", "check", "read", "open", "write", "done"}]
      <4>1. tailer' = [tailer EXCEPT ![l] = "write"] \/ tailer' = [tailer EXCEPT ![l] = "read"]
        BY <2>2
      <4>. QED
        BY <1>0, <4>1, Zenon
    <3>. QED
      BY <3>2, <3>3, <3>4
  <2>4. log' \in Logs \cup {"host", "watchdog", "system", None}
    BY <1>4 DEF LogUtf8Chunk, OpensLog, LogBusy, TypeOK
  <2>5. UNCHANGED <<run, vm, tailing, offset, at, mirrored, files>>
    BY <1>4 DEF LogUtf8Chunk
  <2>. QED
    BY <2>3, <2>4, <2>5 DEF run, TypeOK
<1>5. CASE WriteChunk(l)
  <2>1. mirrored[l] \o Held(l) \in Seq(Blocks)
    <3>1. tailer[l] = "write" /\ mirrored[l] \in Seq(Blocks)
      BY <1>0, <1>5 DEF WriteChunk
    <3>2. Held(l) \in Seq(Blocks)
      BY <3>1, HeldType
    <3>. QED
      BY <3>1, <3>2, ConcatProperties
  <2>2. mirrored' \in [Logs -> Seq(Blocks)]
    BY <1>0, <1>5, <2>1 DEF WriteChunk
  <2>3. /\ held' \in [Logs -> 0..Buffer] /\ log' = None
        /\ tailer' \in [Logs -> {"none", "check", "read", "open", "write", "done"}]
    BY <1>0, <1>5, BoundTypes DEF WriteChunk, ClosesLog
  <2>4. UNCHANGED <<run, vm, tailing, offset, at, dropped, files>>
    BY <1>5 DEF WriteChunk
  <2>. QED
    BY <2>2, <2>3, <2>4 DEF run, TypeOK
<1>. QED
  BY <1>1, <1>2, <1>3, <1>4, <1>5 DEF LogTailerThreadProc

\* Every step keeps the types.
LEMMA TypeStep == TypeOK /\ ReadInv /\ [Next]_vars => TypeOK'
<1>. SUFFICES ASSUME TypeOK, ReadInv, [Next]_vars
              PROVE  TypeOK'
  OBVIOUS
<1>1. CASE RedirectStdStreams
  <2>1. PICK kept \in SUBSET Logs :
          files' = [l \in Logs |-> IF l \in kept THEN files[l]
                                   ELSE IF l = JavaLog THEN <<0>> ELSE <<>>]
    BY <1>1 DEF RedirectStdStreams
  <2>2. <<0>> \in Seq(0..MaxBlocks) /\ Len(<<0>>) <= MaxFiles
    <3>1. 0 \in 0..MaxBlocks /\ 1 <= MaxFiles
      BY BoundsAssumption
    <3>2. <<0>> \in Seq(0..MaxBlocks) /\ Len(<<0>>) = 1
      BY <3>1
    <3>. QED
      BY <3>1, <3>2
  <2>0. \A l \in Logs : files[l] \in Seq(0..MaxBlocks) /\ Len(files[l]) <= MaxFiles
    BY DEF TypeOK
  <2>3. <<>> \in Seq(0..MaxBlocks) /\ Len(<<>>) <= MaxFiles
    BY EmptySeq, BoundTypes
  <2>4. files' \in [Logs -> Seq(0..MaxBlocks)] /\ \A l \in Logs : Len(files'[l]) <= MaxFiles
    BY <2>0, <2>1, <2>2, <2>3, Zenon
  <2>. QED
    BY <1>1, <2>4 DEF RedirectStdStreams, tail, TypeOK, Stages
<1>2. CASE StartLogTailers
  <2>1. PICK started \in SUBSET Logs :
          /\ tailer' = [l \in Logs |-> IF l \in started THEN "check" ELSE "none"]
          /\ tailing' = (started # {})
    BY <1>2 DEF StartLogTailers
  <2>2. /\ tailer' \in [Logs -> {"none", "check", "read", "open", "write", "done"}]
        /\ tailing' \in BOOLEAN
    BY <2>1
  <2>3. /\ host' = "jvm"
        /\ UNCHANGED <<mainRunning, watchdog, vm, offset, at, held>>
        /\ UNCHANGED <<mirrored, dropped, files, log>>
    BY <1>2 DEF StartLogTailers
  <2>. QED
    BY <2>2, <2>3 DEF TypeOK, Stages
<1>3. CASE CreateJavaVM \/ InvokeMain \/ MainEnds \/ JoinWatchdog \/ StopLogTailers
           \/ WatchdogWakes
  <2>1. /\ host' \in Stages /\ vm' \in BOOLEAN /\ tailing' \in BOOLEAN
        /\ mainRunning' \in BOOLEAN
        /\ watchdog' \in {"none", "sleep", "awake", "log", "done"}
    BY <1>3 DEF CreateJavaVM, InvokeMain, MainEnds, JoinWatchdog, StopLogTailers, WatchdogWakes,
       TypeOK, Stages
  <2>2. UNCHANGED <<tail, files, log>>
    BY <1>3 DEF CreateJavaVM, InvokeMain, MainEnds, JoinWatchdog, StopLogTailers, WatchdogWakes
  <2>. QED
    BY <2>1, <2>2 DEF tail, TypeOK
<1>4. CASE LogTextFileTail \/ ExitProcess \/ WatchdogLogs \/ LifecycleEvent
  <2>1. /\ host' \in Stages /\ watchdog' \in {"none", "sleep", "awake", "log", "done"}
        /\ log' \in Logs \cup {"host", "watchdog", "system", None}
    BY <1>4 DEF LogTextFileTail, ExitProcess, WatchdogLogs, LifecycleEvent, run, OpensLog, LogBusy,
       ClosesLog, TypeOK, Stages
  <2>2. UNCHANGED <<mainRunning, vm, tailing, tail, files>>
    BY <1>4 DEF LogTextFileTail, ExitProcess, WatchdogLogs, LifecycleEvent, run
  <2>. QED
    BY <2>1, <2>2 DEF tail, TypeOK
<1>5. CASE WaitForTailers
  BY <1>5 DEF WaitForTailers, tail, TypeOK, Stages
<1>6. ASSUME NEW l \in Logs, GameWrites(l) \/ LogRolls(l)
      PROVE  TypeOK'
  <2>1. UNCHANGED <<run, vm, tailing, tail, log>>
    BY <1>6 DEF GameWrites, LogRolls
  <2>. QED
    BY <1>6, <2>1, GameStep DEF run, tail, TypeOK
<1>7. ASSUME NEW l \in Logs, LogTailerThreadProc(l)
      PROVE  TypeOK'
  BY <1>7, ThreadType DEF ReadInv
<1>8. CASE UNCHANGED vars
  BY <1>8 DEF vars, run, tail, TypeOK
<1>. QED
  BY <1>1, <1>2, <1>3, <1>4, <1>5, <1>6, <1>7, <1>8 DEF Next, Host, Watchdog, Game

-----------------------------------------------------------------------------
(* Steps, seen from one log.                                               *)

\* What the thread of l has read, holds and has passed on.
Unmoved(l) ==
    /\ offset'[l] = offset[l] /\ at'[l] = at[l] /\ held'[l] = held[l]
    /\ mirrored'[l] = mirrored[l] /\ dropped'[l] = dropped[l]

\* A step that is not of the thread of l: it starts the thread, or the file is new and
\* the thread has none open, or the file grows.
Elsewhere(l) ==
    /\ Unmoved(l)
    /\ Reads(l) => Grows(l) \/ at[l] = 0
    /\ host' \in {"menu", "prepare"} => host \in {"menu", "prepare"}
    /\ \/ tailer'[l] = tailer[l]
       \/ host = "prepare" /\ host' = "jvm" /\ tailer'[l] \in {"none", "check"}

\* Each thread writes in its own place only.
LEMMA ThreadElsewhere ==
    ASSUME TypeOK, NEW k \in Logs, NEW l \in Logs, k # l, LogTailerThreadProc(k)
    PROVE  Elsewhere(l)
<1>1. Unmoved(l) /\ tailer'[l] = tailer[l]
  BY DEF TypeOK, LogTailerThreadProc, CheckOpens, CheckEnds, ReadBlocks, LogUtf8Chunk, WriteChunk,
     Stay, Unmoved
<1>2. UNCHANGED files /\ host' = host
  BY DEF LogTailerThreadProc, CheckOpens, CheckEnds, ReadBlocks, LogUtf8Chunk, WriteChunk, run
<1>. QED
  BY <1>1, <1>2, SameGrows DEF Elsewhere

\* Every step is one of the thread of l, or elsewhere.
LEMMA StepCases ==
    ASSUME TypeOK, [Next]_vars, NEW l \in Logs
    PROVE  LogTailerThreadProc(l) \/ Elsewhere(l)
<1>2. UNCHANGED files => Grows(l)
  BY SameGrows
<1>3. UNCHANGED tail => Unmoved(l) /\ tailer'[l] = tailer[l]
  BY DEF tail, Unmoved
<1>4. CASE RedirectStdStreams
  BY <1>3, <1>4 DEF RedirectStdStreams, Elsewhere, Reads
<1>5. CASE StartLogTailers
  <2>1. Unmoved(l) /\ host = "prepare" /\ host' = "jvm" /\ UNCHANGED files
    BY <1>5 DEF StartLogTailers, Unmoved
  <2>2. tailer'[l] \in {"none", "check"}
    BY <1>5 DEF StartLogTailers
  <2>. QED
    BY <1>2, <2>1, <2>2 DEF Elsewhere
<1>6. CASE CreateJavaVM \/ InvokeMain \/ JoinWatchdog \/ LogTextFileTail \/ ExitProcess
           \/ StopLogTailers \/ WaitForTailers \/ Watchdog \/ MainEnds \/ LifecycleEvent
           \/ UNCHANGED vars
  <2>1. UNCHANGED <<tail, files>> /\ (host' = host \/ host' \notin {"menu", "prepare"})
    BY <1>6 DEF CreateJavaVM, InvokeMain, JoinWatchdog, LogTextFileTail, ExitProcess,
       StopLogTailers, WaitForTailers, Watchdog, WatchdogWakes, WatchdogLogs, MainEnds,
       LifecycleEvent, run, vars
  <2>. QED
    BY <1>2, <1>3, <2>1 DEF Elsewhere
<1>7. ASSUME NEW k \in Logs, GameWrites(k) \/ LogRolls(k)
      PROVE  Elsewhere(l)
  <2>1. UNCHANGED <<tail, host>>
    BY <1>7 DEF GameWrites, LogRolls, run
  <2>2. Grows(l)
    BY <1>7, GameStep
  <2>. QED
    BY <1>3, <2>1, <2>2 DEF Elsewhere
<1>8. ASSUME NEW k \in Logs, LogTailerThreadProc(k)
      PROVE  LogTailerThreadProc(l) \/ Elsewhere(l)
  BY <1>8, ThreadElsewhere
<1>. QED
  BY <1>4, <1>5, <1>6, <1>7, <1>8 DEF Next, Host, Game

-----------------------------------------------------------------------------
(* What the threads read.                                                  *)

\* A step keeps what is known of how far the thread of l has read.
LEMMA ReadStep ==
    ASSUME TypeOK, TypeOK', NEW l \in Logs, Reads(l), LogTailerThreadProc(l) \/ Elsewhere(l)
    PROVE  Reads(l)'
<1>. USE DEF Stay
<1>0. /\ files[l] \in Seq(0..MaxBlocks) /\ Len(files[l]) \in Nat
      /\ at[l] \in Nat /\ offset[l] \in Nat /\ held[l] \in Nat
      /\ \A i \in 1..Len(files[l]) : files[l][i] \in Nat
  <2>1. /\ files[l] \in Seq(0..MaxBlocks) /\ Len(files[l]) \in Nat
        /\ \A i \in 1..Len(files[l]) : files[l][i] \in Nat
    BY FileType
  <2>2. at[l] \in Nat /\ offset[l] \in Nat /\ held[l] \in Nat
    BY BoundTypes DEF TypeOK
  <2>. QED
    BY <2>1, <2>2
<1>1. CASE LogTailerThreadProc(l)
  <2>0. UNCHANGED <<files, host>>
    BY <1>1 DEF LogTailerThreadProc, CheckOpens, CheckEnds, ReadBlocks, LogUtf8Chunk, WriteChunk,
       run
  <2>1. CASE CheckOpens(l)
    <3>1. /\ at'[l] = Len(files[l]) /\ tailer'[l] = "read"
          /\ offset'[l] = IF offset[l] > files[l][Len(files[l])] THEN 0 ELSE offset[l]
          /\ held'[l] = held[l] /\ held[l] = 0 /\ Len(files[l]) > 0
      BY <1>0, <2>1, EmptySeq DEF CheckOpens, TypeOK, Reads
    <3>2. host' \notin {"menu", "prepare"}
      BY <2>0, <2>1 DEF CheckOpens, Reads
    <3>. QED
      BY <1>0, <2>0, <3>1, <3>2 DEF Reads
  <2>2. CASE CheckEnds(l)
    BY <1>0, <2>0, <2>2 DEF CheckEnds, TypeOK, Reads
  <2>3. CASE ReadBlocks(l)
    <3>1. tailer[l] = "read" /\ at[l] > 0 /\ host' \notin {"menu", "prepare"}
      BY <2>0, <2>3 DEF ReadBlocks, Reads
    <3>2. /\ Unread(l) = files[l][at[l]] - offset[l] /\ held[l] = 0
          /\ Least(Buffer, Unread(l)) \in Nat /\ Least(Buffer, Unread(l)) <= Unread(l)
      BY <3>1, ReadTakes
    <3>3. at'[l] = at[l]
      BY <2>3 DEF ReadBlocks
    <3>4. CASE /\ held'[l] = Least(Buffer, Unread(l))
               /\ offset'[l] = offset[l] + Least(Buffer, Unread(l)) /\ tailer'[l] = "open"
      BY <1>0, <2>0, <3>1, <3>2, <3>3, <3>4 DEF Reads
    <3>5. CASE tailer'[l] = "check" /\ held'[l] = held[l] /\ offset'[l] = offset[l]
      BY <1>0, <2>0, <3>1, <3>2, <3>3, <3>5 DEF Reads
    <3>. QED
      BY <2>3, <3>4, <3>5 DEF ReadBlocks, TypeOK
  <2>4. CASE LogUtf8Chunk(l)
    <3>1. tailer[l] = "open" /\ UNCHANGED <<at, offset>>
      BY <2>4 DEF LogUtf8Chunk
    <3>2. \/ tailer'[l] = "write" /\ held'[l] = held[l]
          \/ tailer'[l] = "read" /\ held'[l] = 0
      BY <2>4 DEF LogUtf8Chunk, TypeOK
    <3>. QED
      BY <1>0, <2>0, <3>1, <3>2 DEF Reads
  <2>5. CASE WriteChunk(l)
    <3>1. tailer[l] = "write" /\ tailer'[l] = "read" /\ held'[l] = 0 /\ UNCHANGED <<at, offset>>
      BY <2>5 DEF WriteChunk, TypeOK
    <3>. QED
      BY <1>0, <2>0, <3>1 DEF Reads
  <2>. QED
    BY <1>1, <2>1, <2>2, <2>3, <2>4, <2>5 DEF LogTailerThreadProc
<1>2. CASE Elsewhere(l)
  <2>1. Len(files'[l]) \in Nat
    BY DEF TypeOK
  <2>2. CASE at[l] = 0
    BY <1>0, <1>2, <2>1, <2>2 DEF Elsewhere, Unmoved, Reads
  <2>3. CASE at[l] # 0
    <3>1. Grows(l) /\ at[l] \in 1..Len(files[l])
      BY <1>0, <1>2, <2>3 DEF Elsewhere, Reads
    <3>2. files[l][at[l]] <= files'[l][at[l]] /\ files'[l][at[l]] \in Nat
          /\ at[l] <= Len(files'[l])
      <4>1. at[l] \in 1..Len(files'[l])
        BY <1>0, <2>1, <3>1 DEF Grows
      <4>2. files'[l][at[l]] \in 0..MaxBlocks
        BY <4>1, ElementOfSeq DEF TypeOK
      <4>. QED
        BY <3>1, <4>1, <4>2, BoundTypes DEF Grows
    <3>. QED
      BY <1>0, <1>2, <2>1, <2>3, <3>1, <3>2 DEF Elsewhere, Unmoved, Reads
  <2>. QED
    BY <2>2, <2>3
<1>. QED
  BY <1>1, <1>2

\* Types and reads are invariants together.
LEMMA ReadCorrect == Spec => [](TypeOK /\ ReadInv)
<1>1. TypeOK /\ ReadInv /\ [Next]_vars => (TypeOK /\ ReadInv)'
  <2>. SUFFICES ASSUME TypeOK, ReadInv, [Next]_vars
                PROVE  (TypeOK /\ ReadInv)'
    OBVIOUS
  <2>1. TypeOK'
    BY TypeStep
  <2>2. ASSUME NEW l \in Logs
        PROVE  Reads(l)'
    BY <2>1, <2>2, StepCases, ReadStep DEF ReadInv
  <2>. QED
    BY <2>1, <2>2 DEF ReadInv
<1>. QED
  BY <1>1, InitType, PTL DEF Spec

\* The state keeps its type; no thread reads past the end of its file (App.cpp 595-646).
THEOREM TypeCorrect == Spec => []TypeOK
BY ReadCorrect, PTL

-----------------------------------------------------------------------------
(* The order of what is copied.                                            *)

\* What comes before a block comes before the later ones.
LEMMA BeforeLater ==
    ASSUME NEW b \in Blocks, NEW a \in Nat, NEW m \in Nat, NEW c \in Nat, NEW n \in Nat,
           Before(b, <<a, m>>), a < c \/ (a = c /\ m <= n)
    PROVE  Before(b, <<c, n>>)
<1>1. b[1] \in Nat /\ b[2] \in Nat
  BY BoundTypes DEF Blocks
<1>. QED
  BY <1>1 DEF Before

\* Of the log l all is in order, and older than what is due.
InOrder(l) ==
    /\ \A i \in DOMAIN mirrored[l] : Before(mirrored[l][i], Due(l))
    /\ \A i, j \in DOMAIN mirrored[l] : i < j => Before(mirrored[l][i], mirrored[l][j])

\* What is due never goes back, but for a thread that has copied nothing.
LEMMA DueStep ==
    ASSUME TypeOK, TypeOK', NEW l \in Logs, Reads(l), Reads(l)',
           LogTailerThreadProc(l) \/ Elsewhere(l)
    PROVE  /\ Due(l) \in Nat \X Nat /\ Due(l)' \in Nat \X Nat
           /\ \/ mirrored[l] = <<>>
              \/ at[l] < at'[l]
              \/ at[l] = at'[l] /\ offset[l] - held[l] + 1 <= offset'[l] - held'[l] + 1
<1>0. /\ at[l] \in Nat /\ offset[l] \in Nat /\ held[l] \in Nat /\ held[l] <= offset[l]
      /\ at'[l] \in Nat /\ offset'[l] \in Nat /\ held'[l] \in Nat /\ held'[l] <= offset'[l]
  BY BoundTypes DEF TypeOK, Reads
<1>1. Due(l) \in Nat \X Nat /\ Due(l)' \in Nat \X Nat
  BY <1>0 DEF Due
<1>2. CASE CheckOpens(l)
  <2>1. /\ at'[l] = Len(files[l]) /\ held'[l] = held[l] /\ held[l] = 0
        /\ offset'[l] = IF offset[l] > files[l][Len(files[l])] THEN 0 ELSE offset[l]
    BY <1>2 DEF CheckOpens, TypeOK, Reads
  <2>2. CASE at[l] = 0
    BY <1>1, <2>2 DEF Reads
  <2>3. CASE at[l] # 0
    <3>1. at[l] <= Len(files[l]) /\ offset[l] <= files[l][at[l]]
      BY <1>0, <2>3 DEF Reads
    <3>2. at[l] = Len(files[l]) => ~(offset[l] > files[l][Len(files[l])])
      <4>1. files[l][at[l]] \in Nat
        BY <1>0, <2>3, <3>1, FileType
      <4>. QED
        BY <1>0, <3>1, <4>1
    <3>. QED
      BY <1>0, <1>1, <2>1, <3>1, <3>2
  <2>. QED
    BY <2>2, <2>3
<1>3. CASE CheckEnds(l) \/ Elsewhere(l)
  <2>1. at'[l] = at[l] /\ offset'[l] = offset[l] /\ held'[l] = held[l]
    BY <1>3 DEF CheckEnds, Elsewhere, Unmoved
  <2>. QED
    BY <1>0, <1>1, <2>1
<1>4. CASE ReadBlocks(l)
  <2>1. /\ tailer[l] = "read" /\ at'[l] = at[l]
        /\ \/ /\ held'[l] = Least(Buffer, Unread(l))
              /\ offset'[l] = offset[l] + Least(Buffer, Unread(l))
           \/ held'[l] = held[l] /\ offset'[l] = offset[l]
    BY <1>4 DEF ReadBlocks, TypeOK
  <2>2. held[l] = 0 /\ Least(Buffer, Unread(l)) \in Nat
    BY <2>1, ReadTakes
  <2>. QED
    BY <1>0, <1>1, <2>1, <2>2
<1>5. CASE LogUtf8Chunk(l) \/ WriteChunk(l)
  <2>1. at'[l] = at[l] /\ offset'[l] = offset[l] /\ (held'[l] = held[l] \/ held'[l] = 0)
    BY <1>5 DEF LogUtf8Chunk, WriteChunk, TypeOK
  <2>. QED
    BY <1>0, <1>1, <2>1
<1>. QED
  BY <1>2, <1>3, <1>4, <1>5 DEF LogTailerThreadProc

\* A step keeps what was mirrored of l in order, and older than what comes next.
LEMMA OrderStep ==
    ASSUME TypeOK, TypeOK', NEW l \in Logs, Reads(l), Reads(l)', InOrder(l),
           LogTailerThreadProc(l) \/ Elsewhere(l)
    PROVE  InOrder(l)'
<1>0. /\ mirrored[l] \in Seq(Blocks) /\ Len(mirrored[l]) \in Nat
      /\ DOMAIN mirrored[l] = 1..Len(mirrored[l])
      /\ \A i \in DOMAIN mirrored[l] : mirrored[l][i] \in Blocks
  <2>1. mirrored[l] \in Seq(Blocks)
    BY DEF TypeOK
  <2>. QED
    BY <2>1, LenProperties, ElementOfSeq
<1>1. \A i \in DOMAIN mirrored[l] : Before(mirrored[l][i], Due(l)')
  <2>. SUFFICES ASSUME NEW i \in DOMAIN mirrored[l]
                PROVE  Before(mirrored[l][i], Due(l)')
    OBVIOUS
  <2>1. mirrored[l][i] \in Blocks /\ Before(mirrored[l][i], Due(l)) /\ mirrored[l] # <<>>
    BY <1>0 DEF InOrder
  <2>2. \/ at[l] < at'[l]
        \/ at[l] = at'[l] /\ offset[l] - held[l] + 1 <= offset'[l] - held'[l] + 1
    BY <2>1, DueStep
  <2>3. /\ at[l] \in Nat /\ offset[l] - held[l] + 1 \in Nat
        /\ at'[l] \in Nat /\ offset'[l] - held'[l] + 1 \in Nat
    <3>1. /\ at[l] \in Nat /\ offset[l] \in Nat /\ held[l] \in Nat /\ held[l] <= offset[l]
          /\ at'[l] \in Nat /\ offset'[l] \in Nat /\ held'[l] \in Nat /\ held'[l] <= offset'[l]
      BY BoundTypes DEF TypeOK, Reads
    <3>. QED
      BY <3>1
  <2>. QED
    BY <2>1, <2>2, <2>3, BeforeLater DEF Due
<1>2. CASE ~WriteChunk(l)
  <2>1. mirrored'[l] = mirrored[l]
    BY <1>2 DEF LogTailerThreadProc, CheckOpens, CheckEnds, ReadBlocks, LogUtf8Chunk, Elsewhere,
       Unmoved
  <2>. QED
    BY <1>1, <2>1 DEF InOrder
<1>3. CASE WriteChunk(l)
  <2>1. /\ tailer[l] = "write" /\ mirrored'[l] = mirrored[l] \o Held(l)
        /\ at'[l] = at[l] /\ offset'[l] = offset[l] /\ held'[l] = 0
    BY <1>3 DEF WriteChunk, TypeOK
  <2>2. /\ Held(l) \in Seq(Blocks) /\ Len(Held(l)) = held[l]
        /\ \A i \in 1..held[l] : Held(l)[i] = <<at[l], offset[l] - held[l] + i>>
    BY <2>1, HeldType
  <2>3. /\ at[l] \in Nat /\ offset[l] \in Nat /\ held[l] \in Nat /\ held[l] <= offset[l]
    BY BoundTypes DEF TypeOK, Reads
  <2>. DEFINE n == Len(mirrored[l])
  <2>4. /\ DOMAIN mirrored'[l] = 1..(n + held[l])
        /\ \A i \in 1..n : mirrored'[l][i] = mirrored[l][i]
        /\ \A i \in (n + 1)..(n + held[l]) :
               mirrored'[l][i] = <<at[l], offset[l] - held[l] + (i - n)>>
    <3>1. /\ mirrored'[l] \in Seq(Blocks) /\ Len(mirrored'[l]) = n + held[l]
          /\ \A i \in 1..(n + held[l]) :
                 mirrored'[l][i] = IF i <= n THEN mirrored[l][i] ELSE Held(l)[i - n]
      <4>. DEFINE s == mirrored[l] \o Held(l)
      <4>1. /\ s \in Seq(Blocks) /\ Len(s) = n + Len(Held(l))
            /\ \A i \in 1..(n + Len(Held(l))) :
                   s[i] = IF i <= n THEN mirrored[l][i] ELSE Held(l)[i - n]
        BY <1>0, <2>2, ConcatProperties
      <4>. HIDE DEF s, n
      <4>2. mirrored'[l] = s
        BY <2>1 DEF s
      <4>. QED
        BY <2>2, <4>1, <4>2
    <3>2. DOMAIN mirrored'[l] = 1..(n + held[l])
      BY <3>1, LenProperties
    <3>3. \A i \in 1..n : mirrored'[l][i] = mirrored[l][i]
      BY <1>0, <2>3, <3>1
    <3>4. ASSUME NEW i \in (n + 1)..(n + held[l])
          PROVE  mirrored'[l][i] = <<at[l], offset[l] - held[l] + (i - n)>>
      <4>1. i \in 1..(n + held[l]) /\ ~(i <= n) /\ i - n \in 1..held[l]
        BY <1>0, <2>3
      <4>. QED
        BY <2>2, <3>1, <4>1
    <3>. QED
      BY <3>2, <3>3, <3>4
  <2>. HIDE DEF n
  <2>5. n \in Nat /\ DOMAIN mirrored[l] = 1..n
    BY <1>0 DEF n
  <2>6. Due(l)' = <<at[l], offset[l] + 1>>
    BY <2>1, <2>3 DEF Due
  <2>7. ASSUME NEW i \in 1..(n + held[l])
        PROVE  Before(mirrored'[l][i], Due(l)')
    <3>1. CASE i <= n
      <4>1. i \in 1..n
        BY <2>3, <2>5, <3>1
      <4>. QED
        BY <1>1, <2>4, <2>5, <4>1
    <3>2. CASE i > n
      <4>1. mirrored'[l][i] = <<at[l], offset[l] - held[l] + (i - n)>>
        BY <2>3, <2>4, <2>5, <3>2
      <4>2. offset[l] - held[l] + (i - n) < offset[l] + 1
        BY <2>3, <2>5
      <4>. QED
        BY <2>6, <4>1, <4>2 DEF Before
    <3>. QED
      BY <2>3, <2>5, <3>1, <3>2
  <2>8. ASSUME NEW i \in 1..(n + held[l]), NEW j \in 1..(n + held[l]), i < j
        PROVE  Before(mirrored'[l][i], mirrored'[l][j])
    <3>1. CASE j <= n
      <4>1. i \in 1..n /\ j \in 1..n
        BY <2>3, <2>5, <2>8, <3>1
      <4>. QED
        BY <2>4, <2>5, <2>8, <4>1 DEF InOrder
    <3>2. CASE j > n /\ i <= n
      <4>1. i \in 1..n /\ j \in (n + 1)..(n + held[l])
        BY <2>3, <2>5, <3>2
      <4>2. mirrored[l][i] \in Blocks /\ Before(mirrored[l][i], Due(l))
        BY <1>0, <2>5, <4>1 DEF InOrder
      <4>3. /\ offset[l] - held[l] + 1 \in Nat /\ offset[l] - held[l] + (j - n) \in Nat
            /\ offset[l] - held[l] + 1 <= offset[l] - held[l] + (j - n)
        BY <2>3, <2>5, <4>1
      <4>4. Before(mirrored[l][i], <<at[l], offset[l] - held[l] + (j - n)>>)
        BY <2>3, <4>2, <4>3, BeforeLater DEF Due
      <4>. QED
        BY <2>4, <4>1, <4>4
    <3>3. CASE i > n
      <4>1. i \in (n + 1)..(n + held[l]) /\ j \in (n + 1)..(n + held[l])
        BY <2>3, <2>5, <2>8, <3>3
      <4>2. offset[l] - held[l] + (i - n) < offset[l] - held[l] + (j - n)
        BY <2>3, <2>5, <2>8
      <4>. QED
        BY <2>4, <4>1, <4>2 DEF Before
    <3>. QED
      BY <2>3, <2>5, <3>1, <3>2, <3>3
  <2>. QED
    BY <2>4, <2>7, <2>8 DEF InOrder
<1>. QED
  BY <1>2, <1>3

\* Lines reach mc_launch.log in their order and once (App.cpp 595-646).
THEOREM OrderCorrect == Spec => []MirroredInOrder
<1>1. Init => MirroredInOrder
  BY DEF Init, MirroredInOrder
<1>2. /\ TypeOK /\ ReadInv /\ PastInv /\ MirroredInOrder /\ [Next]_vars
      /\ TypeOK' /\ ReadInv'
      => (PastInv /\ MirroredInOrder)'
  <2>. SUFFICES ASSUME TypeOK, ReadInv, PastInv, MirroredInOrder, [Next]_vars, TypeOK', ReadInv',
                       NEW l \in Logs
                PROVE  InOrder(l)'
    BY DEF InOrder, PastInv, MirroredInOrder
  <2>1. InOrder(l)
    BY DEF InOrder, PastInv, MirroredInOrder
  <2>. QED
    BY <2>1, StepCases, OrderStep DEF ReadInv
<1>. QED
  BY <1>1, <1>2, InitType, ReadCorrect, PTL DEF Spec

-----------------------------------------------------------------------------
(* Nothing is skipped.                                                     *)

\* The blocks of l that are in mc_launch.log or were dropped, and those on their way.
Passed(l) == {mirrored[l][i] : i \in DOMAIN mirrored[l]} \cup dropped[l]
Holding(l) == {Held(l)[i] : i \in 1..held[l]}

NoneSkipped(l) ==
    Len(files[l]) = 1 => {<<1, i>> : i \in 1..offset[l]} = Passed(l) \cup Holding(l)

\* A thread that has no file open has nothing.
LEMMA NothingYet ==
    ASSUME TypeOK, NEW l \in Logs, Reads(l), at[l] = 0
    PROVE  offset[l] = 0 /\ Passed(l) = {} /\ Holding(l) = {}
<1>1. /\ offset[l] = 0 /\ held[l] \in Nat /\ held[l] <= 0 /\ mirrored[l] = <<>> /\ dropped[l] = {}
  BY BoundTypes DEF TypeOK, Reads
<1>2. 1..held[l] = {}
  BY <1>1
<1>3. DOMAIN mirrored[l] = {}
  BY <1>1
<1>. QED
  BY <1>1, <1>2, <1>3 DEF Passed, Holding

\* Nothing changes for l where its thread does not move.
LEMMA UnmovedSkips ==
    ASSUME NEW l \in Logs, Unmoved(l)
    PROVE  Passed(l)' = Passed(l) /\ Holding(l)' = Holding(l) /\ offset'[l] = offset[l]
BY DEF Unmoved, Passed, Holding, Held

\* What WriteLog has written is what was held.
LEMMA ConcatSet ==
    ASSUME TypeOK, NEW l \in Logs, Reads(l), tailer[l] = "write",
           mirrored'[l] = mirrored[l] \o Held(l)
    PROVE  {mirrored'[l][i] : i \in DOMAIN mirrored'[l]}
               = {mirrored[l][i] : i \in DOMAIN mirrored[l]} \cup Holding(l)
<1>. DEFINE s == mirrored[l]
            t == Held(l)
            st == s \o t
<1>1. s \in Seq(Blocks) /\ t \in Seq(Blocks) /\ Len(t) = held[l]
  BY HeldType DEF TypeOK
<1>. HIDE DEF s, t
<1>2. /\ Len(s) \in Nat /\ Len(t) \in Nat
      /\ DOMAIN s = 1..Len(s) /\ DOMAIN st = 1..(Len(s) + Len(t))
      /\ \A i \in 1..(Len(s) + Len(t)) : st[i] = IF i <= Len(s) THEN s[i] ELSE t[i - Len(s)]
  BY <1>1, ConcatProperties, LenProperties
<1>. HIDE DEF st
<1>3. ASSUME NEW i \in 1..(Len(s) + Len(t))
      PROVE  st[i] \in {s[j] : j \in 1..Len(s)} \cup {t[j] : j \in 1..Len(t)}
  <2>1. CASE i <= Len(s)
    <3>1. i \in 1..Len(s) /\ st[i] = s[i]
      BY <1>2, <2>1
    <3>. QED
      BY <3>1
  <2>2. CASE ~(i <= Len(s))
    <3>1. i - Len(s) \in 1..Len(t) /\ st[i] = t[i - Len(s)]
      BY <1>2, <2>2
    <3>. QED
      BY <3>1
  <2>. QED
    BY <2>1, <2>2
<1>4. ASSUME NEW j \in 1..Len(s)
      PROVE  s[j] \in {st[i] : i \in 1..(Len(s) + Len(t))}
  <2>1. j \in 1..(Len(s) + Len(t)) /\ st[j] = s[j]
    BY <1>2
  <2>. QED
    BY <2>1
<1>5. ASSUME NEW j \in 1..Len(t)
      PROVE  t[j] \in {st[i] : i \in 1..(Len(s) + Len(t))}
  <2>1. /\ Len(s) + j \in 1..(Len(s) + Len(t)) /\ ~(Len(s) + j <= Len(s))
        /\ (Len(s) + j) - Len(s) = j
    BY <1>2
  <2>2. st[Len(s) + j] = t[j]
    BY <1>2, <2>1
  <2>. QED
    BY <2>1, <2>2
<1>6. {st[i] : i \in DOMAIN st} = {s[j] : j \in DOMAIN s} \cup {t[j] : j \in 1..Len(t)}
  BY <1>2, <1>3, <1>4, <1>5
<1>. QED
  BY <1>1, <1>6 DEF s, t, st, Holding

\* A step of the thread of l, or elsewhere, passes over nothing.
LEMMA SkipStep ==
    ASSUME TypeOK, TypeOK', NEW l \in Logs, Reads(l), Reads(l)', NoneSkipped(l),
           LogTailerThreadProc(l) \/ Elsewhere(l)
    PROVE  NoneSkipped(l)'
<1>. SUFFICES ASSUME Len(files'[l]) = 1
              PROVE  {<<1, i>> : i \in 1..offset'[l]} = Passed(l)' \cup Holding(l)'
  BY DEF NoneSkipped
<1>. USE DEF Stay
<1>0. /\ at[l] \in Nat /\ offset[l] \in Nat /\ held[l] \in Nat /\ held[l] <= offset[l]
      /\ Len(files[l]) \in Nat /\ at[l] <= Len(files[l])
  BY BoundTypes, FileType DEF TypeOK, Reads
<1>1. CASE Elsewhere(l)
  <2>1. Passed(l)' = Passed(l) /\ Holding(l)' = Holding(l) /\ offset'[l] = offset[l]
    BY <1>1, UnmovedSkips DEF Elsewhere
  <2>2. CASE at[l] = 0
    <3>1. offset[l] = 0 /\ Passed(l) = {} /\ Holding(l) = {}
      BY <2>2, NothingYet
    <3>. QED
      BY <2>1, <3>1
  <2>3. CASE at[l] # 0
    <3>1. Len(files[l]) <= 1
      BY <1>1, <2>3 DEF Elsewhere, Grows
    <3>2. Len(files[l]) = 1
      <4>. DEFINE n == Len(files[l])
                  m == at[l]
      <4>1. m \in Nat /\ n \in Nat /\ m <= n /\ n <= 1 /\ m # 0
        BY <1>0, <2>3, <3>1
      <4>. HIDE DEF m, n
      <4>2. n = 1
        BY <4>1
      <4>. QED
        BY <4>2 DEF n
    <3>. QED
      BY <2>1, <3>2 DEF NoneSkipped
  <2>. QED
    BY <2>2, <2>3
<1>2. CASE LogTailerThreadProc(l)
  <2>1. UNCHANGED files
    BY <1>2 DEF LogTailerThreadProc, CheckOpens, CheckEnds, ReadBlocks, LogUtf8Chunk, WriteChunk
  <2>2. {<<1, i>> : i \in 1..offset[l]} = Passed(l) \cup Holding(l)
    BY <2>1 DEF NoneSkipped
  <2>3. CASE CheckOpens(l)
    <3>1. offset'[l] = IF offset[l] > files[l][1] THEN 0 ELSE offset[l]
      BY <2>1, <2>3 DEF CheckOpens, TypeOK
    <3>2. offset'[l] = offset[l]
      <4>1. Len(files[l]) = 1 /\ 1 \in 1..Len(files[l]) /\ files[l][1] \in Nat
        <5>1. Len(files[l]) = 1
          BY <2>1
        <5>2. 1 \in 1..Len(files[l])
          BY <5>1
        <5>. QED
          BY <5>1, <5>2, FileType
      <4>2. at[l] = 0 \/ at[l] = 1
        BY <1>0, <4>1
      <4>3. ~(offset[l] > files[l][1])
        BY <1>0, <4>1, <4>2 DEF Reads
      <4>. QED
        BY <3>1, <4>3
    <3>3. held'[l] = 0 /\ held[l] = 0 /\ mirrored'[l] = mirrored[l] /\ dropped'[l] = dropped[l]
      BY <2>3 DEF CheckOpens, Reads
    <3>4. Holding(l)' = {} /\ Holding(l) = {} /\ Passed(l)' = Passed(l)
      BY <3>3 DEF Holding, Passed
    <3>. QED
      BY <2>2, <3>2, <3>4
  <2>4. CASE CheckEnds(l)
    BY <2>2, <2>4, UnmovedSkips DEF CheckEnds, Unmoved
  <2>5. CASE ReadBlocks(l)
    <3>1. tailer[l] = "read" /\ at'[l] = at[l] /\ Passed(l)' = Passed(l)
      BY <2>5 DEF ReadBlocks, Passed
    <3>2. at[l] = 1 /\ held[l] = 0 /\ Least(Buffer, Unread(l)) \in Nat
      BY <1>0, <2>1, <3>1, ReadTakes
    <3>3. CASE held'[l] = held[l] /\ offset'[l] = offset[l]
      BY <2>2, <3>1, <3>3 DEF Holding, Held
    <3>4. CASE /\ held'[l] = Least(Buffer, Unread(l))
               /\ offset'[l] = offset[l] + Least(Buffer, Unread(l))
      <4>. DEFINE n == Least(Buffer, Unread(l))
      <4>1. n \in Nat /\ held'[l] = n /\ offset'[l] = offset[l] + n
        BY <3>2, <3>4
      <4>. HIDE DEF n
      <4>2. Holding(l) = {}
        BY <3>2 DEF Holding
      <4>3. Holding(l)' = {<<1, offset[l] + i>> : i \in 1..n}
        <5>1. Holding(l)' = {<<1, offset'[l] - n + i>> : i \in 1..n}
          BY <3>1, <3>2, <4>1 DEF Holding, Held
        <5>2. offset'[l] - n = offset[l]
          BY <1>0, <4>1
        <5>. QED
          BY <5>1, <5>2
      <4>4. {<<1, i>> : i \in 1..(offset[l] + n)}
                = {<<1, i>> : i \in 1..offset[l]} \cup {<<1, offset[l] + i>> : i \in 1..n}
        <5>1. ASSUME NEW i \in 1..(offset[l] + n), ~(i <= offset[l])
              PROVE  <<1, i>> \in {<<1, offset[l] + j>> : j \in 1..n}
          <6>1. i - offset[l] \in 1..n /\ i = offset[l] + (i - offset[l])
            BY <1>0, <4>1, <5>1
          <6>. QED
            BY <6>1
        <5>2. \A i \in 1..n : offset[l] + i \in 1..(offset[l] + n)
          BY <1>0, <4>1
        <5>3. \A i \in 1..offset[l] : i \in 1..(offset[l] + n)
          BY <1>0, <4>1
        <5>4. \A i \in 1..(offset[l] + n) : i <= offset[l] => i \in 1..offset[l]
          BY <1>0, <4>1
        <5>. QED
          BY <5>1, <5>2, <5>3, <5>4
      <4>. QED
        BY <2>2, <3>1, <4>1, <4>2, <4>3, <4>4
    <3>. QED
      BY <2>5, <3>3, <3>4 DEF ReadBlocks, TypeOK
  <2>6. CASE LogUtf8Chunk(l)
    <3>1. offset'[l] = offset[l] /\ at'[l] = at[l] /\ mirrored'[l] = mirrored[l]
      BY <2>6 DEF LogUtf8Chunk
    <3>2. CASE held'[l] = held[l] /\ dropped'[l] = dropped[l]
      BY <2>2, <3>1, <3>2, UnmovedSkips DEF Unmoved
    <3>3. CASE held'[l] = 0 /\ dropped'[l] = dropped[l] \cup {Held(l)[i] : i \in 1..held[l]}
      <4>1. Holding(l)' = {} /\ Passed(l)' = Passed(l) \cup Holding(l)
        BY <3>1, <3>3 DEF Holding, Passed
      <4>. QED
        BY <2>2, <3>1, <4>1
    <3>. QED
      BY <2>6, <3>2, <3>3 DEF LogUtf8Chunk, TypeOK
  <2>7. CASE WriteChunk(l)
    <3>1. /\ tailer[l] = "write" /\ offset'[l] = offset[l] /\ held'[l] = 0
          /\ dropped'[l] = dropped[l] /\ mirrored'[l] = mirrored[l] \o Held(l)
      BY <2>7 DEF WriteChunk, TypeOK
    <3>2. {mirrored'[l][i] : i \in DOMAIN mirrored'[l]}
              = {mirrored[l][i] : i \in DOMAIN mirrored[l]} \cup Holding(l)
      BY <3>1, ConcatSet
    <3>3. Holding(l)' = {}
      BY <3>1 DEF Holding
    <3>4. Passed(l)' = {mirrored'[l][i] : i \in DOMAIN mirrored'[l]} \cup dropped'[l]
      BY DEF Passed
    <3>5. Passed(l)' = Passed(l) \cup Holding(l)
      BY <3>1, <3>2, <3>4 DEF Passed
    <3>. QED
      BY <2>2, <3>1, <3>3, <3>5
  <2>. QED
    BY <1>2, <2>3, <2>4, <2>5, <2>6, <2>7 DEF LogTailerThreadProc
<1>. QED
  BY <1>1, <1>2

\* As long as a log is not rolled, what its thread has read was copied, was dropped
\* because mc_launch.log was busy, or is in its hands (App.cpp 388-408, 595-646).
THEOREM SkippedCorrect == Spec => []NothingSkipped
<1>1. Init => NothingSkipped
  BY DEF Init, NothingSkipped, Held
<1>2. /\ TypeOK /\ ReadInv /\ NothingSkipped /\ [Next]_vars /\ TypeOK' /\ ReadInv'
      => NothingSkipped'
  <2>. SUFFICES ASSUME TypeOK, ReadInv, NothingSkipped, [Next]_vars, TypeOK', ReadInv',
                       NEW l \in Logs
                PROVE  NoneSkipped(l)'
    BY DEF NoneSkipped, Passed, Holding, NothingSkipped
  <2>1. NoneSkipped(l)
    BY DEF NoneSkipped, Passed, Holding, NothingSkipped
  <2>. QED
    BY <2>1, StepCases, SkipStep DEF ReadInv
<1>. QED
  BY <1>1, <1>2, ReadCorrect, PTL DEF Spec
===============================================================================
