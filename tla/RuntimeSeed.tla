----------------------------- MODULE RuntimeSeed ----------------------------
(***************************************************************************)
(* Preparing LocalState: App::Run asks IsLocalRuntimeSeedCurrent and, when *)
(* it says no, SeedLocalRuntime copies the packaged trees one by one,      *)
(* rewrites the Java security properties, and writes the marker last.  The *)
(* process can be killed between any two files; while it is not running    *)
(* the package can be replaced and LocalState can lose files.              *)
(*                                                                         *)
(* A file is abstracted to the revision of its contents, to the size and   *)
(* the last-write time that every revision has in the packages, and to     *)
(* whether the copy is whole.  Builds are numbered in the order in which   *)
(* they are installed; the time of a file may go back from one to the next. *)
(***************************************************************************)
EXTENDS Integers, Sequences

CONSTANTS
    Versions,     \* builds of the package, in the order they are installed
    Files,        \* the files of the packages
    Dir,          \* Dir[f]: the tree that f is in; "package" if it is not copied
    Pkg,          \* Pkg[v][f]: revision of f in version v, 0 if v lacks it
    Size(_, _),   \* Size(f, r): size of revision r of f
    Time(_, _),   \* Time(f, r): last-write time of revision r of f in a package
    Stamped,      \* the files whose FileStamp goes into RuntimeSeedStamp
    Exe,          \* MC.Xbox.exe
    Jvm, PatchJar, OpenGl, Security,   \* files looked for by name
    Rewritten,    \* java.security and xbox.properties of jre\conf\security
    Props,        \* xbox_security.properties, what they are rewritten from
    Now,          \* last-write time of a file written by the app itself
    CopyFaults,   \* TRUE if CopyFileW or a write may fail
    TornCopies,   \* TRUE if a killed CopyFileW may leave a full-size, fresh file
    Losses        \* TRUE if LocalState may lose one tree and keep the marker

Trees == {"game", "assets", "jre", "natives", "graphics", "root"}

\* The order of SeedLocalRuntime; "root" is the two loose files.
Order == <<"game", "assets", "jre", "security", "natives", "graphics", "root", "marker">>

ASSUME VersionsAssumption ==
    Versions \subseteq Nat \ {0} /\ Pkg \in [Versions -> [Files -> Nat]]
ASSUME SizeAssumption ==
    \A v \in Versions, f \in Files : {Size(f, Pkg[v][f]), Time(f, Pkg[v][f])} \subseteq Nat
ASSUME FilesAssumption ==
    /\ Dir \in [Files -> Trees \cup {"package"}]
    /\ Stamped \subseteq Files /\ Rewritten \subseteq Files
    /\ {Jvm, PatchJar, OpenGl, Security, Props} \subseteq Files
    /\ Security \in Rewritten /\ \A f \in Rewritten : Dir[f] = "jre"
    /\ Dir[Jvm] = "jre" /\ Dir[PatchJar] = "root" /\ Dir[Props] = "root"
    /\ Now \in Nat \ {0}
ASSUME FaultsAssumption == {CopyFaults, TornCopies, Losses} \subseteq BOOLEAN

\* FileStamp: time and size, or "missing".
FileStamp(f, r) == IF r = 0 THEN <<0, 0>> ELSE <<Time(f, r), Size(f, r)>>

\* All that is asked of the packages: build.ps1 compiles MC.Xbox.exe every time (267),
\* and puts xbox_security.properties into the package and in the place of
\* java.security and xbox.properties (430).  A package may lack any other file, whole
\* trees, and the patch jar, which build.ps1 no longer makes (460).
ASSUME BuildAssumption ==
    /\ Exe \in Stamped
    /\ \A v, w \in Versions : v # w => FileStamp(Exe, Pkg[v][Exe]) # FileStamp(Exe, Pkg[w][Exe])
    /\ \A v \in Versions : Pkg[v][Props] > 0 /\ \A f \in Rewritten : Pkg[v][f] = Pkg[v][Props]

VARIABLES
    pkg,        \* durable: the installed version
    local,      \* durable: local[f], the copy of f in LocalState
    trees,      \* durable: the trees that exist in LocalState
    marker,     \* durable: text of .runtime_seed
    pc,         \* "off", "check", "seed", "run"
    at,         \* while seeding, the index in Order of the tree being copied
    todo,       \* files of that tree still to be visited
    seeded,     \* history: the version whose seeding last ended, 0 if something
                \* failed in it, or files were lost since
    failed      \* history: a copy or a write of this seeding failed

vars == <<pkg, local, trees, marker, pc, at, todo, seeded, failed>>

-----------------------------------------------------------------------------
Absent == [rev |-> 0, mtime |-> 0, size |-> 0, whole |-> FALSE]
\* A marker that cannot be read, or holds no stamp.
NoText == [f \in Stamped |-> <<-1, -1>>]
Packaged(v) == {f \in Files : Pkg[v][f] > 0 /\ Dir[f] \in Trees}
InTree(t) == {f \in Packaged(pkg) : Dir[f] = t}

\* Mutant: the stamp leaves the executable out.
RuntimeSeedStampShort(v) == [f \in Stamped \ {Exe} |-> FileStamp(f, Pkg[v][f])]

RuntimeSeedStamp(v) == [f \in Stamped |-> FileStamp(f, Pkg[v][f])]

\* Revision r of f serves for s: it is s, or neither by size nor by time can it be told
\* from s (never so for the security files, which are written anew).
ServesFor(f, r, s) ==
    \/ r = s
    \/ f \notin Rewritten /\ Size(f, r) = Size(f, s) /\ Time(f, s) <= Time(f, r)

\* Every packaged file is in LocalState, whole, in its packaged revision or one that
\* serves for it.
Whole(v) ==
    \A f \in Packaged(v) : local[f].whole /\ ServesFor(f, local[f].rev, Pkg[v][f])

TypeOK ==
    /\ pkg \in Versions
    /\ local \in [Files -> [rev : Nat, mtime : Nat, size : Int, whole : BOOLEAN]]
    /\ trees \subseteq Trees
    /\ marker \in [Stamped -> Int \X Int]
    /\ pc \in {"off", "check", "seed", "run"}
    /\ at \in 0..Len(Order) /\ (pc = "seed" <=> at > 0)
    /\ todo \subseteq Files
    /\ seeded \in Versions \cup {0}
    /\ failed \in BOOLEAN

Init ==
    /\ pkg \in Versions
    /\ local = [f \in Files |-> Absent] /\ trees = {} /\ marker = NoText
    /\ pc = "off" /\ at = 0 /\ todo = {} /\ seeded = 0 /\ failed = FALSE

-----------------------------------------------------------------------------
(* Launch: is the copy current?                                            *)

StartApp ==
    /\ pc = "off"
    /\ pc' = "check"
    /\ UNCHANGED <<pkg, local, trees, marker, at, todo, seeded, failed>>

\* graphics may be the tree of its own or natives\opengl32.dll.
IsLocalRuntimeSeedCurrent ==
    /\ marker = RuntimeSeedStamp(pkg)
    /\ {"game", "assets", "natives"} \subseteq trees
    /\ "graphics" \in trees \/ local[OpenGl] # Absent
    /\ \A f \in {Jvm, Security, PatchJar} : local[f] # Absent

SkipCopy ==
    /\ pc = "check"
    /\ IsLocalRuntimeSeedCurrent
    /\ pc' = "run"
    /\ UNCHANGED <<pkg, local, trees, marker, at, todo, seeded, failed>>

\* CopyDirectoryContentsIfNeeded creates a tree before it copies into it.
Enter(step) ==
    /\ at' = step
    /\ todo' = InTree(Order[step])
    /\ trees' = trees \cup (IF InTree(Order[step]) # {} THEN {Order[step]} ELSE {})

\* Mutant: the marker is written when the seeding begins.
BeginSeedMarks ==
    /\ pc = "check"
    /\ ~IsLocalRuntimeSeedCurrent
    /\ Enter(1)
    /\ marker' = RuntimeSeedStamp(pkg)
    /\ pc' = "seed" /\ failed' = FALSE
    /\ UNCHANGED <<pkg, local, seeded>>

BeginSeed ==
    /\ pc = "check"
    /\ ~IsLocalRuntimeSeedCurrent
    /\ Enter(1)
    /\ pc' = "seed" /\ failed' = FALSE
    /\ UNCHANGED <<pkg, local, marker, seeded>>

-----------------------------------------------------------------------------
(* SeedLocalRuntime.                                                       *)

\* Mutants: one of the two tests of CopyFileIfNeeded is forgotten, or is strict.
UpToDateBySize(f) == local[f] # Absent /\ local[f].size = Size(f, Pkg[pkg][f])
UpToDateByTime(f) == local[f] # Absent /\ Time(f, Pkg[pkg][f]) <= local[f].mtime
UpToDateStrict(f) == UpToDateBySize(f) /\ Time(f, Pkg[pkg][f]) < local[f].mtime

\* Same size and not older than the package: nothing to copy.
UpToDate(f) ==
    /\ local[f] # Absent
    /\ local[f].size = Size(f, Pkg[pkg][f])
    /\ Time(f, Pkg[pkg][f]) <= local[f].mtime

\* CopyFileW keeps the last-write time of its source.
Copied(f) ==
    LET r == Pkg[pkg][f]
    IN [rev |-> r, mtime |-> Time(f, r), size |-> Size(f, r), whole |-> TRUE]

\* WriteTextFile: the text of src, under the time of writing.
WrittenFrom(src, f) ==
    [rev |-> Pkg[pkg][src], mtime |-> Now, size |-> Size(src, Pkg[pkg][src]), whole |-> TRUE]

\* Mutant: the walk stays at a file that needs no copy.
CopyFileIfNeededStays(f) ==
    /\ pc = "seed" /\ f \in todo /\ ~UpToDate(f)
    /\ local' = [local EXCEPT ![f] = Copied(f)]
    /\ todo' = todo \ {f}
    /\ UNCHANGED <<pkg, trees, marker, pc, at, seeded, failed>>

\* The result of CopyFileW is not looked at.
CopyFileIfNeeded(f) ==
    /\ pc = "seed" /\ f \in todo
    /\ \/ UpToDate(f) /\ UNCHANGED <<local, failed>>
       \/ ~UpToDate(f) /\ local' = [local EXCEPT ![f] = Copied(f)] /\ UNCHANGED failed
       \/ ~UpToDate(f) /\ CopyFaults /\ failed' = TRUE /\ UNCHANGED local
    /\ todo' = todo \ {f}
    /\ UNCHANGED <<pkg, trees, marker, pc, at, seeded>>

NextTree ==
    /\ pc = "seed" /\ todo = {}
    /\ Order[at] \in Trees
    /\ Enter(at + 1)
    /\ UNCHANGED <<pkg, local, marker, pc, seeded, failed>>

\* Both files are truncated and written again; a failure is logged, no more.
RewriteSecurity ==
    /\ pc = "seed" /\ Order[at] = "security"
    /\ \E written \in {Rewritten} \cup (IF CopyFaults THEN SUBSET Rewritten ELSE {}) :
         /\ local' = [f \in Files |->
             IF f \in written THEN WrittenFrom(Props, f) ELSE local[f]]
         /\ failed' = (failed \/ written # Rewritten)
    /\ Enter(at + 1)
    /\ UNCHANGED <<pkg, marker, pc, seeded>>

MarkLocalRuntimeSeedCurrent ==
    /\ pc = "seed" /\ Order[at] = "marker"
    /\ marker' \in {RuntimeSeedStamp(pkg)} \cup (IF CopyFaults THEN {marker, NoText} ELSE {})
    /\ seeded' = IF failed THEN 0 ELSE pkg
    /\ pc' = "run" /\ at' = 0
    /\ UNCHANGED <<pkg, local, trees, todo, failed>>
-----------------------------------------------------------------------------
(* Death of the process, in a call or between two.                         *)

EndProcess == pc' = "off" /\ at' = 0 /\ todo' = {} /\ failed' = FALSE

Kill ==
    /\ pc # "off"
    /\ EndProcess
    /\ UNCHANGED <<pkg, local, trees, marker, seeded>>

\* A cut-off copy is short, or already has the size of its source; its time is
\* that of the writing.
KillInCopy(f) ==
    /\ pc = "seed" /\ f \in todo /\ ~UpToDate(f)
    /\ \E size \in {-1} \cup (IF TornCopies THEN {Size(f, Pkg[pkg][f])} ELSE {}) :
         local' = [local EXCEPT ![f] =
             [rev |-> Pkg[pkg][f], mtime |-> Now, size |-> size, whole |-> FALSE]]
    /\ EndProcess
    /\ UNCHANGED <<pkg, trees, marker, seeded>>

\* WriteTextFile opens with "wb": until it is done the file is cut off.
KillInWrite(f) ==
    /\ pc = "seed" /\ Order[at] = "security"
    /\ local' = [local EXCEPT ![f] = [rev |-> 0, mtime |-> Now, size |-> -1, whole |-> FALSE]]
    /\ EndProcess
    /\ UNCHANGED <<pkg, trees, marker, seeded>>

KillInMark ==
    /\ pc = "seed" /\ Order[at] = "marker"
    /\ marker' = NoText
    /\ EndProcess
    /\ UNCHANGED <<pkg, local, trees, seeded>>

-----------------------------------------------------------------------------
(* While the app is not running.                                           *)

Install(v) ==
    /\ pc = "off"
    /\ v > pkg
    /\ pkg' = v
    /\ UNCHANGED <<local, trees, marker, pc, at, todo, seeded, failed>>

\* The app's storage is emptied.
ResetStorage ==
    /\ pc = "off"
    /\ local' = [f \in Files |-> Absent] /\ trees' = {} /\ marker' = NoText /\ seeded' = 0
    /\ UNCHANGED <<pkg, pc, at, todo, failed>>

LoseTree(t) ==
    /\ Losses /\ pc = "off" /\ t \in trees
    /\ local' = [f \in Files |-> IF Dir[f] = t THEN Absent ELSE local[f]]
    /\ trees' = trees \ {t} /\ seeded' = 0
    /\ UNCHANGED <<pkg, marker, pc, at, todo, failed>>

-----------------------------------------------------------------------------
\* What the app does by itself once it is started.
Prepare ==
    \/ SkipCopy \/ BeginSeed \/ NextTree \/ RewriteSecurity \/ MarkLocalRuntimeSeedCurrent
    \/ \E f \in Files : CopyFileIfNeeded(f)

Killed == Kill \/ KillInMark \/ \E f \in Files : KillInCopy(f) \/ (f \in Rewritten /\ KillInWrite(f))

Next ==
    \/ StartApp \/ Prepare \/ Killed \/ ResetStorage
    \/ \E v \in Versions : Install(v)
    \/ \E t \in Trees : LoseTree(t)

Spec == Init /\ [][Next]_vars

\* The thread that runs Run is scheduled and a file operation ends.
FairSpec == Spec /\ WF_vars(Prepare)

-----------------------------------------------------------------------------
(* Properties.                                                             *)

\* Minecraft runs on a LocalState that holds every packaged file of the installed
\* version, each whole and none of an older revision that size and time could tell from
\* it, however often earlier seedings were cut off, the package was updated in between,
\* or storage was emptied (App.cpp 262-386, 3028-3051).
RunsWhole == pc = "run" => Whole(pkg)

\* Whenever IsLocalRuntimeSeedCurrent would say yes, every packaged file is in place: also
\* while a seeding is under way, so that a process that is killed anywhere never leaves
\* a partial runtime that the next launch takes for a current one (App.cpp 262-285, 383).
CurrentIsWhole == IsLocalRuntimeSeedCurrent => Whole(pkg)

\* Once the installed version has been seeded and nothing was lost, no seeding copies a
\* file again, even where every launch begins one: only the security files are written
\* again, and only they can be cut off (App.cpp 295-310).
WarmLaunchCopiesNothing ==
    pc = "seed" /\ seeded = pkg => \A f \in todo \ Rewritten : UpToDate(f)

\* "The host skips the LocalState runtime copy on warm launches when the installed
\* package has not changed" (README.md:15): no seeding begins then.
WarmLaunchSkips == [][pc = "check" /\ seeded = pkg => pc' # "seed"]_vars

\* A seeding in which nothing failed repairs whatever earlier ones left: cut-off
\* and failed copies, lost trees, files of older builds (App.cpp 295-386).
CleanSeedRepairs == [][pc = "seed" /\ pc' = "run" /\ ~failed => Whole(pkg)]_vars

\* Preparing ends: the game starts or the process is gone.
PreparationEnds == pc = "check" ~> pc \in {"run", "off"}

-----------------------------------------------------------------------------
(* Inductive strengthenings of the invariants.                             *)

\* Without torn copies: a file that is not whole can be told by its size, and a copy
\* has the size and the time of its revision.
Dated(f) ==
    /\ local[f] = Absent \/ local[f].whole \/ local[f].size = -1
    /\ local[f].whole /\ f \notin Rewritten =>
           /\ local[f].mtime = Time(f, local[f].rev)
           /\ local[f].size = Size(f, local[f].rev)
DatedInv == \A f \in Files : Dated(f)

\* The steps of the seeding that are over, and the files that had the last of theirs.
Over(step) == \E i \in 1..(at - 1) : Order[i] = step
Settled(f) ==
    IF f \in Rewritten THEN Over("security")
    ELSE Over(Dir[f]) \/ (Order[at] = Dir[f] /\ f \notin todo)

\* f as a seeding leaves it: it is not copied again, or it has the text of the package.
Placed(f) ==
    IF f \in Rewritten THEN local[f].whole /\ local[f].rev = Pkg[pkg][f] ELSE UpToDate(f)

\* How far a seeding has come.
ProgressInv ==
    pc = "seed" =>
        /\ todo \subseteq Packaged(pkg)
        /\ \A f \in Packaged(pkg) : Over(Dir[f]) \/ Order[at] = Dir[f] => Dir[f] \in trees
        /\ ~failed => \A f \in Packaged(pkg) : Settled(f) => Placed(f)

\* Since the installed version was seeded, nothing went away, and all but the security
\* files stay as they are.
SeededInv ==
    /\ seeded <= pkg
    /\ seeded = pkg => \A f \in Packaged(pkg) :
           local[f] # Absent /\ Dir[f] \in trees /\ (f \notin Rewritten => UpToDate(f))

\* The security files are right.
Secured == \A f \in Rewritten : Placed(f)

\* Without copy faults and losses: the marker is right only after such a seeding; where
\* it is enough for IsLocalRuntimeSeedCurrent no seeding begins, so that the security
\* files are still as that seeding wrote them.
MarkerInv ==
    /\ ~failed
    /\ marker = NoText \/ \E v \in Versions : v <= pkg /\ marker = RuntimeSeedStamp(v)
    /\ marker = RuntimeSeedStamp(pkg) => seeded = pkg
    /\ IsLocalRuntimeSeedCurrent => Secured /\ pc # "seed"
    /\ pc = "run" => seeded = pkg /\ Secured
=============================================================================
