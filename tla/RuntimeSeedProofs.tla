-------------------------- MODULE RuntimeSeedProofs --------------------------
(***************************************************************************)
(* Proofs about RuntimeSeed, for any files, trees of them, sizes, times    *)
(* and builds, with or without the patch jar.  A copy that was cut off is  *)
(* told by its size (DatedInv), so that a file that is passed over serves  *)
(* for the packaged one, and what a seeding has left behind is in place    *)
(* (ProgressInv).  After a seeding that ended only the security files are  *)
(* ever written (SeededInv), and where they are, no marker lets the next   *)
(* launch skip (MarkerInv).                                                *)
(***************************************************************************)
EXTENDS RuntimeSeed, TLAPS

-----------------------------------------------------------------------------
(* The order of SeedLocalRuntime.                                          *)

\* The order of a seeding: the steps, the security file after its tree, the marker last.
LEMMA OrderFacts ==
    /\ Len(Order) = 8
    /\ Order[1] = "game" /\ Order[2] = "assets" /\ Order[3] = "jre" /\ Order[4] = "security"
    /\ Order[5] = "natives" /\ Order[6] = "graphics" /\ Order[7] = "root" /\ Order[8] = "marker"
BY DEF Order

\* Only the last step marks, and only the fourth rewrites.
LEMMA OrderSteps ==
    ASSUME NEW i \in 1..8
    PROVE  /\ Order[i] \in Trees \/ Order[i] = "security" => i < 8
           /\ Order[i] = "marker" => i = 8
BY OrderFacts DEF Trees

\* All trees, and the security properties, come before the marker.
LEMMA OrderCovers ==
    ASSUME NEW t \in Trees \cup {"security"}
    PROVE  \E i \in 1..7 : Order[i] = t
BY OrderFacts DEF Trees

-----------------------------------------------------------------------------
(* Types.                                                                  *)

Record == [rev : Nat, mtime : Nat, size : Int, whole : BOOLEAN]

\* What is packaged has a size, and whatever is written is a record of a file.
LEMMA RecordTypes ==
    ASSUME NEW v \in Versions, NEW f \in Files
    PROVE  /\ Pkg[v][f] \in Nat /\ Size(f, Pkg[v][f]) \in Nat /\ Time(f, Pkg[v][f]) \in Nat
           /\ Absent \in Record
BY VersionsAssumption, SizeAssumption DEF Absent, Record

\* What a copy leaves is a file.
LEMMA CopiedType ==
    ASSUME NEW f \in Files, TypeOK
    PROVE  Copied(f) \in Record
<1>1. Pkg[pkg][f] \in Nat /\ Size(f, Pkg[pkg][f]) \in Nat /\ Time(f, Pkg[pkg][f]) \in Nat
  BY RecordTypes DEF TypeOK
<1>. QED
  BY <1>1 DEF Copied, Record

\* A rewritten security file has the text that the package gives it.
LEMMA WrittenType ==
    ASSUME NEW f \in Rewritten, TypeOK
    PROVE  /\ WrittenFrom(Props, f) \in Record
           /\ WrittenFrom(Props, f).whole /\ WrittenFrom(Props, f).rev = Pkg[pkg][f]
<1>1. pkg \in Versions /\ Props \in Files /\ Now \in Nat
  BY FilesAssumption DEF TypeOK
<1>2. Pkg[pkg][f] = Pkg[pkg][Props]
  BY <1>1, BuildAssumption
<1>3. Pkg[pkg][Props] \in Nat /\ Size(Props, Pkg[pkg][Props]) \in Nat
  BY <1>1, RecordTypes
<1>. QED
  BY <1>1, <1>2, <1>3 DEF WrittenFrom, Record

\* What a kill in CopyFileW or WriteTextFile leaves.
LEMMA CutOffType ==
    ASSUME NEW rev \in Nat, NEW size \in Int
    PROVE  [rev |-> rev, mtime |-> Now, size |-> size, whole |-> FALSE] \in Record
BY FilesAssumption DEF Record

\* A stamp is a text for the marker.
LEMMA RuntimeSeedStampType ==
    ASSUME NEW v \in Versions
    PROVE  RuntimeSeedStamp(v) \in [Stamped -> Int \X Int] /\ NoText \in [Stamped -> Int \X Int]
<1>1. ASSUME NEW f \in Stamped
      PROVE  FileStamp(f, Pkg[v][f]) \in Int \X Int
  <2>1. f \in Files
    BY FilesAssumption
  <2>2. Size(f, Pkg[v][f]) \in Nat /\ Time(f, Pkg[v][f]) \in Nat
    BY <2>1, RecordTypes
  <2>. QED
    BY <2>2 DEF FileStamp
<1>. QED
  BY <1>1 DEF RuntimeSeedStamp, NoText

\* To begin a tree is to have its packaged files before one, and the tree itself.
LEMMA EnterType ==
    ASSUME NEW step \in 1..8, TypeOK, Enter(step)
    PROVE  at' \in 1..8 /\ todo' \subseteq Files /\ trees' \subseteq Trees
<1>1. InTree(Order[step]) \subseteq Files
  BY DEF InTree, Packaged
<1>2. InTree(Order[step]) # {} => Order[step] \in Trees
  BY DEF InTree, Packaged
<1>. QED
  BY <1>1, <1>2 DEF Enter, TypeOK

\* A process that is gone is nowhere in a seeding.
LEMMA EndProcessType ==
    ASSUME EndProcess
    PROVE  pc' = "off" /\ at' = 0 /\ todo' = {} /\ failed' \in BOOLEAN
BY DEF EndProcess

\* A fresh console is of its type.
LEMMA InitType == Init => TypeOK
<1>. SUFFICES ASSUME Init
              PROVE  TypeOK
  OBVIOUS
<1>1. local \in [Files -> Record] /\ marker \in [Stamped -> Int \X Int]
  BY RuntimeSeedStampType DEF Init, Absent, Record
<1>2. at = 0 /\ pc = "off" /\ failed \in BOOLEAN
  BY DEF Init
<1>3. pkg \in Versions /\ trees \subseteq Trees /\ todo \subseteq Files /\ seeded \in Versions \cup {0}
  BY DEF Init
<1>. QED
  BY <1>1, <1>2, <1>3, OrderFacts DEF TypeOK, Record

\* Every step keeps the types.
LEMMA TypeStep == TypeOK /\ [Next]_vars => TypeOK'
<1>. SUFFICES ASSUME TypeOK, [Next]_vars
              PROVE  TypeOK'
  OBVIOUS
<1>. USE OrderFacts
<1>0. /\ pkg \in Versions /\ local \in [Files -> Record] /\ marker \in [Stamped -> Int \X Int]
      /\ at \in 0..8 /\ (pc = "seed" => at \in 1..8)
  BY DEF TypeOK, Record
<1>1. CASE StartApp
  BY <1>1 DEF StartApp, TypeOK
<1>2. CASE SkipCopy
  BY <1>2 DEF SkipCopy, TypeOK
<1>3. CASE BeginSeed
  <2>1. at' \in 1..8 /\ todo' \subseteq Files /\ trees' \subseteq Trees
    BY <1>3, EnterType DEF BeginSeed
  <2>2. pc' = "seed" /\ failed' \in BOOLEAN /\ UNCHANGED <<pkg, local, marker, seeded>>
    BY <1>3 DEF BeginSeed
  <2>. QED
    BY <2>1, <2>2 DEF TypeOK
<1>4. CASE NextTree
  <2>1. at + 1 \in 1..8
    BY <1>0, <1>4, OrderSteps DEF NextTree
  <2>2. at' \in 1..8 /\ todo' \subseteq Files /\ trees' \subseteq Trees
    BY <1>4, <2>1, EnterType DEF NextTree
  <2>. QED
    BY <1>4, <2>2 DEF NextTree, TypeOK
<1>5. CASE RewriteSecurity
  <2>1. at + 1 \in 1..8
    BY <1>0, <1>5, OrderSteps DEF RewriteSecurity
  <2>2. at' \in 1..8 /\ todo' \subseteq Files /\ trees' \subseteq Trees
    BY <1>5, <2>1, EnterType DEF RewriteSecurity
  <2>3. local' \in [Files -> Record] /\ failed' \in BOOLEAN
    <3>1. PICK written \in SUBSET Rewritten :
            /\ local' = [f \in Files |->
                 IF f \in written THEN WrittenFrom(Props, f) ELSE local[f]]
            /\ failed' = (failed \/ written # Rewritten)
      BY <1>5 DEF RewriteSecurity
    <3>2. \A f \in written : WrittenFrom(Props, f) \in Record
      BY WrittenType
    <3>3. failed' \in BOOLEAN
      BY <3>1, Zenon DEF TypeOK
    <3>. QED
      BY <1>0, <3>1, <3>2, <3>3
  <2>. QED
    BY <1>5, <2>2, <2>3 DEF RewriteSecurity, TypeOK, Record
<1>6. CASE MarkLocalRuntimeSeedCurrent
  <2>1. marker' \in [Stamped -> Int \X Int] /\ seeded' \in Versions \cup {0}
    BY <1>0, <1>6, RuntimeSeedStampType DEF MarkLocalRuntimeSeedCurrent
  <2>. QED
    BY <1>6, <2>1 DEF MarkLocalRuntimeSeedCurrent, TypeOK
<1>7. ASSUME NEW f \in Files, CopyFileIfNeeded(f)
      PROVE  TypeOK'
  <2>1. local' \in [Files -> Record]
    BY <1>0, <1>7, CopiedType DEF CopyFileIfNeeded
  <2>2. failed' \in BOOLEAN
    BY <1>7 DEF CopyFileIfNeeded, TypeOK
  <2>3. todo' = todo \ {f} /\ UNCHANGED <<pkg, trees, marker, pc, at, seeded>>
    BY <1>7 DEF CopyFileIfNeeded
  <2>. QED
    BY <2>1, <2>2, <2>3 DEF TypeOK, Record
<1>8. CASE Kill
  <2>1. UNCHANGED <<pkg, local, trees, marker, seeded>>
    BY <1>8 DEF Kill
  <2>. QED
    BY <1>8, <2>1, EndProcessType DEF Kill, TypeOK
<1>9. CASE KillInMark
  <2>1. marker' \in [Stamped -> Int \X Int] /\ UNCHANGED <<pkg, local, trees, seeded>>
    BY <1>0, <1>9, RuntimeSeedStampType DEF KillInMark
  <2>. QED
    BY <1>9, <2>1, EndProcessType DEF KillInMark, TypeOK
<1>10. ASSUME NEW f \in Files, KillInCopy(f)
       PROVE  TypeOK'
  <2>1. PICK size \in {-1} \cup {Size(f, Pkg[pkg][f])} :
          local' = [local EXCEPT ![f] =
              [rev |-> Pkg[pkg][f], mtime |-> Now, size |-> size, whole |-> FALSE]]
    BY <1>10 DEF KillInCopy
  <2>2. Pkg[pkg][f] \in Nat /\ size \in Int
    BY <1>0, <2>1, RecordTypes
  <2>3. local' \in [Files -> Record]
    BY <1>0, <2>1, <2>2, CutOffType
  <2>4. UNCHANGED <<pkg, trees, marker, seeded>>
    BY <1>10 DEF KillInCopy
  <2>. QED
    BY <1>10, <2>3, <2>4, EndProcessType DEF KillInCopy, TypeOK, Record
<1>11. ASSUME NEW f \in Files, KillInWrite(f)
       PROVE  TypeOK'
  <2>1. local' \in [Files -> Record]
    BY <1>0, <1>11, CutOffType DEF KillInWrite
  <2>2. UNCHANGED <<pkg, trees, marker, seeded>>
    BY <1>11 DEF KillInWrite
  <2>. QED
    BY <1>11, <2>1, <2>2, EndProcessType DEF KillInWrite, TypeOK, Record
<1>12. CASE ResetStorage
  <2>1. local' \in [Files -> Record]
    BY <1>0, <1>12, RecordTypes DEF ResetStorage
  <2>. QED
    BY <1>0, <1>12, <2>1, RuntimeSeedStampType DEF ResetStorage, TypeOK, Record
<1>13. ASSUME NEW v \in Versions, Install(v)
       PROVE  TypeOK'
  BY <1>13 DEF Install, TypeOK
<1>14. ASSUME NEW t \in Trees, LoseTree(t)
       PROVE  TypeOK'
  <2>1. local' \in [Files -> Record]
    BY <1>0, <1>14, RecordTypes DEF LoseTree
  <2>. QED
    BY <1>14, <2>1 DEF LoseTree, TypeOK, Record
<1>15. CASE UNCHANGED vars
  BY <1>15 DEF vars, TypeOK
<1>. QED
  BY <1>1, <1>2, <1>3, <1>4, <1>5, <1>6, <1>7, <1>8, <1>9, <1>10, <1>11, <1>12, <1>13,
     <1>14, <1>15 DEF Next, Prepare, Killed

\* The state keeps its type, with every fault there is (App.cpp 262-386).
THEOREM TypeCorrect == Spec => []TypeOK
BY InitType, TypeStep, PTL DEF Spec

-----------------------------------------------------------------------------
(* Copies, and cut-off ones.                                               *)

\* The test of CopyFileIfNeeded is right but for what size and time cannot tell: a file
\* that it passes over is whole and serves for the packaged one.
LEMMA UpToDateServes ==
    ASSUME NEW f \in Packaged(pkg), f \notin Rewritten, TypeOK, DatedInv, UpToDate(f)
    PROVE  local[f].whole /\ ServesFor(f, local[f].rev, Pkg[pkg][f])
<1>1. pkg \in Versions /\ f \in Files /\ local[f] # Absent
  BY DEF Packaged, TypeOK, UpToDate
<1>2. Size(f, Pkg[pkg][f]) \in Nat
  BY <1>1, RecordTypes
<1>3. local[f].whole
  BY <1>1, <1>2 DEF DatedInv, Dated, UpToDate
<1>4. local[f].mtime = Time(f, local[f].rev) /\ local[f].size = Size(f, local[f].rev)
  BY <1>1, <1>3 DEF DatedInv, Dated
<1>. QED
  BY <1>3, <1>4 DEF UpToDate, ServesFor

\* A file that was just copied is not copied again.
LEMMA CopiedIsUpToDate ==
    ASSUME NEW f \in Files, TypeOK, pkg' = pkg, local'[f] = Copied(f)
    PROVE  UpToDate(f)'
<1>1. Time(f, Pkg[pkg][f]) \in Nat
  BY RecordTypes DEF TypeOK
<1>2. Copied(f) # Absent
  BY DEF Copied, Absent
<1>. QED
  BY <1>1, <1>2 DEF UpToDate, Copied

\* What is placed serves.
LEMMA PlacedServes ==
    ASSUME TypeOK, DatedInv, NEW f \in Packaged(pkg), Placed(f)
    PROVE  local[f].whole /\ ServesFor(f, local[f].rev, Pkg[pkg][f])
BY UpToDateServes DEF Placed, ServesFor

\* A fresh console has no files to date.
LEMMA InitDated == Init => DatedInv
<1>. SUFFICES ASSUME Init, NEW f \in Files
              PROVE  local[f] = Absent /\ ~local[f].whole
  BY DEF DatedInv, Dated
<1>. QED
  BY DEF Init, Absent

\* What a file operation leaves, finished or not, is dated; so is all else.
LEMMA DatedStep ==
    ASSUME ~TornCopies
    PROVE  TypeOK /\ DatedInv /\ [Next]_vars => DatedInv'
<1>. SUFFICES ASSUME TypeOK, DatedInv, [Next]_vars, NEW f \in Files
              PROVE  Dated(f)'
  BY DEF DatedInv
<1>0. pkg \in Versions /\ local \in [Files -> Record] /\ Dated(f)
  BY DEF TypeOK, Record, DatedInv
<1>1. CASE local'[f] = local[f]
  BY <1>0, <1>1 DEF Dated
<1>2. CASE local'[f] = Absent
  BY <1>2 DEF Dated, Absent
<1>3. ASSUME local'[f] = Copied(f)
      PROVE  Dated(f)'
  BY <1>3 DEF Copied, Dated
<1>4. CASE UNCHANGED local
  BY <1>1, <1>4
<1>5. CASE RewriteSecurity
  <2>1. PICK written \in SUBSET Rewritten :
          local' = [g \in Files |-> IF g \in written THEN WrittenFrom(Props, g) ELSE local[g]]
    BY <1>5 DEF RewriteSecurity
  <2>2. CASE f \in written
    BY <2>1, <2>2, WrittenType DEF Dated
  <2>. QED
    BY <1>1, <2>1, <2>2
<1>6. ASSUME NEW g \in Files, CopyFileIfNeeded(g)
      PROVE  Dated(f)'
  <2>1. local' = local \/ local' = [local EXCEPT ![g] = Copied(g)]
    BY <1>6 DEF CopyFileIfNeeded
  <2>2. local'[f] = local[f] \/ local'[f] = Copied(f)
    BY <1>0, <2>1
  <2>. QED
    BY <1>1, <1>3, <2>2
<1>7. ASSUME NEW g \in Files, KillInCopy(g) \/ KillInWrite(g)
      PROVE  Dated(f)'
  <2>1. PICK rev \in Nat :
          local' = [local EXCEPT ![g] =
              [rev |-> rev, mtime |-> Now, size |-> -1, whole |-> FALSE]]
    <3>1. Pkg[pkg][g] \in Nat
      BY <1>0, RecordTypes
    <3>. QED
      BY <1>7, <3>1 DEF KillInCopy, KillInWrite
  <2>2. CASE f = g
    <3>1. ~local'[f].whole /\ local'[f].size = -1
      BY <1>0, <2>1, <2>2
    <3>. QED
      BY <3>1 DEF Dated
  <2>3. CASE f # g
    BY <1>0, <1>1, <2>1, <2>3
  <2>. QED
    BY <2>2, <2>3
<1>8. CASE ResetStorage
  BY <1>2, <1>8 DEF ResetStorage
<1>9. ASSUME NEW t \in Trees, LoseTree(t)
      PROVE  Dated(f)'
  BY <1>1, <1>2, <1>9 DEF LoseTree
<1>10. CASE StartApp \/ SkipCopy \/ BeginSeed \/ NextTree \/ MarkLocalRuntimeSeedCurrent \/ Kill
            \/ KillInMark \/ (\E v \in Versions : Install(v)) \/ UNCHANGED vars
  BY <1>4, <1>10 DEF StartApp, SkipCopy, BeginSeed, NextTree, MarkLocalRuntimeSeedCurrent, Kill,
     KillInMark, Install, vars
<1>. QED
  BY <1>5, <1>6, <1>7, <1>8, <1>9, <1>10 DEF Next, Prepare, Killed

-----------------------------------------------------------------------------
(* The progress of a seeding.                                              *)

\* The next step is begun: the one before it is over, and no other.
LEMMA OverNext ==
    ASSUME NEW step, at \in 1..8, at' = at + 1
    PROVE  Over(step)' <=> Over(step) \/ Order[at] = step
<1>1. 1..(at' - 1) = 1..(at - 1) \cup {at}
  OBVIOUS
<1>. QED
  BY <1>1 DEF Over

\* To begin a tree that has packaged files is to make it.
LEMMA EnterMakesTree ==
    ASSUME NEW step, Enter(step), NEW f \in Packaged(pkg), Dir[f] = Order[step]
    PROVE  Dir[f] \in trees'
<1>1. f \in InTree(Order[step])
  BY DEF InTree
<1>. QED
  BY <1>1 DEF Enter

\* The seeding goes on to its next step.
LEMMA EnterProgress ==
    ASSUME TypeOK, ProgressInv, pc = "seed", at \in 1..7, Enter(at + 1), pkg' = pkg
    PROVE  /\ todo' \subseteq Packaged(pkg')
           /\ \A f \in Packaged(pkg) : Over(Dir[f])' \/ Order[at'] = Dir[f] => Dir[f] \in trees'
           /\ \A f \in Packaged(pkg) :
                  Settled(f)' => IF f \in Rewritten THEN Over("security") \/ Order[at] = "security"
                                 ELSE Over(Dir[f]) \/ Order[at] = Dir[f]
<1>1. at' = at + 1 /\ at' \in 1..8 /\ todo' = InTree(Order[at']) /\ trees \subseteq trees'
  BY DEF Enter
<1>2. todo' \subseteq Packaged(pkg')
  BY <1>1 DEF InTree
<1>3. \A step : Over(step)' <=> Over(step) \/ Order[at] = step
  BY <1>1, OverNext
<1>4. ASSUME NEW f \in Packaged(pkg), Over(Dir[f])' \/ Order[at'] = Dir[f]
      PROVE  Dir[f] \in trees'
  <2>1. CASE Over(Dir[f])'
    BY <1>1, <1>3, <2>1 DEF ProgressInv
  <2>2. CASE Order[at'] = Dir[f]
    BY <1>1, <2>2, EnterMakesTree
  <2>. QED
    BY <1>4, <2>1, <2>2
<1>5. ASSUME NEW f \in Packaged(pkg), Settled(f)'
      PROVE  IF f \in Rewritten THEN Over("security") \/ Order[at] = "security"
             ELSE Over(Dir[f]) \/ Order[at] = Dir[f]
  <2>1. Order[at'] = Dir[f] => f \in todo'
    BY <1>1 DEF InTree
  <2>. QED
    BY <1>3, <1>5, <2>1 DEF Settled
<1>. QED
  BY <1>2, <1>4, <1>5

\* A file that no step touches stays placed.
LEMMA StaysPlaced ==
    ASSUME NEW f, Placed(f), local'[f] = local[f], pkg' = pkg
    PROVE  Placed(f)'
BY DEF Placed, UpToDate

\* A step of a seeding, or any other, keeps what is known of its progress.
LEMMA ProgressStep == TypeOK /\ ProgressInv /\ [Next]_vars => ProgressInv'
<1>. SUFFICES ASSUME TypeOK, ProgressInv, [Next]_vars, pc' = "seed"
              PROVE  ProgressInv'
  BY DEF ProgressInv
<1>0. pkg \in Versions /\ local \in [Files -> Record] /\ (pc = "seed" => at \in 1..8)
  BY OrderFacts DEF TypeOK, Record
<1>1. CASE UNCHANGED vars
  BY <1>1 DEF vars, ProgressInv, Over, Settled, Placed, UpToDate, Packaged
<1>2. CASE BeginSeed
  <2>1. at' = 1 /\ todo' = InTree(Order[1]) /\ pkg' = pkg /\ Enter(1)
    BY <1>2 DEF BeginSeed, Enter
  <2>2. \A step : ~Over(step)'
    BY <2>1 DEF Over
  <2>3. \A f \in Packaged(pkg) : Order[1] = Dir[f] => f \in todo'
    BY <2>1 DEF InTree
  <2>4. \A f \in Packaged(pkg) : ~Settled(f)'
    BY <2>1, <2>2, <2>3 DEF Settled
  <2>5. \A f \in Packaged(pkg) : Order[1] = Dir[f] => Dir[f] \in trees'
    BY <2>1, EnterMakesTree
  <2>. QED
    BY <2>1, <2>2, <2>4, <2>5 DEF ProgressInv, InTree
<1>3. CASE NextTree
  <2>1. pc = "seed" /\ todo = {} /\ Order[at] \in Trees /\ Enter(at + 1)
        /\ UNCHANGED <<pkg, local, failed>>
    BY <1>3 DEF NextTree
  <2>2. at \in 1..7
    BY <1>0, <2>1, OrderSteps
  <2>3. \A f \in Packaged(pkg) : Settled(f)' => Settled(f)
    BY <2>1, <2>2, EnterProgress DEF Settled, Trees
  <2>4. \A f : Placed(f) => Placed(f)'
    BY <2>1 DEF Placed, UpToDate
  <2>5. Packaged(pkg') = Packaged(pkg)
    BY <2>1
  <2>. QED
    BY <2>1, <2>2, <2>3, <2>4, <2>5, EnterProgress DEF ProgressInv
<1>4. CASE RewriteSecurity
  <2>1. pc = "seed" /\ Order[at] = "security" /\ Enter(at + 1) /\ pkg' = pkg
    BY <1>4 DEF RewriteSecurity
  <2>2. at \in 1..7
    BY <1>0, <2>1, OrderSteps
  <2>3. PICK written \in SUBSET Rewritten :
          /\ local' = [g \in Files |-> IF g \in written THEN WrittenFrom(Props, g) ELSE local[g]]
          /\ failed' = (failed \/ written # Rewritten)
    BY <1>4 DEF RewriteSecurity
  <2>4. ASSUME NEW f \in Packaged(pkg), ~failed', Settled(f)'
        PROVE  Placed(f)'
    <3>1. f \in Files /\ ~failed /\ written = Rewritten
      BY <2>3, <2>4 DEF Packaged
    <3>2. CASE f \in Rewritten
      BY <2>1, <2>3, <3>1, <3>2, WrittenType DEF Placed
    <3>3. CASE f \notin Rewritten
      <4>1. Dir[f] # "security"
        BY DEF Packaged, Trees
      <4>2. Settled(f)
        BY <2>1, <2>2, <2>4, <3>3, <4>1, EnterProgress DEF Settled
      <4>3. Placed(f)
        BY <2>1, <3>1, <4>2 DEF ProgressInv
      <4>. QED
        BY <2>1, <2>3, <3>1, <3>3, <4>3, StaysPlaced
    <3>. QED
      BY <3>2, <3>3
  <2>5. Packaged(pkg') = Packaged(pkg)
    BY <2>1
  <2>. QED
    BY <2>1, <2>2, <2>4, <2>5, EnterProgress DEF ProgressInv
<1>5. ASSUME NEW g \in Files, CopyFileIfNeeded(g)
      PROVE  ProgressInv'
  <2>1. pc = "seed" /\ g \in todo /\ todo' = todo \ {g} /\ UNCHANGED <<pkg, trees, at>>
    BY <1>5 DEF CopyFileIfNeeded
  <2>2. g \in Packaged(pkg) /\ todo' \subseteq Packaged(pkg)
    BY <2>1 DEF ProgressInv
  <2>3. ASSUME NEW f \in Packaged(pkg), ~failed', Settled(f)'
        PROVE  Placed(f)'
    <3>1. ~failed
      BY <1>5, <2>3 DEF CopyFileIfNeeded
    <3>2. f \in Files
      BY DEF Packaged
    <3>3. ASSUME Settled(f), local'[f] = local[f]
          PROVE  Placed(f)'
      BY <2>1, <3>1, <3>3, StaysPlaced DEF ProgressInv
    <3>4. CASE f # g
      <4>1. Settled(f)
        BY <2>1, <2>3, <3>4 DEF Settled, Over
      <4>2. local'[f] = local[f]
        BY <1>0, <1>5, <3>2, <3>4 DEF CopyFileIfNeeded
      <4>. QED
        BY <3>3, <4>1, <4>2
    <3>5. CASE f = g /\ f \in Rewritten
      <4>1. Placed(f)
        BY <2>1, <2>3, <3>1, <3>5 DEF ProgressInv, Settled, Over
      <4>2. local'[f] = local[f] \/ local'[f] = Copied(f)
        BY <1>0, <1>5, <3>2, <3>5 DEF CopyFileIfNeeded
      <4>. QED
        BY <2>1, <3>5, <4>1, <4>2 DEF Placed, Copied
    <3>6. CASE f = g /\ f \notin Rewritten /\ UpToDate(g)
      <4>1. local' = local
        BY <1>5, <3>6 DEF CopyFileIfNeeded
      <4>. QED
        BY <2>1, <3>6, <4>1, StaysPlaced DEF Placed
    <3>7. CASE f = g /\ f \notin Rewritten /\ ~UpToDate(g)
      <4>1. local'[f] = Copied(f)
        BY <1>0, <1>5, <2>3, <3>1, <3>2, <3>7 DEF CopyFileIfNeeded
      <4>. QED
        BY <2>1, <3>2, <3>7, <4>1, CopiedIsUpToDate DEF Placed
    <3>. QED
      BY <3>4, <3>5, <3>6, <3>7
  <2>4. Packaged(pkg') = Packaged(pkg)
    BY <2>1
  <2>5. \A f \in Packaged(pkg) : Over(Dir[f])' \/ Order[at'] = Dir[f] => Dir[f] \in trees'
    BY <2>1 DEF ProgressInv, Over
  <2>. QED
    BY <2>2, <2>3, <2>4, <2>5 DEF ProgressInv
<1>6. CASE StartApp \/ SkipCopy \/ MarkLocalRuntimeSeedCurrent \/ Kill \/ KillInMark
           \/ (\E f \in Files : KillInCopy(f) \/ KillInWrite(f)) \/ ResetStorage
           \/ (\E v \in Versions : Install(v)) \/ (\E t \in Trees : LoseTree(t))
  <2>1. pc' # "seed"
    BY <1>6 DEF StartApp, SkipCopy, MarkLocalRuntimeSeedCurrent, Kill, KillInMark, KillInCopy,
       KillInWrite, EndProcess, ResetStorage, Install, LoseTree
  <2>. QED
    BY <2>1
<1>. QED
  BY <1>1, <1>2, <1>3, <1>4, <1>5, <1>6 DEF Next, Prepare, Killed

\* Where the marker is due, nothing else is: without a failure all is placed.
LEMMA DoneIsPlaced ==
    ASSUME TypeOK, ProgressInv, pc = "seed", Order[at] = "marker", NEW f \in Packaged(pkg)
    PROVE  /\ Dir[f] \in trees
           /\ ~failed => Placed(f)
<1>1. at = 8
  BY OrderFacts, OrderSteps DEF TypeOK
<1>2. \A t \in Trees \cup {"security"} : Over(t)
  BY <1>1, OrderCovers DEF Over
<1>3. Settled(f) /\ Over(Dir[f])
  BY <1>2 DEF Settled, Packaged
<1>. QED
  BY <1>3 DEF ProgressInv

\* So all of it serves.
LEMMA DoneIsWhole ==
    ASSUME TypeOK, DatedInv, ProgressInv, pc = "seed", Order[at] = "marker", ~failed
    PROVE  Whole(pkg)
BY DoneIsPlaced, PlacedServes DEF Whole

-----------------------------------------------------------------------------
(* What a seeding that ended has left.                                     *)

\* The security files are packaged.
LEMMA RewrittenPackaged ==
    ASSUME TypeOK
    PROVE  Rewritten \subseteq Packaged(pkg) /\ Security \in Rewritten
<1>1. pkg \in Versions
  BY DEF TypeOK
<1>2. ASSUME NEW f \in Rewritten
      PROVE  f \in Packaged(pkg)
  <2>1. f \in Files /\ Dir[f] \in Trees
    BY FilesAssumption DEF Trees
  <2>2. Pkg[pkg][f] > 0
    BY <1>1, BuildAssumption
  <2>. QED
    BY <2>1, <2>2 DEF Packaged
<1>. QED
  BY <1>2, FilesAssumption

\* What is placed is there.
LEMMA PlacedIsThere ==
    ASSUME NEW f, Placed(f)
    PROVE  local[f] # Absent /\ (f \notin Rewritten => UpToDate(f))
BY DEF Placed, UpToDate, Absent

\* The files that a step of a seeding can change: those that are not up to date, and the
\* security files; it takes none away.
LEMMA SeedChanges ==
    ASSUME TypeOK, ProgressInv, pc = "seed", Next, NEW f \in Packaged(pkg)
    PROVE  /\ f \notin Rewritten /\ UpToDate(f) => local'[f] = local[f]
           /\ local[f] # Absent => local'[f] # Absent
           /\ pkg' = pkg /\ trees \subseteq trees'
<1>0. pkg \in Versions /\ local \in [Files -> Record] /\ f \in Files
  BY DEF TypeOK, Record, Packaged
<1>1. CASE local' = local /\ pkg' = pkg /\ trees \subseteq trees'
  BY <1>1
<1>2. CASE NextTree \/ MarkLocalRuntimeSeedCurrent \/ Kill \/ KillInMark
  BY <1>1, <1>2 DEF NextTree, Enter, MarkLocalRuntimeSeedCurrent, Kill, KillInMark
<1>3. CASE RewriteSecurity
  <2>1. PICK written \in SUBSET Rewritten :
          local' = [g \in Files |-> IF g \in written THEN WrittenFrom(Props, g) ELSE local[g]]
    BY <1>3 DEF RewriteSecurity
  <2>2. f \in Rewritten => WrittenFrom(Props, f) # Absent
    BY DEF WrittenFrom, Absent
  <2>3. pkg' = pkg /\ trees \subseteq trees'
    BY <1>3 DEF RewriteSecurity, Enter
  <2>. QED
    BY <1>0, <2>1, <2>2, <2>3
<1>4. ASSUME NEW g \in Files, CopyFileIfNeeded(g)
      PROVE  /\ f \notin Rewritten /\ UpToDate(f) => local'[f] = local[f]
             /\ local[f] # Absent => local'[f] # Absent
             /\ pkg' = pkg /\ trees \subseteq trees'
  <2>1. Copied(g) # Absent
    BY DEF Copied, Absent
  <2>. QED
    BY <1>0, <1>4, <2>1 DEF CopyFileIfNeeded
<1>5. ASSUME NEW g \in Files, KillInCopy(g) \/ (g \in Rewritten /\ KillInWrite(g))
      PROVE  /\ f \notin Rewritten /\ UpToDate(f) => local'[f] = local[f]
             /\ local[f] # Absent => local'[f] # Absent
             /\ pkg' = pkg /\ trees \subseteq trees'
  <2>1. pkg' = pkg /\ trees' = trees
    BY <1>5 DEF KillInCopy, KillInWrite
  <2>2. CASE f # g
    <3>1. local'[f] = local[f]
      BY <1>0, <1>5, <2>2 DEF KillInCopy, KillInWrite
    <3>. QED
      BY <2>1, <3>1
  <2>3. CASE f = g
    <3>1. f \in Rewritten \/ ~UpToDate(f)
      BY <1>5, <2>3 DEF KillInCopy
    <3>2. local'[f].mtime = Now
      BY <1>0, <1>5, <2>3 DEF KillInCopy, KillInWrite
    <3>3. local'[f] # Absent
      BY <3>2, FilesAssumption DEF Absent
    <3>. QED
      BY <2>1, <3>1, <3>3
  <2>. QED
    BY <2>2, <2>3
<1>6. ~StartApp /\ ~SkipCopy /\ ~BeginSeed /\ ~ResetStorage
      /\ (\A v \in Versions : ~Install(v)) /\ (\A t \in Trees : ~LoseTree(t))
  BY DEF StartApp, SkipCopy, BeginSeed, ResetStorage, Install, LoseTree
<1>. QED
  BY <1>2, <1>3, <1>4, <1>5, <1>6 DEF Next, Prepare, Killed

\* What SeededInv says of one file.
Kept(f) == local[f] # Absent /\ Dir[f] \in trees /\ (f \notin Rewritten => UpToDate(f))

\* What a seeding has left stays until the package or LocalState changes, whatever fails.
LEMMA SeededStep == TypeOK /\ ProgressInv /\ SeededInv /\ [Next]_vars => SeededInv'
<1>. SUFFICES ASSUME TypeOK, ProgressInv, SeededInv, [Next]_vars
              PROVE  SeededInv'
  OBVIOUS
<1>0. pkg \in Versions /\ pkg \in Nat /\ pkg > 0 /\ seeded \in Nat /\ seeded <= pkg
  BY VersionsAssumption DEF TypeOK, SeededInv
<1>1. ASSUME UNCHANGED <<pkg, local, trees, seeded>>
      PROVE  SeededInv'
  BY <1>1 DEF SeededInv, Packaged, UpToDate
<1>2. ASSUME seeded' < pkg', seeded' \in Nat, pkg' \in Nat
      PROVE  SeededInv'
  BY <1>2 DEF SeededInv
<1>3. CASE StartApp \/ SkipCopy \/ UNCHANGED vars
  BY <1>1, <1>3 DEF StartApp, SkipCopy, vars
<1>4. CASE BeginSeed
  <2>1. UNCHANGED <<pkg, local, seeded>> /\ trees \subseteq trees'
    BY <1>4 DEF BeginSeed, Enter
  <2>. QED
    BY <2>1 DEF SeededInv, Packaged, UpToDate
<1>5. CASE pc = "seed" /\ Next /\ ~MarkLocalRuntimeSeedCurrent
  <2>1. seeded' = seeded
    BY <1>5 DEF Next, Prepare, Killed, StartApp, SkipCopy, BeginSeed, NextTree, RewriteSecurity,
       CopyFileIfNeeded, Kill, KillInMark, KillInCopy, KillInWrite, ResetStorage, Install, LoseTree
  <2>2. pkg' = pkg
    BY <1>5 DEF Next, Prepare, Killed, StartApp, SkipCopy, BeginSeed, NextTree, RewriteSecurity,
       CopyFileIfNeeded, Kill, KillInMark, KillInCopy, KillInWrite, ResetStorage, Install, LoseTree
  <2>3. ASSUME seeded = pkg, NEW f \in Packaged(pkg)
        PROVE  Kept(f)'
    <3>1. local[f] # Absent /\ Dir[f] \in trees /\ (f \notin Rewritten => UpToDate(f))
      BY <2>3 DEF SeededInv
    <3>2. local'[f] # Absent /\ Dir[f] \in trees'
      BY <1>5, <3>1, SeedChanges
    <3>3. f \notin Rewritten => local'[f] = local[f]
      BY <1>5, <3>1, SeedChanges
    <3>. QED
      BY <2>2, <3>1, <3>2, <3>3 DEF Kept, UpToDate
  <2>4. Packaged(pkg') = Packaged(pkg)
    BY <2>2
  <2>. QED
    BY <1>0, <2>1, <2>2, <2>3, <2>4 DEF SeededInv, Kept
<1>6. CASE MarkLocalRuntimeSeedCurrent
  <2>1. pc = "seed" /\ Order[at] = "marker" /\ UNCHANGED <<pkg, local, trees>>
        /\ seeded' = IF failed THEN 0 ELSE pkg
    BY <1>6 DEF MarkLocalRuntimeSeedCurrent
  <2>2. CASE failed
    BY <1>0, <1>2, <2>1, <2>2
  <2>3. CASE ~failed
    <3>1. \A f \in Packaged(pkg) : Kept(f)
      BY <2>1, <2>3, DoneIsPlaced, PlacedIsThere DEF Kept
    <3>2. Packaged(pkg') = Packaged(pkg)
      BY <2>1
    <3>. QED
      BY <1>0, <2>1, <2>3, <3>1, <3>2 DEF SeededInv, Kept, UpToDate
  <2>. QED
    BY <2>2, <2>3
<1>7. CASE Kill /\ pc # "seed"
  BY <1>1, <1>7 DEF Kill
<1>8. CASE ResetStorage \/ \E t \in Trees : LoseTree(t)
  BY <1>0, <1>2, <1>8 DEF ResetStorage, LoseTree
<1>9. ASSUME NEW v \in Versions, Install(v)
      PROVE  SeededInv'
  <2>1. v \in Nat /\ pkg' = v /\ v > pkg /\ seeded' = seeded
    BY <1>9, VersionsAssumption DEF Install
  <2>. QED
    BY <1>0, <1>2, <2>1
<1>. QED
  BY <1>3, <1>4, <1>5, <1>6, <1>7, <1>8, <1>9 DEF Next, Prepare, Killed, NextTree,
     RewriteSecurity, CopyFileIfNeeded, KillInMark, KillInCopy, KillInWrite

-----------------------------------------------------------------------------
(* What the marker says.                                                   *)

\* No build has the stamp of another, nor the text of an unreadable marker.
LEMMA StampsDiffer ==
    ASSUME NEW v \in Versions
    PROVE  /\ NoText # RuntimeSeedStamp(v)
           /\ \A u \in Versions : u # v => RuntimeSeedStamp(u) # RuntimeSeedStamp(v)
<1>1. Exe \in Stamped /\ Exe \in Files
  BY BuildAssumption, FilesAssumption
<1>2. \A u \in Versions : RuntimeSeedStamp(u)[Exe] = FileStamp(Exe, Pkg[u][Exe])
  BY <1>1 DEF RuntimeSeedStamp
<1>3. NoText[Exe] = <<-1, -1>>
  BY <1>1 DEF NoText
<1>4. FileStamp(Exe, Pkg[v][Exe]) # <<-1, -1>>
  <2>1. Time(Exe, Pkg[v][Exe]) \in Nat
    BY <1>1, RecordTypes
  <2>. QED
    BY <2>1 DEF FileStamp
<1>5. \A u \in Versions : u # v => FileStamp(Exe, Pkg[u][Exe]) # FileStamp(Exe, Pkg[v][Exe])
  BY BuildAssumption
<1>. QED
  BY <1>2, <1>3, <1>4, <1>5

\* While the installed version is the one that was seeded, a seeding adds nothing to what
\* IsLocalRuntimeSeedCurrent looks for.
LEMMA AddsNothing ==
    ASSUME TypeOK, ProgressInv, SeededInv, seeded = pkg,
           (pc = "seed" /\ Next) \/ BeginSeed
    PROVE  /\ \A f \in Files : local'[f] # Absent => local[f] # Absent
           /\ trees' \subseteq trees /\ pkg' = pkg
<1>0. local \in [Files -> Record]
  BY DEF TypeOK, Record
<1>1. \A f \in Packaged(pkg) : local[f] # Absent /\ Dir[f] \in trees
  BY DEF SeededInv
<1>2. ASSUME NEW step, Enter(step)
      PROVE  trees' \subseteq trees
  BY <1>1, <1>2 DEF Enter, InTree
<1>3. CASE BeginSeed
  BY <1>2, <1>3 DEF BeginSeed
<1>4. CASE NextTree \/ MarkLocalRuntimeSeedCurrent \/ Kill \/ KillInMark
  BY <1>2, <1>4 DEF NextTree, MarkLocalRuntimeSeedCurrent, Kill, KillInMark
<1>5. CASE RewriteSecurity
  <2>1. PICK written \in SUBSET Rewritten :
          local' = [g \in Files |-> IF g \in written THEN WrittenFrom(Props, g) ELSE local[g]]
    BY <1>5 DEF RewriteSecurity
  <2>2. \A g \in written : local[g] # Absent
    BY <1>1, RewrittenPackaged
  <2>3. pkg' = pkg /\ trees' \subseteq trees
    BY <1>2, <1>5 DEF RewriteSecurity
  <2>. QED
    BY <2>1, <2>2, <2>3
<1>6. ASSUME NEW g \in Files,
             CopyFileIfNeeded(g) \/ KillInCopy(g) \/ (g \in Rewritten /\ KillInWrite(g)), pc = "seed"
      PROVE  (\A f \in Files : local'[f] # Absent => local[f] # Absent) /\ trees' = trees /\ pkg' = pkg
  <2>1. g \in Packaged(pkg)
    BY <1>6, RewrittenPackaged DEF CopyFileIfNeeded, KillInCopy, ProgressInv
  <2>2. local[g] # Absent
    BY <1>1, <2>1
  <2>3. \A f \in Files : f # g => local'[f] = local[f]
    BY <1>0, <1>6 DEF CopyFileIfNeeded, KillInCopy, KillInWrite
  <2>. QED
    BY <1>6, <2>2, <2>3 DEF CopyFileIfNeeded, KillInCopy, KillInWrite
<1>7. CASE pc = "seed" /\ Next
  <2>1. ~StartApp /\ ~SkipCopy /\ ~ResetStorage
        /\ (\A v \in Versions : ~Install(v)) /\ (\A t \in Trees : ~LoseTree(t))
    BY <1>7 DEF StartApp, SkipCopy, ResetStorage, Install, LoseTree
  <2>. QED
    BY <1>3, <1>4, <1>5, <1>6, <1>7, <2>1 DEF Next, Prepare, Killed
<1>. QED
  BY <1>3, <1>7

\* So where it said no before the step, it says no after it.
LEMMA StillNotCurrent ==
    ASSUME TypeOK, ProgressInv, SeededInv, seeded = pkg, marker' = marker,
           (pc = "seed" /\ Next) \/ BeginSeed, IsLocalRuntimeSeedCurrent'
    PROVE  IsLocalRuntimeSeedCurrent
<1>1. {Jvm, Security, PatchJar, OpenGl} \subseteq Files
  BY FilesAssumption
<1>2. \A f \in {Jvm, Security, PatchJar, OpenGl} : local'[f] # Absent => local[f] # Absent
  BY <1>1, AddsNothing
<1>3. trees' \subseteq trees /\ pkg' = pkg
  BY AddsNothing
<1>. QED
  BY <1>2, <1>3 DEF IsLocalRuntimeSeedCurrent, RuntimeSeedStamp

\* Only a seeding that ends writes the installed build's marker, and none begins, and so
\* none can be cut off, where that marker and what is found are enough.
LEMMA MarkerStep ==
    ASSUME ~CopyFaults, ~Losses
    PROVE  TypeOK /\ ProgressInv /\ SeededInv /\ MarkerInv /\ [Next]_vars => MarkerInv'
<1>. SUFFICES ASSUME TypeOK, ProgressInv, SeededInv, MarkerInv, [Next]_vars
              PROVE  MarkerInv'
  OBVIOUS
<1>0. pkg \in Versions /\ pkg \in Nat /\ ~failed
  BY VersionsAssumption DEF TypeOK, MarkerInv
<1>1. ASSUME UNCHANGED <<pkg, local, trees, marker, seeded>>, ~failed',
             pc' \notin {"run", "seed"} \/ pc' = pc
      PROVE  MarkerInv'
  BY <1>1 DEF MarkerInv, IsLocalRuntimeSeedCurrent, RuntimeSeedStamp, Secured, Placed, UpToDate
<1>2. CASE StartApp \/ (Kill /\ pc # "seed") \/ UNCHANGED vars
  BY <1>0, <1>1, <1>2 DEF StartApp, Kill, EndProcess, vars
<1>3. CASE SkipCopy
  <2>1. IsLocalRuntimeSeedCurrent /\ UNCHANGED <<pkg, local, trees, marker, seeded, failed>> /\ pc' = "run"
    BY <1>3 DEF SkipCopy
  <2>2. seeded = pkg /\ Secured
    BY <2>1 DEF MarkerInv, IsLocalRuntimeSeedCurrent
  <2>. QED
    BY <2>1, <2>2 DEF MarkerInv, RuntimeSeedStamp, Secured, Placed, UpToDate
\* A step that leaves the marker alone, in a seeding or at its beginning.
<1>4. CASE BeginSeed \/ (pc = "seed" /\ Next /\ ~MarkLocalRuntimeSeedCurrent /\ ~KillInMark)
  <2>1. marker' = marker /\ seeded' = seeded /\ pkg' = pkg /\ pc' # "run"
    BY <1>4 DEF Next, Prepare, Killed, StartApp, SkipCopy, BeginSeed, NextTree, RewriteSecurity,
       CopyFileIfNeeded, Kill, KillInCopy, KillInWrite, EndProcess, ResetStorage, Install, LoseTree
  <2>2. ~failed'
    BY <1>0, <1>4 DEF Next, Prepare, Killed, StartApp, SkipCopy, BeginSeed, NextTree,
       RewriteSecurity, CopyFileIfNeeded, Kill, KillInCopy, KillInWrite, EndProcess,
       ResetStorage, Install, LoseTree
  <2>3. ~IsLocalRuntimeSeedCurrent
    BY <1>4 DEF BeginSeed, MarkerInv
  <2>4. ~IsLocalRuntimeSeedCurrent'
    <3>1. CASE marker = RuntimeSeedStamp(pkg)
      <4>1. seeded = pkg
        BY <3>1 DEF MarkerInv
      <4>. QED
        BY <1>4, <2>1, <2>3, <4>1, StillNotCurrent
    <3>2. CASE marker # RuntimeSeedStamp(pkg)
      BY <2>1, <3>2 DEF IsLocalRuntimeSeedCurrent, RuntimeSeedStamp
    <3>. QED
      BY <3>1, <3>2
  <2>. QED
    BY <2>1, <2>2, <2>4 DEF MarkerInv, RuntimeSeedStamp, NoText
<1>5. CASE MarkLocalRuntimeSeedCurrent
  <2>1. marker' = RuntimeSeedStamp(pkg) /\ seeded' = pkg /\ pc' = "run" /\ ~failed'
        /\ UNCHANGED <<pkg, local, trees>>
    BY <1>0, <1>5 DEF MarkLocalRuntimeSeedCurrent
  <2>2. Secured
    BY <1>0, <1>5, DoneIsPlaced, RewrittenPackaged DEF MarkLocalRuntimeSeedCurrent, Secured
  <2>3. Secured'
    BY <2>1, <2>2, StaysPlaced DEF Secured
  <2>4. \E v \in Versions : v <= pkg' /\ marker' = RuntimeSeedStamp(v)
    BY <1>0, <2>1
  <2>. QED
    BY <2>1, <2>3, <2>4 DEF MarkerInv, RuntimeSeedStamp
<1>6. CASE KillInMark \/ ResetStorage
  <2>1. marker' = NoText /\ pkg' = pkg /\ pc' = "off" /\ ~failed'
    BY <1>0, <1>6 DEF KillInMark, EndProcess, ResetStorage
  <2>2. NoText # RuntimeSeedStamp(pkg)
    BY <1>0, StampsDiffer
  <2>. QED
    BY <2>1, <2>2 DEF MarkerInv, IsLocalRuntimeSeedCurrent, RuntimeSeedStamp, NoText
<1>7. ASSUME NEW v \in Versions, Install(v)
      PROVE  MarkerInv'
  <2>1. pkg' = v /\ v > pkg /\ pc' = "off" /\ ~failed' /\ UNCHANGED marker
    BY <1>0, <1>7 DEF Install
  <2>2. v \in Nat /\ Versions \subseteq Nat
    BY VersionsAssumption
  <2>3. marker = NoText \/ \E u \in Versions : u < v /\ marker = RuntimeSeedStamp(u)
    BY <1>0, <2>1, <2>2 DEF MarkerInv
  <2>4. marker # RuntimeSeedStamp(v)
    BY <2>2, <2>3, StampsDiffer
  <2>. QED
    BY <2>1, <2>2, <2>3, <2>4 DEF MarkerInv, IsLocalRuntimeSeedCurrent, RuntimeSeedStamp, NoText
<1>8. \A t \in Trees : ~LoseTree(t)
  BY DEF LoseTree
<1>. QED
  BY <1>2, <1>3, <1>4, <1>5, <1>6, <1>7, <1>8 DEF Next, Prepare, Killed, NextTree,
     RewriteSecurity, CopyFileIfNeeded, KillInCopy, KillInWrite

-----------------------------------------------------------------------------
(* The promises.                                                           *)

\* At first there is nothing, and nothing is said of it.
LEMMA InitPrepared == Init => DatedInv /\ ProgressInv /\ SeededInv /\ MarkerInv
<1>. SUFFICES ASSUME Init
              PROVE  ProgressInv /\ SeededInv /\ MarkerInv
  BY InitDated
<1>1. pkg \in Versions /\ pkg \in Nat /\ pkg > 0 /\ seeded = 0
  BY VersionsAssumption DEF Init
<1>2. marker # RuntimeSeedStamp(pkg)
  BY <1>1, StampsDiffer DEF Init
<1>. QED
  BY <1>1, <1>2 DEF Init, ProgressInv, SeededInv, MarkerInv, IsLocalRuntimeSeedCurrent

\* With every fault there is, these are invariants.
LEMMA ProgressCorrect == Spec => [](TypeOK /\ ProgressInv /\ SeededInv)
BY InitType, TypeStep, InitPrepared, ProgressStep, SeededStep, PTL DEF Spec

\* Without torn copies, so is this.
LEMMA DatedCorrect ==
    ASSUME ~TornCopies
    PROVE  Spec => []DatedInv
BY InitType, TypeStep, InitPrepared, DatedStep, PTL DEF Spec

\* And without copy faults and losses what the marker says.
LEMMA MarkerInvCorrect ==
    ASSUME ~CopyFaults, ~Losses
    PROVE  Spec => []MarkerInv
BY ProgressCorrect, InitPrepared, MarkerStep, PTL DEF Spec

\* After a seeding that ended, and with the security files right, all is whole.
LEMMA SeededIsWhole ==
    ASSUME TypeOK, DatedInv, SeededInv, seeded = pkg, Secured
    PROVE  Whole(pkg)
<1>1. \A f \in Packaged(pkg) : Placed(f)
  BY DEF SeededInv, Secured, Placed
<1>. QED
  BY <1>1, PlacedServes DEF Whole

\* A seeding without a failure repairs everything, copies that failed before and trees
\* that were lost included (App.cpp 295-386).
THEOREM CleanSeedCorrect ==
    ASSUME ~TornCopies
    PROVE  Spec => CleanSeedRepairs
<1>1. TypeOK /\ DatedInv /\ ProgressInv /\ [Next]_vars
          => [pc = "seed" /\ pc' = "run" /\ ~failed => Whole(pkg)]_vars
  <2>. SUFFICES ASSUME TypeOK, DatedInv, ProgressInv, Next, pc = "seed", pc' = "run", ~failed
                PROVE  Whole(pkg)
    OBVIOUS
  <2>1. MarkLocalRuntimeSeedCurrent
    BY DEF Next, Prepare, Killed, StartApp, SkipCopy, BeginSeed, NextTree, RewriteSecurity,
       CopyFileIfNeeded, Kill, KillInMark, KillInCopy, KillInWrite, EndProcess, ResetStorage,
       Install, LoseTree
  <2>. QED
    BY <2>1, DoneIsWhole DEF MarkLocalRuntimeSeedCurrent
<1>. QED
  BY <1>1, ProgressCorrect, DatedCorrect, PTL DEF Spec, CleanSeedRepairs

\* Whatever fails, is cut off, lost or installed, with or without the patch jar: once the
\* installed version has been seeded, and until files are lost, no launch copies a file
\* again (App.cpp 295-310).
THEOREM WarmLaunchCorrect == Spec => []WarmLaunchCopiesNothing
<1>1. ProgressInv /\ SeededInv => WarmLaunchCopiesNothing
  BY DEF ProgressInv, SeededInv, WarmLaunchCopiesNothing
<1>. QED
  BY <1>1, ProgressCorrect, PTL

\* IsLocalRuntimeSeedCurrent says yes only of a whole runtime, at every moment, whatever was
\* cut off, updated or emptied before (App.cpp 262-285, 383).
THEOREM CurrentCorrect ==
    ASSUME ~TornCopies, ~CopyFaults, ~Losses
    PROVE  Spec => []CurrentIsWhole
<1>1. TypeOK /\ DatedInv /\ SeededInv /\ MarkerInv => CurrentIsWhole
  BY SeededIsWhole DEF MarkerInv, CurrentIsWhole, IsLocalRuntimeSeedCurrent
<1>. QED
  BY <1>1, ProgressCorrect, DatedCorrect, MarkerInvCorrect, PTL

\* Minecraft runs on a whole runtime of the installed build, for any number of builds,
\* launches and kills (App.cpp 262-386, 3028-3051).
THEOREM RunsWholeCorrect ==
    ASSUME ~TornCopies, ~CopyFaults, ~Losses
    PROVE  Spec => []RunsWhole
<1>1. TypeOK /\ DatedInv /\ SeededInv /\ MarkerInv => RunsWhole
  BY SeededIsWhole DEF MarkerInv, RunsWhole
<1>. QED
  BY <1>1, ProgressCorrect, DatedCorrect, MarkerInvCorrect, PTL
==============================================================================
