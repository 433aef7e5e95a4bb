--------------------------- MODULE AppSessionProofs ---------------------------
(***************************************************************************)
(* Proofs about AppSession: each of its steps is one of LauncherAuth and   *)
(* one of RuntimeSeed, or leaves that half alone, so that what holds of    *)
(* the halves holds of the whole; and with that, that the runtime is not   *)
(* written and no game runs but for an owner, on a runtime that is whole.  *)
(***************************************************************************)
EXTENDS AppSession, LauncherAuthProofs

-----------------------------------------------------------------------------
(* The two halves.                                                         *)

\* Seen without the preparation a step is one of the sign-in, or none.
LEMMA SessionStepIsStep == [SessionNext]_sessionVars => [Next]_vars
<1>. SUFFICES ASSUME [SessionNext]_sessionVars
              PROVE  [Next]_vars
  OBVIOUS
<1>1. CASE Launch
  BY <1>1 DEF Launch, Next
<1>2. CASE SignIn
  BY <1>2 DEF SignIn, Next
<1>3. CASE Play
  BY <1>3 DEF Play, Next
<1>4. CASE Prepare \/ Maintain
  BY <1>4 DEF Prepare, Maintain
<1>5. CASE End
  BY <1>5 DEF End, Next
<1>6. CASE Elsewhere
  BY <1>6 DEF Elsewhere, Next
<1>7. CASE UNCHANGED sessionVars
  BY <1>7 DEF sessionVars
<1>. QED
  BY <1>1, <1>2, <1>3, <1>4, <1>5, <1>6, <1>7 DEF SessionNext

\* Over all launches the sign-in of the session is the one of LauncherAuth
\* (App.cpp 3011-3026).
THEOREM SessionRunsAuth == SessionSpec => Spec
<1>1. SessionInit => Init
  BY DEF SessionInit
<1>. QED
  BY <1>1, SessionStepIsStep, PTL DEF SessionSpec, Spec

\* Seen without the sign-in a step is one of the preparation, or none.
LEMMA SessionStepIsSeedStep == [SessionNext]_sessionVars => [Seed!Next]_(Seed!vars)
<1>. SUFFICES ASSUME [SessionNext]_sessionVars
              PROVE  [Seed!Next]_(Seed!vars)
  OBVIOUS
<1>1. CASE Launch \/ SignIn \/ Elsewhere \/ UNCHANGED sessionVars
  <2>1. UNCHANGED seedVars
    BY <1>1 DEF Launch, SignIn, Elsewhere, sessionVars
  <2>. QED
    BY <2>1 DEF seedVars, Seed!vars
<1>2. CASE Play
  BY <1>2 DEF Play, Seed!Next
<1>3. CASE Prepare
  BY <1>3 DEF Prepare, Seed!Next
<1>4. CASE End
  <2>1. CASE stage = "off"
    BY <1>4, <2>1 DEF End, seedVars, Seed!vars
  <2>2. CASE stage # "off"
    BY <1>4, <2>2 DEF End, Seed!Next
  <2>. QED
    BY <2>1, <2>2
<1>5. CASE Maintain
  BY <1>5 DEF Maintain, Seed!Next
<1>. QED
  BY <1>1, <1>2, <1>3, <1>4, <1>5 DEF SessionNext

\* Over all launches and accounts the preparation is the one of RuntimeSeed
\* (App.cpp 3028-3051).
THEOREM SessionRunsSeed == SessionSpec => ImplementsSeed
<1>1. SessionInit => Seed!Init
  BY DEF SessionInit
<1>. QED
  BY <1>1, SessionStepIsSeedStep, PTL DEF SessionSpec, ImplementsSeed, Seed!Spec

-----------------------------------------------------------------------------
(* The two together.                                                       *)

\* The process prepares or runs the game exactly when Run has left its loop.
LEMMA OneProcessStep == OneProcess /\ [SessionNext]_sessionVars => OneProcess'
<1>. SUFFICES ASSUME OneProcess, [SessionNext]_sessionVars
              PROVE  OneProcess'
  OBVIOUS
<1>1. CASE Launch
  BY <1>1 DEF Launch, StartApp, OneProcess, seedVars
<1>2. CASE SignIn
  <2>1. pc # "launch" /\ pc' # "launch"
    BY <1>2 DEF SignIn, MenuSignOut, Resolve, LoadRefreshToken, SaveRemoves, SaveAdds,
                ClearRefreshToken, RefreshMicrosoftToken, Build, ExchangeToken, BuildFails,
                EnsureMinecraftEntitlement, FetchMinecraftProfile, RequestDeviceCode,
                SleepWithAuthUi, DeviceCodeExpires, PollPending, PollGranted, PollFailed,
                SignOut, EndProcess, local
  <2>. QED
    BY <1>2, <2>1 DEF SignIn, OneProcess, seedVars
<1>3. CASE Play
  BY <1>3 DEF Play, MenuPlay, Seed!StartApp, OneProcess
<1>4. CASE Prepare
  <2>1. stage # "off" /\ stage' # "off"
    BY <1>4 DEF Prepare, Seed!Prepare, Seed!SkipCopy, Seed!BeginSeed, Seed!NextTree,
                Seed!RewriteSecurity, Seed!MarkLocalRuntimeSeedCurrent, Seed!CopyFileIfNeeded
  <2>. QED
    BY <1>4, <2>1 DEF Prepare, OneProcess, vars
<1>5. CASE End
  <2>1. pc' # "launch" /\ (stage # "off" => stage' = "off")
    BY <1>5 DEF End, Kill, EndProcess, Seed!Killed, Seed!Kill, Seed!KillInMark,
                Seed!KillInCopy, Seed!KillInWrite, Seed!EndProcess
  <2>2. stage = "off" => stage' = "off"
    BY <1>5 DEF End, seedVars
  <2>. QED
    BY <2>1, <2>2 DEF OneProcess
<1>6. CASE Elsewhere
  BY <1>6 DEF Elsewhere, Answer, SessionEnds, OneProcess, seedVars
<1>7. CASE Maintain
  BY <1>7 DEF Maintain, Seed!Install, Seed!ResetStorage, OneProcess, vars
<1>8. CASE UNCHANGED sessionVars
  BY <1>8 DEF sessionVars, seedVars, vars, OneProcess
<1>. QED
  BY <1>1, <1>2, <1>3, <1>4, <1>5, <1>6, <1>7, <1>8 DEF SessionNext

\* In every state of the session.
LEMMA SessionCorrectInv == SessionSpec => [](VerifiedInv /\ OneProcess)
<1>1. SessionInit => OneProcess
  BY DEF SessionInit, Init, Seed!Init, OneProcess
<1>2. SessionSpec => []OneProcess
  BY <1>1, OneProcessStep, PTL DEF SessionSpec
<1>. QED
  BY <1>2, SessionRunsAuth, VerifiedCorrect, PTL

\* The game runs for an owner, under the name, the id and the token of one account,
\* for any accounts, packages and files (App.cpp 3011-3051, 3104-3107).
THEOREM GameIsOwnersCorrect == SessionSpec => []GameIsOwners
<1>1. VerifiedInv /\ OneProcess => GameIsOwners
  BY DEF VerifiedInv, OneProcess, GameIsOwners, Returned
<1>. QED
  BY <1>1, SessionCorrectInv, PTL

\* No file, tree or marker of the runtime in LocalState is written but for an owner who
\* chose Play (App.cpp 3012-3047).
THEOREM SeedsForOwnersCorrect == SessionSpec => SeedsForOwners
<1>1. ASSUME VerifiedInv, OneProcess, [SessionNext]_sessionVars
      PROVE  [<<copies, trees, marker>>' # <<copies, trees, marker>> =>
                  pc = "stopped" \/ (pc = "launch" /\ out.uuid \in Owners)]_sessionVars
  <2>1. CASE pc = "launch"
    BY <1>1, <2>1 DEF VerifiedInv, Returned
  <2>2. CASE pc # "launch"
    <3>1. stage = "off"
      BY <1>1, <2>2 DEF OneProcess
    <3>2. CASE Launch \/ SignIn \/ Elsewhere
      BY <3>2 DEF Launch, SignIn, Elsewhere, seedVars
    <3>3. CASE Play
      BY <3>3 DEF Play, Seed!StartApp
    <3>4. CASE Prepare
      BY <3>1, <3>4 DEF Prepare, Seed!Prepare, Seed!SkipCopy, Seed!BeginSeed, Seed!NextTree,
                Seed!RewriteSecurity, Seed!MarkLocalRuntimeSeedCurrent, Seed!CopyFileIfNeeded
    <3>5. CASE End
      BY <3>1, <3>5 DEF End, seedVars
    <3>6. CASE Maintain
      BY <3>6 DEF Maintain
    <3>. QED
      BY <1>1, <3>2, <3>3, <3>4, <3>5, <3>6 DEF SessionNext
  <2>. QED
    BY <2>1, <2>2
<1>. QED
  BY <1>1, SessionCorrectInv, PTL DEF SessionSpec, SeedsForOwners

-----------------------------------------------------------------------------
(* The promise.                                                            *)

\* What is proved of RuntimeSeed, for the preparation of the session.
SeedProofs == INSTANCE RuntimeSeedProofs WITH local <- copies, pc <- stage, Losses <- FALSE

\* It is the same preparation.
LEMMA SeedIsSeed == Seed!Spec => SeedProofs!Spec
<1>. USE DEF Seed!Absent, SeedProofs!Absent, Seed!NoText, SeedProofs!NoText, Seed!Trees,
             SeedProofs!Trees
<1>1. Seed!Init => SeedProofs!Init
  BY DEF Seed!Init, SeedProofs!Init
<1>2. [Seed!Next]_(Seed!vars) => [SeedProofs!Next]_(SeedProofs!vars)
  <2>. USE DEF Seed!Order, SeedProofs!Order, Seed!Packaged, SeedProofs!Packaged, Seed!InTree,
               SeedProofs!InTree, Seed!RuntimeSeedStamp, SeedProofs!RuntimeSeedStamp,
               Seed!FileStamp, SeedProofs!FileStamp,
               Seed!EndProcess, SeedProofs!EndProcess
  <2>1. Seed!Prepare <=> SeedProofs!Prepare
    BY DEF Seed!Prepare, SeedProofs!Prepare, Seed!SkipCopy, SeedProofs!SkipCopy,
           Seed!BeginSeed, SeedProofs!BeginSeed, Seed!IsLocalRuntimeSeedCurrent,
           SeedProofs!IsLocalRuntimeSeedCurrent, Seed!Enter, SeedProofs!Enter, Seed!NextTree,
           SeedProofs!NextTree, Seed!RewriteSecurity, SeedProofs!RewriteSecurity,
           Seed!WrittenFrom, SeedProofs!WrittenFrom, Seed!MarkLocalRuntimeSeedCurrent,
           SeedProofs!MarkLocalRuntimeSeedCurrent, Seed!CopyFileIfNeeded,
           SeedProofs!CopyFileIfNeeded, Seed!UpToDate, SeedProofs!UpToDate, Seed!Copied,
           SeedProofs!Copied
  <2>2. Seed!Killed <=> SeedProofs!Killed
    BY DEF Seed!Killed, SeedProofs!Killed, Seed!Kill, SeedProofs!Kill, Seed!KillInMark,
           SeedProofs!KillInMark, Seed!KillInCopy, SeedProofs!KillInCopy, Seed!UpToDate,
           SeedProofs!UpToDate, Seed!KillInWrite, SeedProofs!KillInWrite
  <2>3. [Seed!StartApp \/ Seed!ResetStorage \/ (\E v \in Versions : Seed!Install(v))
            \/ (\E t \in Seed!Trees : Seed!LoseTree(t))]_(Seed!vars)
        <=> [SeedProofs!StartApp \/ SeedProofs!ResetStorage
                \/ (\E v \in Versions : SeedProofs!Install(v))
                \/ (\E t \in SeedProofs!Trees : SeedProofs!LoseTree(t))]_(SeedProofs!vars)
    BY DEF Seed!StartApp, SeedProofs!StartApp, Seed!ResetStorage, SeedProofs!ResetStorage,
           Seed!Install, SeedProofs!Install, Seed!LoseTree, SeedProofs!LoseTree, Seed!vars,
           SeedProofs!vars
  <2>. QED
    BY <2>1, <2>2, <2>3 DEF Seed!Next, SeedProofs!Next, Seed!vars, SeedProofs!vars
<1>. QED
  BY <1>1, <1>2, PTL DEF Seed!Spec, SeedProofs!Spec

\* For any accounts and any builds, as long as each has an executable of its own and the
\* security files that build.ps1 puts in, copies succeed and none is torn: over all
\* launches, sign-ins, updates and kills the game runs for a verified owner, as that
\* owner, on a whole runtime (App.cpp 3011-3107).
THEOREM PromiseCorrect ==
    ASSUME Seed!VersionsAssumption, Seed!SizeAssumption, Seed!FilesAssumption,
           Seed!FaultsAssumption, Seed!BuildAssumption, ~CopyFaults, ~TornCopies
    PROVE  SessionSpec => []OwnersRunWhole
<1>1. /\ SeedProofs!VersionsAssumption /\ SeedProofs!SizeAssumption
      /\ SeedProofs!FilesAssumption /\ SeedProofs!FaultsAssumption
      /\ SeedProofs!BuildAssumption
  BY DEF Seed!VersionsAssumption, SeedProofs!VersionsAssumption, Seed!SizeAssumption,
         SeedProofs!SizeAssumption, Seed!FilesAssumption, SeedProofs!FilesAssumption,
         Seed!FaultsAssumption, SeedProofs!FaultsAssumption, Seed!BuildAssumption,
         SeedProofs!BuildAssumption, Seed!Trees, SeedProofs!Trees, Seed!FileStamp,
         SeedProofs!FileStamp
<1>2. SeedProofs!Spec => []SeedProofs!RunsWhole
  BY <1>1, SeedProofs!RunsWholeCorrect
<1>3. SeedProofs!RunsWhole => Seed!RunsWhole
  BY DEF SeedProofs!RunsWhole, Seed!RunsWhole, SeedProofs!Whole, Seed!Whole,
         SeedProofs!Packaged, Seed!Packaged, SeedProofs!Trees, Seed!Trees,
         SeedProofs!ServesFor, Seed!ServesFor
<1>. QED
  BY <1>2, <1>3, SeedIsSeed, SessionRunsSeed, GameIsOwnersCorrect, PTL
  DEF ImplementsSeed, OwnersRunWhole
===============================================================================
