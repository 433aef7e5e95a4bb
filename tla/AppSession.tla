------------------------------ MODULE AppSession ------------------------------
(***************************************************************************)
(* App::Run from the first screen to the running game, over any number of  *)
(* launches: the sign-in of LauncherAuth, and, once Play has left its loop, *)
(* the preparation of RuntimeSeed in the same process.  Both have to do    *)
(* with the same player and the same console; an end of the process, at    *)
(* any point, is the end of both, and the package and LocalState change    *)
(* only while there is no process.                                         *)
(***************************************************************************)
EXTENDS LauncherAuth

CONSTANTS
    Versions, Files, Dir, Pkg, Size(_, _), Time(_, _), Stamped, Exe, Jvm, PatchJar, OpenGl,
    Security, Rewritten, Props, Now, CopyFaults, TornCopies   \* see RuntimeSeed

VARIABLES
    pkg, copies, trees, marker, at, todo, seeded, failed,   \* see RuntimeSeed
    stage          \* how far the preparation is: "off", "check", "seed", "run"

seedVars == <<pkg, copies, trees, marker, stage, at, todo, seeded, failed>>
sessionVars == <<vars, seedVars>>

\* LocalState loses no trees here.
Seed == INSTANCE RuntimeSeed WITH local <- copies, pc <- stage, Losses <- FALSE

\* The preparation is under way, or the game, when the loop of Run has been left.
OneProcess == stage = "off" <=> pc # "launch"

SessionInit == Init /\ Seed!Init

-----------------------------------------------------------------------------
Launch == StartApp /\ UNCHANGED seedVars

SignIn == (Resolve \/ MenuSignOut) /\ UNCHANGED seedVars

\* The loop of Run is left, and the question is whether the copy is current.
Play == MenuPlay /\ Seed!StartApp

Prepare == Seed!Prepare /\ UNCHANGED vars

\* In a file operation or between two, the process is gone.
End == Kill /\ IF stage = "off" THEN UNCHANGED seedVars ELSE Seed!Killed

\* The player at another device, and the services.
Elsewhere ==
    /\ \/ \E reply \in Accounts \cup {"declined"} : Answer(reply)
       \/ \E a \in Accounts : SessionEnds(a)
    /\ UNCHANGED seedVars

Maintain ==
    /\ pc = "stopped"
    /\ \/ \E v \in Versions : Seed!Install(v)
       \/ Seed!ResetStorage
    /\ UNCHANGED vars

SessionNext == Launch \/ SignIn \/ Play \/ Prepare \/ End \/ Elsewhere \/ Maintain

SessionSpec == SessionInit /\ [][SessionNext]_sessionVars

-----------------------------------------------------------------------------
(* Properties.                                                             *)

\* The game runs for a verified owner, under the name, the id and the token of that
\* one account, whatever launches, accounts, updates and kills came before
\* (App.cpp 3011-3051, 3104-3107).
GameIsOwners ==
    stage = "run" => out.uuid \in Owners /\ out.username = out.uuid /\ out.accessToken = out.uuid

\* And on a runtime that is whole: the promise of a launch (App.cpp 3011-3107).
OwnersRunWhole == GameIsOwners /\ Seed!RunsWhole

\* The runtime in LocalState, its files, trees and marker, is written to for an owner who
\* has chosen Play, and for nobody else: whoever is refused leaves it as it was
\* (App.cpp 3012-3047).  The logs, hwnd.txt and the directory of MobileGlues, which are no
\* part of it, are written before the sign-in (App.cpp 2978-3010).
SeedsForOwners ==
    [][<<copies, trees, marker>>' # <<copies, trees, marker>>
           => pc = "stopped" \/ (pc = "launch" /\ out.uuid \in Owners)]_sessionVars

\* Over all sign-ins and accounts the preparation is that of RuntimeSeed
\* (App.cpp 3028-3051).
ImplementsSeed == Seed!Spec
===============================================================================
