-------------------------------- MODULE Screens --------------------------------
(***************************************************************************)
(* What the player is shown before the game: the sign-in page, as long as  *)
(* the launcher waits for an approval, and the menu of who is signed in.   *)
(* One thread draws both, so one is shown at a time; a player may be       *)
(* signed in without a page, and comes back to one after signing out.      *)
(***************************************************************************)
EXTENDS SignInPage, MainMenu

screenVars == <<pageVars, menuVars>>

ScreensTypeOK ==
    /\ PageTypeOK /\ MenuTypeOK
    /\ open => step = "post"

ScreensInit == Init /\ MenuInit

-----------------------------------------------------------------------------
\* The launcher signs somebody in: at its start, or after a sign out.
SignIn == ~open /\ Next /\ UNCHANGED menuVars

\* ResolveLaunchAuthConfig has returned, and its page is gone.
OpenMenu == step = "post" /\ Open /\ UNCHANGED pageVars

InMenu ==
    /\ Turn \/ \E k \in Keys : KeyMoves(k)
    /\ UNCHANGED pageVars

ScreensNext == SignIn \/ OpenMenu \/ InMenu

ScreensSpec == ScreensInit /\ [][ScreensNext]_screenVars
================================================================================
