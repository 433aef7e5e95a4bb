--------------------------- MODULE MCLauncherAuth ---------------------------
(***************************************************************************)
(* Instances of LauncherAuth for TLC: two owners and a guest, codes that   *)
(* live for up to seven seconds, a service that asks for no gap (interval  *)
(* 0), for two seconds, or for so many that the milliseconds overflow.     *)
(***************************************************************************)
EXTENDS LauncherAuth

CONSTANTS alice, bob, guest
MCAccounts == {alice, bob, guest}
MCOwners == {alice, bob}
MCLifetimes == {0, 7}
MCGaps == {0, 2, 2147484}
MCLags == {0, 1}
=============================================================================
