---------------------------- MODULE MCLaunchHost ----------------------------
(***************************************************************************)
(* An instance of LaunchHost for TLC: stdout's log, and one that log4j     *)
(* rolls over.                                                             *)
(***************************************************************************)
EXTENDS LaunchHost

MCLogs == {"java_output", "latest"}
MCRolled == {"latest"}
=============================================================================
