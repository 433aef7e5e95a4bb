---------------------------- MODULE MCRuntimeSeed ---------------------------
(***************************************************************************)
(* Instances of RuntimeSeed for TLC: three builds of a package with nine   *)
(* files to copy, the executable, which every build writes anew, and the   *)
(* patch jar, which only the first has (build_cert_fixed.ps1 443 makes it, *)
(* build.ps1 460 no longer does).  "lib" changes size and contents in      *)
(* every build, "tex" contents only; in the third build both are older     *)
(* than in the second.  "opengl" is missing from the second build, and the *)
(* security properties change once, without changing size.                 *)
(***************************************************************************)
EXTENDS RuntimeSeed

MCVersions == 1..3
MCTwoVersions == 1..2
MCFiles ==
    {"exe", "lib", "tex", "jvm", "sec", "xbox", "glfw", "opengl", "gl", "patch", "props"}
\* With faults: one file in most trees, none in graphics.
MCFewFiles == MCFiles \ {"xbox", "glfw", "gl"}
MCDir ==
    [f \in Files |->
        CASE f = "exe" -> "package" [] f = "lib" -> "game" [] f = "tex" -> "assets"
          [] f \in {"jvm", "sec", "xbox"} -> "jre"
          [] f \in {"glfw", "opengl"} -> "natives" [] f = "gl" -> "graphics"
          [] OTHER -> "root"]
MCPkg ==
    [v \in Versions |-> [f \in Files |->
        CASE f \in {"exe", "lib", "tex"} -> v
          [] f \in {"sec", "xbox", "props"} /\ v > 1 -> 2
          [] f = "opengl" /\ "glfw" \in Files /\ v = 2 -> 0
          [] f = "patch" /\ v > 1 -> 0
          [] OTHER -> 1]]
\* The packages that build.ps1 makes: no patch jar.
MCPkgToday == [v \in Versions |-> [MCPkg[v] EXCEPT !["patch"] = 0]]
MCSize(f, r) == IF f = "lib" THEN r ELSE 1
MCTime(f, r) == IF f \in {"lib", "tex"} /\ r = 3 THEN 1 ELSE r
MCStamped == {"exe", "jvm", "patch", "gl"} \cap Files
MCNow == 5
=============================================================================
