---------------------------- MODULE MCGlfwContext ---------------------------
(***************************************************************************)
(* Instances of GlfwContext for TLC: Series and Xbox One consoles with     *)
(* every set of configs a driver may offer, one whose package lacks the    *)
(* Xbox One runtime, one whose libEGL lacks an export, one without a       *)
(* display, two with an override.                                          *)
(***************************************************************************)
EXTENDS GlfwContext

CONSTANTS main, worker

Console(name, packaged, configs) ==
    [requested |-> name, packaged |-> packaged, exported |-> TRUE, display |-> TRUE,
     configs |-> configs]

MCThreads == {main, worker}
MCIncomplete == {Console("xboxone", {"mesa"}, {"es3", "gl"})}
MCUnexported == {[Console("mesa", {"mesa"}, {"gl"}) EXCEPT !.exported = FALSE]}
\* An override that is a word for Mesa, and one that is none.
MCOverridden == {Console("series", {"mesa"}, {"gl"}), Console("other", {"mesa"}, {"gl"})}
\* Every set of configs a driver may offer.
MCBoxes ==
    {Console("mesa", {"mesa"}, c) : c \in SUBSET {"gl", "gl-ns"}} \cup
    {Console("xboxone", Runtimes, c) : c \in SUBSET {"es3", "es3-ns", "es2", "es2-ns"}} \cup
    MCIncomplete \cup MCUnexported \cup MCOverridden \cup
    {[Console("mesa", {"mesa"}, {}) EXCEPT !.display = FALSE]}
=============================================================================
